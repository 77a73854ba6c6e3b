------------------------- MODULE TvmControl_proofs --------------------------
(* Proofs about TvmControl, for every program the lowering can produce:    *)
(* the clock advances only on the budget, an isolate does not outlive its  *)
(* cpu, the stacks of the handlers are the blocks the program is in, and   *)
(* the blocks that are given time take it.  The first two follow from one  *)
(* number, the last moment the budget of a timeline reaches (Horizon), not *)
(* counting what full arenas have put on its clock: no step but those that *)
(* go back in time puts it off, and those return to a timeline that kept   *)
(* the same bounds.  The third needs the stacks of every frame, anchor and *)
(* context to agree with the blocks around the place it was kept at        *)
(* (Stacked), and how the blocks around the counter change from one        *)
(* instruction to the next.  The last needs the entries of those stacks to *)
(* say when each block was entered and for how long (Punctual), and on the *)
(* way back to a for loop that its pace has passed (Awaited).              *)
EXTENDS TvmControl_inv, FiniteSetTheorems, WellFoundedInduction, TLAPS

-----------------------------------------------------------------------------
(* Sequences and functions                                                 *)

(* Append adds an element at the end and keeps the others.                 *)
LEMMA AppendIs ==
  ASSUME NEW s, IsSeq(s), NEW e
  PROVE  /\ IsSeq(Append(s, e)) /\ DOMAIN Append(s, e) = 1 .. Len(s) + 1
         /\ Append(s, e)[Len(s) + 1] = e /\ Len(s) \in Nat
         /\ \A i \in DOMAIN Append(s, e) :
              i = Len(s) + 1 \/ (i \in DOMAIN s /\ Append(s, e)[i] = s[i])
<1>1. PICK S : s \in Seq(S) BY DEF IsSeq
<1>2. s \in Seq(S \cup {e}) /\ e \in S \cup {e} BY <1>1, SMT
<1> DEFINE T == S \cup {e}
<1> HIDE DEF T
<1>3. s \in Seq(T) /\ e \in T BY <1>2 DEF T
<1>4. /\ Append(s, e) \in Seq(T) /\ Append(s, e)[Len(s) + 1] = e /\ Len(s) \in Nat
      /\ Len(Append(s, e)) = Len(s) + 1
      /\ \A i \in 1 .. Len(s) : Append(s, e)[i] = s[i]
  BY <1>3, SMT
<1>5. DOMAIN Append(s, e) = 1 .. Len(s) + 1 /\ DOMAIN s = 1 .. Len(s) BY <1>3, <1>4, SMT
<1>6. \A i \in 1 .. Len(s) + 1 : i = Len(s) + 1 \/ i \in 1 .. Len(s) BY <1>4, SMT
<1> QED BY <1>4, <1>5, <1>6 DEF IsSeq

(* Front keeps all but the last, which Last returns.                       *)
LEMMA FrontIs ==
  ASSUME NEW s, IsSeq(s), s # <<>>
  PROVE  /\ IsSeq(Front(s)) /\ Len(s) \in DOMAIN s /\ Last(s) = s[Len(s)]
         /\ \A i \in DOMAIN Front(s) : i \in DOMAIN s /\ Front(s)[i] = s[i]
<1>1. PICK S : s \in Seq(S) BY DEF IsSeq
<1>0. DOMAIN s = 1 .. Len(s) /\ Len(s) \in 1 .. Len(s) BY <1>1, SMT
<1>2. /\ SubSeq(s, 1, Len(s) - 1) \in Seq(S)
      /\ Len(SubSeq(s, 1, Len(s) - 1)) = Len(s) - 1
  BY <1>0, <1>1, SMT
<1>3. \A i \in 1 .. Len(s) - 1 : SubSeq(s, 1, Len(s) - 1)[i] = s[i] BY <1>1, <1>2, SMT
<1>4. \A i \in 1 .. Len(s) - 1 : i \in 1 .. Len(s) BY <1>0, SMT
<1>5. DOMAIN SubSeq(s, 1, Len(s) - 1) = 1 .. Len(s) - 1 BY <1>2, SMT
<1> QED BY <1>0, <1>2, <1>3, <1>4, <1>5 DEF Front, Last, IsSeq

(* The types Front and Last return.                                        *)
LEMMA FrontType ==
  ASSUME NEW S, NEW s \in Seq(S), s # <<>>
  PROVE  Front(s) \in Seq(S) /\ Last(s) \in S /\ Len(s) \in DOMAIN s /\ Last(s) = s[Len(s)]
BY SMT DEF Front, Last

(* Writing a register keeps its type.                                      *)
LEMMA RegisterType ==
  ASSUME NEW r \in Registers
  PROVE  /\ \A b \in BOOLEAN : [r EXCEPT !.more = b] \in Registers
         /\ \A e \in [ready : Int, deadline : Int] : [r EXCEPT !.promise = <<e>>] \in Registers
         /\ [r EXCEPT !.promise = <<>>] \in Registers
         /\ \A n \in Int : [r EXCEPT !.lease = n] \in Registers
<1> DEFINE P == [ready : Int, deadline : Int]
           Q == Seq(P)
<1>1. \A e \in P : <<e>> \in Q
  <2> HIDE DEF P
  <2> QED BY SMT
<1>2. <<>> \in Q
  OBVIOUS
<1>3. r \in [more : BOOLEAN, promise : Q, lease : Int] BY DEF Registers
<1> HIDE DEF P, Q
<1>4. \A q \in Q : [r EXCEPT !.promise = q] \in [more : BOOLEAN, promise : Q, lease : Int]
  BY <1>3
<1>5. \A b \in BOOLEAN : [r EXCEPT !.more = b] \in [more : BOOLEAN, promise : Q, lease : Int]
  BY <1>3
<1>6. \A n \in Int : [r EXCEPT !.lease = n] \in [more : BOOLEAN, promise : Q, lease : Int]
  BY <1>3
<1> QED BY <1>1, <1>2, <1>4, <1>5, <1>6 DEF P, Q, Registers

(* What is bounded by a moment is bounded by an earlier one.               *)
LEMMA Sooner ==
  ASSUME NEW p, NEW a \in Int, NEW b \in Int, a <= b
  PROVE  /\ \A e : Lasting(p, e, b) => Lasting(p, e, a)
         /\ \A c : FramesLast(p, c, b) => FramesLast(p, c, a)
<1>1. ASSUME NEW e, Lasting(p, e, b) PROVE Lasting(p, e, a)
  <2> SUFFICES ASSUME NEW x \in DOMAIN e, p[x[1]][x[2]].op = "isolate"
               PROVE  /\ e[x].clock \in Int /\ e[x].ms \in Int /\ e[x].unpaid \in Int
                      /\ a <= e[x].clock + e[x].ms - e[x].unpaid
    BY DEF Lasting
  <2>1. /\ e[x].clock \in Int /\ e[x].ms \in Int /\ e[x].unpaid \in Int
        /\ b <= e[x].clock + e[x].ms - e[x].unpaid
    BY <1>1 DEF Lasting
  <2> QED BY <2>1, SMT
<1> QED BY <1>1 DEF FramesLast
-----------------------------------------------------------------------------
(* Changes of a timeline                                                   *)

(* Horizons are times.                                                     *)
LEMMA HorizonType == ASSUME NEW t, Timed(t) PROVE Horizon(t) \in Int
BY SMT DEF Timed, Horizon

(* A change that leaves those alone spends.                                *)
LEMMA AlikeSpends ==
  ASSUME NEW p, NEW s, NEW u, Typed(p, s), Alike(p, s, u)
  PROVE  Spends(p, s, u)
<1>1. Horizon(u) \in Int /\ Horizon(s) \in Int /\ Horizon(u) <= Horizon(s)
  BY HorizonType DEF Typed, Alike
<1>2. Typed(p, u) BY DEF Typed, Alike
<1>3. Bounded(p, s) => Bounded(p, u) BY <1>1, Sooner DEF Bounded, Alike
<1> QED BY <1>1, <1>2, <1>3 DEF Spends, Affords, Owes, Alike

(* Two changes in a row.                                                   *)
LEMMA SpendsTwice ==
  ASSUME NEW p, NEW s, NEW t, NEW u, Typed(p, s), Spends(p, s, t), Spends(p, t, u)
  PROVE  Spends(p, s, u)
<1>1. Horizon(s) \in Int /\ Horizon(t) \in Int /\ Horizon(u) \in Int
  BY HorizonType DEF Spends, Affords, Typed
<1>2. Horizon(u) <= Horizon(t) /\ Horizon(t) <= Horizon(s) BY DEF Spends, Affords
<1>3. Horizon(u) <= Horizon(s) BY <1>1, <1>2, SMT
<1>4. Affords(p, s, u) BY <1>3 DEF Spends, Affords
<1>5. Owes(s, u) /\ u.policies = s.policies BY DEF Spends, Owes, Throttles, Governing
<1> QED BY <1>4, <1>5 DEF Spends

(* What a successful write leaves.                                         *)
LEMMA WrittenDelays ==
  ASSUME NEW out, NEW n \in Nat, NEW w \in Written(out, n), w.err = "running",
         DOMAIN out.t = Fields, Timed(out.t)
  PROVE  out.err = "running" /\ Delayed(out.t, w.t)
<1>1. out.err = "running" BY DEF Written
<1> DEFINE late == IF Throttles(out.t) THEN 0..n ELSE {0}
<1>2. PICK k \in late : w = Ok(Throttled(out.t, k)) \/ w = Error(Throttled(out.t, k), "MemoryFault")
  BY <1>1 DEF Written
<1>3. w.t = Throttled(out.t, k) BY <1>2 DEF Ok, Error
<1>4. k \in Nat /\ (k = 0 \/ Throttles(out.t)) BY SMT
<1> HIDE DEF late
<1>5. /\ DOMAIN w.t = Fields /\ \A f \in Fields \ {"clock", "unpaid"} : w.t[f] = out.t[f]
      /\ w.t.clock = out.t.clock + 10 * k /\ w.t.unpaid = out.t.unpaid + 10 * k
  BY <1>3 DEF Throttled, Fields
<1>6. 10 * k \in Nat BY <1>4, SMT
<1>7. k = 0 => out.t.unpaid + 10 * k = out.t.unpaid BY SMT DEF Timed
<1>8. Owes(out.t, w.t) BY <1>4, <1>5, <1>7 DEF Owes
<1> QED BY <1>1, <1>5, <1>6, <1>8 DEF Delayed

(* What a write leaves alone, whatever it was made to.                     *)
LEMMA WrittenFields ==
  ASSUME NEW out, NEW n, NEW w \in Written(out, n), out.err = "running", DOMAIN out.t = Fields
  PROVE  DOMAIN w.t = Fields /\ \A f \in Fields \ {"clock", "unpaid"} : w.t[f] = out.t[f]
<1>1. \E k : w.t = Throttled(out.t, k) BY DEF Written, Ok, Error
<1> QED BY <1>1 DEF Throttled, Fields

(* A write straight into the arena changes nothing, if it succeeds.        *)
LEMMA InsertedIs ==
  ASSUME NEW out, NEW w \in Inserted(out), w.err = "running"
  PROVE  out.err = "running" /\ w.t = out.t
BY DEF Inserted, Error

(* Writing registers spends: the horizon leaves out what arenas add.       *)
LEMMA DelayedSpends ==
  ASSUME NEW p, NEW s, NEW u, NEW v, Typed(p, s), Spends(p, s, u), Delayed(u, v)
  PROVE  Spends(p, s, v)
<1>0. Typed(p, u) BY DEF Spends, Affords
<1>1. /\ DOMAIN v = Fields /\ v.budget = u.budget /\ v.slice = u.slice /\ v.code = u.code
      /\ v.pc = u.pc /\ v.regs = u.regs /\ v.loops = u.loops /\ v.flat = u.flat
      /\ v.calls = u.calls /\ v.anchors = u.anchors /\ v.entered = u.entered
      /\ v.policies = u.policies
  BY DEF Delayed, Fields
<1>2. PICK d \in Nat : v.clock = u.clock + d /\ v.unpaid = u.unpaid + d BY DEF Delayed
<1>3. u.clock \in Int /\ u.budget \in Nat /\ u.unpaid \in Nat /\ u.slice \in Int
  BY <1>0 DEF Typed, Timed
<1>4. v.clock \in Int /\ v.unpaid \in Nat /\ Horizon(v) = Horizon(u)
  BY <1>1, <1>2, <1>3, SMT DEF Horizon
<1>5. Typed(p, v) BY <1>0, <1>1, <1>3, <1>4 DEF Typed, Timed, Placed, StacksTyped
<1>6. Bounded(p, u) => Bounded(p, v) BY <1>1, <1>4 DEF Bounded
<1>7. Horizon(v) <= Horizon(u) BY <1>0, <1>4, HorizonType, SMT DEF Typed
<1>8. Spends(p, u, v) BY <1>1, <1>5, <1>6, <1>7 DEF Spends, Affords, Delayed
<1> QED BY <1>8, SpendsTwice

(* Entering a block: an isolate gets all that the budget has left.         *)
LEMMA EnterSpends ==
  ASSUME NEW p, NEW s, NEW b, NEW ms \in Int, Typed(p, s),
         p[b[1]][b[2]].op = "isolate" => Horizon(s) <= s.clock + ms - s.unpaid,
         NEW u, u = [s EXCEPT !.entered =
                       Bind(@, b, [clock |-> s.clock, ms |-> ms, unpaid |-> s.unpaid])]
  PROVE  Spends(p, s, u)
<1>1. /\ DOMAIN u = Fields /\ \A f \in Fields : f # "entered" => u[f] = s[f]
      /\ u.entered = Bind(s.entered, b, [clock |-> s.clock, ms |-> ms, unpaid |-> s.unpaid])
  BY DEF Typed, Fields
<1>2. /\ u.unpaid = s.unpaid /\ u.policies = s.policies
      /\ u.clock = s.clock /\ u.budget = s.budget /\ u.slice = s.slice /\ u.code = s.code
      /\ u.pc = s.pc /\ u.regs = s.regs /\ u.loops = s.loops /\ u.flat = s.flat
      /\ u.calls = s.calls /\ u.anchors = s.anchors
  BY <1>1 DEF Fields
<1>3. Typed(p, u) /\ Horizon(u) = Horizon(s)
  BY <1>1, <1>2 DEF Typed, Timed, Placed, StacksTyped, Horizon
<1>4. s.clock \in Int /\ s.unpaid \in Int /\ Horizon(s) \in Int /\ Horizon(s) <= Horizon(s)
  BY HorizonType, SMT DEF Typed, Timed
<1>5. Lasting(p, s.entered, Horizon(s)) => Lasting(p, u.entered, Horizon(s))
  <2> DEFINE v == [clock |-> s.clock, ms |-> ms, unpaid |-> s.unpaid]
             e == Bind(s.entered, b, v)
  <2>0. v.clock = s.clock /\ v.ms = ms /\ v.unpaid = s.unpaid
    OBVIOUS
  <2> HIDE DEF v
  <2>2. /\ DOMAIN e = DOMAIN s.entered \cup {b} /\ e[b] = v
        /\ \A x \in DOMAIN s.entered : x # b => e[x] = s.entered[x]
    BY DEF Bind
  <2> HIDE DEF e
  <2>1. e[b].clock = s.clock /\ e[b].ms = ms /\ e[b].unpaid = s.unpaid BY <2>0, <2>2
  <2>3. Lasting(p, s.entered, Horizon(s)) => Lasting(p, e, Horizon(s))
    BY <1>4, <2>1, <2>2 DEF Lasting
  <2> QED BY <1>1, <2>3 DEF e, v
<1> QED BY <1>2, <1>3, <1>4, <1>5 DEF Spends, Affords, Owes, Bounded

(* Framing a call: the frame keeps what the caller has entered.            *)
LEMMA CallSpends ==
  ASSUME NEW p, NEW s, NEW f, NEW u, Typed(p, s),
         Placed(p, f), StacksTyped(f), f.entered = s.entered,
         DOMAIN u = Fields, Timed(u), Placed(p, u), StacksTyped(u),
         u.calls = Append(s.calls, f), u.anchors = s.anchors, u.entered = <<>>,
         u.policies = s.policies, u.unpaid = s.unpaid, Horizon(u) = Horizon(s)
  PROVE  Spends(p, s, u)
<1>1. IsSeq(s.calls) BY DEF Typed, Framed
<1>2. /\ IsSeq(u.calls) /\ u.calls[Len(s.calls) + 1] = f
      /\ \A i \in DOMAIN u.calls :
           i = Len(s.calls) + 1 \/ (i \in DOMAIN s.calls /\ u.calls[i] = s.calls[i])
  BY <1>1, AppendIs
<1>3. Framed(p, u.calls) BY <1>2 DEF Typed, Framed
<1>4. Typed(p, u) BY <1>3 DEF Typed
<1>5. ASSUME Bounded(p, s) PROVE Bounded(p, u)
  <2>1. FramesLast(p, u.calls, Horizon(u)) BY <1>2, <1>5 DEF Bounded, FramesLast
  <2>2. Lasting(p, u.entered, Horizon(u)) BY DEF Lasting
  <2> QED BY <1>5, <2>1, <2>2 DEF Bounded
<1>6. Horizon(u) <= Horizon(s) BY HorizonType, SMT DEF Typed
<1> QED BY <1>4, <1>5, <1>6 DEF Spends, Affords, Owes

(* Returning: the caller's blocks were given at least what is left.        *)
LEMMA ReturnSpends ==
  ASSUME NEW p, NEW s, NEW f, NEW u, Typed(p, s), s.calls # <<>>, f = Last(s.calls),
         DOMAIN u = Fields, Timed(u),
         u.code = f.code, u.pc = f.pc, u.regs = f.regs, u.loops = f.loops, u.flat = f.flat,
         u.calls = Front(s.calls), u.anchors = s.anchors, u.entered = f.entered,
         u.policies = s.policies, u.unpaid = s.unpaid, Horizon(u) = Horizon(s)
  PROVE  Spends(p, s, u)
<1>1. IsSeq(s.calls) BY DEF Typed, Framed
<1>2. /\ IsSeq(u.calls) /\ Len(s.calls) \in DOMAIN s.calls /\ f = s.calls[Len(s.calls)]
      /\ \A i \in DOMAIN u.calls : i \in DOMAIN s.calls /\ u.calls[i] = s.calls[i]
  BY <1>1, FrontIs
<1>3. Framed(p, u.calls) /\ Placed(p, f) /\ StacksTyped(f) BY <1>2 DEF Typed, Framed
<1>4. Placed(p, u) /\ StacksTyped(u) BY <1>3 DEF Placed, StacksTyped
<1>5. Typed(p, u) BY <1>3, <1>4 DEF Typed
<1>6. Bounded(p, s) => Bounded(p, u) BY <1>2 DEF Bounded, FramesLast
<1>7. Horizon(u) <= Horizon(s) BY HorizonType, SMT DEF Typed
<1> QED BY <1>5, <1>6, <1>7 DEF Spends, Affords, Owes

(* Setting an anchor: it keeps the bounds of the moment.                   *)
LEMMA AnchorSpends ==
  ASSUME NEW p, NEW s, NEW n, NEW point, NEW u, Typed(p, s),
         point.clock = s.clock, point.budget = s.budget, point.code = s.code, point.pc = s.pc,
         point.regs = s.regs, point.entered = s.entered, point.calls = s.calls,
         point.unpaid = s.unpaid,
         u = [s EXCEPT !.anchors = Bind(@, n, point)]
  PROVE  Spends(p, s, u)
<1>1. /\ DOMAIN u = Fields /\ u.clock = s.clock /\ u.budget = s.budget /\ u.slice = s.slice
      /\ u.code = s.code /\ u.pc = s.pc /\ u.regs = s.regs /\ u.loops = s.loops
      /\ u.flat = s.flat /\ u.calls = s.calls /\ u.entered = s.entered
      /\ u.policies = s.policies /\ u.unpaid = s.unpaid
      /\ u.anchors = Bind(s.anchors, n, point)
  BY DEF Typed, Fields
<1>2. /\ DOMAIN u.anchors = DOMAIN s.anchors \cup {n} /\ u.anchors[n] = point
      /\ \A x \in DOMAIN s.anchors : x # n => u.anchors[x] = s.anchors[x]
  BY <1>1 DEF Bind
<1>3. Horizon(point) = Horizon(s) /\ Horizon(u) = Horizon(s) BY <1>1 DEF Horizon
<1>4. Placed(p, point) /\ point.clock \in Int /\ point.budget \in Nat /\ point.unpaid \in Nat
  BY DEF Typed, Placed, Timed
<1>5. Anchored(p, u.anchors) BY <1>2, <1>4 DEF Typed, Anchored
<1>6. Typed(p, u) BY <1>1, <1>5 DEF Typed, Timed, Placed, StacksTyped
<1>7. ASSUME Bounded(p, s) PROVE Bounded(p, u)
  <2>1. Lasting(p, point.entered, Horizon(point)) /\ FramesLast(p, point.calls, Horizon(point))
    BY <1>3, <1>7 DEF Bounded
  <2>2. AnchorsLast(p, u.anchors) BY <1>2, <1>7, <2>1 DEF Bounded, AnchorsLast
  <2> QED BY <1>1, <1>3, <1>7, <2>2 DEF Bounded
<1>8. Horizon(u) <= Horizon(s) BY <1>3, HorizonType, SMT DEF Typed
<1> QED BY <1>1, <1>6, <1>7, <1>8 DEF Spends, Affords, Owes
-----------------------------------------------------------------------------
(* What the loop of execute_program does before a handler runs             *)

(* The instruction is one of the program.                                  *)
LEMMA InstrIs ==
  ASSUME Ready, NEW op, Executes(op)
  PROVE  /\ Instr.op = op /\ WellFormed(prog, Instr)
         /\ tl.pc \in Counters /\ tl.code \in DOMAIN prog /\ "main" \in DOMAIN prog
         /\ IsSeq(Code(tl)) /\ tl.pc \in DOMAIN Code(tl)
<1>1. /\ tl.code \in DOMAIN prog /\ tl.pc \in Counters /\ tl.pc <= Len(Code(tl))
      /\ Instr.op = op /\ "main" \in DOMAIN prog
  BY ProgramAssumption DEF Ready, Typed, Placed, Executes
<1>2. /\ Code(tl) \in Seq(Range(Code(tl)))
      /\ \A i \in Range(Code(tl)) : WellFormed(prog, i)
  BY <1>1, ProgramAssumption DEF Ready, Code
<1> DEFINE c == Code(tl)
           S == Range(Code(tl))
<1>3. c \in Seq(S) /\ tl.pc \in Nat \ {0} /\ tl.pc <= Len(c) BY <1>1, <1>2 DEF Counters
<1> HIDE DEF c, S
<1>4. tl.pc \in DOMAIN c /\ c[tl.pc] \in S BY <1>3, SMT
<1> QED BY <1>1, <1>2, <1>3, <1>4 DEF c, S, Instr, IsSeq

(* The cost of the instruction is paid and the counter is behind it.       *)
LEMMA Fetch ==
  ASSUME Ready, NEW op, Executes(op)
  PROVE  /\ DOMAIN Fetched = Fields /\ Fetched.pc = tl.pc + 1 /\ Fetched.clock = tl.clock + 1
         /\ Fetched.budget = tl.budget - 1 /\ Fetched.slice = tl.slice /\ Fetched.code = tl.code
         /\ Fetched.regs = tl.regs /\ Fetched.loops = tl.loops /\ Fetched.flat = tl.flat
         /\ Fetched.calls = tl.calls /\ Fetched.anchors = tl.anchors
         /\ Fetched.entered = tl.entered /\ Fetched.policies = tl.policies
         /\ Fetched.unpaid = tl.unpaid
         /\ Spends(prog, tl, Fetched)
<1>1. /\ DOMAIN Fetched = Fields /\ Fetched.pc = tl.pc + 1 /\ Fetched.clock = tl.clock + 1
      /\ Fetched.budget = tl.budget - 1 /\ Fetched.slice = tl.slice /\ Fetched.code = tl.code
      /\ Fetched.regs = tl.regs /\ Fetched.loops = tl.loops /\ Fetched.flat = tl.flat
      /\ Fetched.calls = tl.calls /\ Fetched.anchors = tl.anchors
      /\ Fetched.entered = tl.entered /\ Fetched.policies = tl.policies
      /\ Fetched.unpaid = tl.unpaid
  BY DEF Ready, Typed, Fetched, Fields
<1>2. /\ tl.clock \in Int /\ tl.budget \in Nat /\ tl.budget > 0 /\ tl.pc \in Nat \ {0}
      /\ tl.unpaid \in Nat
  BY InstrIs DEF Ready, Typed, Timed, Executes, Counters
<1>3. /\ Fetched.clock \in Int /\ Fetched.budget \in Nat /\ Fetched.pc \in Nat \ {0}
      /\ Horizon(Fetched) <= Horizon(tl)
  BY <1>1, <1>2, SMT DEF Horizon
<1>4. Alike(prog, tl, Fetched)
  BY <1>1, <1>3 DEF Alike, Ready, Typed, Timed, Placed, StacksTyped, Counters
<1>5. Spends(prog, tl, Fetched) BY <1>4, AlikeSpends DEF Ready
<1> QED BY <1>1, <1>5

(* What a change of the fetched timeline spends, the step does.            *)
LEMMA FromFetched ==
  ASSUME Ready, NEW op, Executes(op), NEW u, Spends(prog, Fetched, u)
  PROVE  Spends(prog, tl, u)
BY Fetch, SpendsTwice DEF Ready

(* Such a change spends no time, and no isolate notices it.                *)
LEMMA BesideSpends ==
  ASSUME NEW p, NEW s, NEW u, Typed(p, s), Beside(s, u)
  PROVE  Spends(p, s, u)
<1>1. Horizon(u) = Horizon(s) /\ Horizon(s) \in Int
  BY HorizonType DEF Beside, Horizon, Typed
<1>2. Horizon(u) <= Horizon(s) BY <1>1, SMT
<1>3. Alike(p, s, u) BY <1>2 DEF Alike, Beside, Typed, Timed, Placed
<1> QED BY <1>3, AlikeSpends

(* What the handlers do to the fetched timeline beside time.               *)
LEMMA FetchedBeside ==
  ASSUME Ready, NEW op, Executes(op), NEW u, Beside(Fetched, u)
  PROVE  Spends(prog, tl, u)
<1>1. Typed(prog, Fetched) BY Fetch DEF Spends, Affords
<1> QED BY <1>1, BesideSpends, FromFetched

(* Paying moves the clock by what it takes from the budget.                *)
LEMMA PaidSpends ==
  ASSUME NEW p, NEW s, Typed(p, s), NEW ms \in Int, Paid(s, ms).err = "running",
         NEW u, u = Paid(s, ms).t
  PROVE  /\ Spends(p, s, u) /\ DOMAIN u = Fields /\ u.pc = s.pc /\ u.slice = s.slice
         /\ u.regs = s.regs /\ u.loops = s.loops /\ u.flat = s.flat
<1>1. s.clock \in Int /\ s.budget \in Nat /\ s.unpaid \in Nat /\ DOMAIN s = Fields
  BY DEF Typed, Timed
<1>2. ms <= s.budget /\ u = [s EXCEPT !.clock = @ + ms, !.budget = @ - ms]
  BY <1>1, SMT DEF Paid, Ok, Error
<1>3. /\ DOMAIN u = Fields /\ u.clock = s.clock + ms /\ u.budget = s.budget - ms
      /\ u.pc = s.pc /\ u.slice = s.slice /\ u.regs = s.regs /\ u.loops = s.loops
      /\ u.flat = s.flat /\ u.code = s.code /\ u.calls = s.calls /\ u.anchors = s.anchors
      /\ u.entered = s.entered /\ u.policies = s.policies /\ u.unpaid = s.unpaid
  BY <1>1, <1>2 DEF Fields
<1>4. u.clock \in Int /\ u.budget \in Nat /\ Horizon(u) <= Horizon(s)
  BY <1>1, <1>2, <1>3, SMT DEF Horizon
<1>5. Alike(p, s, u) BY <1>3, <1>4 DEF Alike, Typed, Timed, Placed, StacksTyped
<1> QED BY <1>3, <1>5, AlikeSpends

(* The types of a fetched timeline's parts.                                *)
LEMMA FetchedType ==
  ASSUME Ready, NEW op, Executes(op)
  PROVE  /\ Typed(prog, Fetched) /\ DOMAIN Fetched = Fields
         /\ Fetched.clock \in Int /\ Fetched.budget \in Nat /\ Fetched.slice \in Int
         /\ Fetched.pc \in Counters /\ Fetched.regs \in Registers /\ StacksTyped(Fetched)
BY Fetch DEF Spends, Affords, Typed, Timed, Placed

(* Handlers that end with writing registers.                               *)
LEMMA WritesSpend ==
  ASSUME Ready, status' = "running", NEW x, NEW n \in Nat, NEW out \in Written(x, n),
         Becomes(out), x.err = "running" => Spends(prog, tl, x.t)
  PROVE  Spends(prog, tl, tl')
<1>1. tl' = out.t /\ out.err = "running" /\ x.err = "running" BY DEF Becomes, Written
<1>2. Spends(prog, tl, x.t) /\ DOMAIN x.t = Fields /\ Timed(x.t)
  BY <1>1 DEF Spends, Affords, Typed
<1>3. Delayed(x.t, out.t) BY <1>1, <1>2, WrittenDelays
<1> QED BY <1>1, <1>2, <1>3, DelayedSpends DEF Ready

(* The handlers that take no time of their own.                            *)
LEMMA SimpleSpends ==
  ASSUME Ready, status' = "running",
         Other \/ Clone \/ Jump \/ JumpIfNot \/ EndIsolate \/ Slice \/ Capability \/ Defer
  PROVE  Spends(prog, tl, tl')
<1> DEFINE Moves(pc) == [Fetched EXCEPT !.pc = pc]
<1>1. ASSUME NEW op, Executes(op) PROVE Beside(Fetched, Fetched)
  BY <1>1, FetchedType DEF Beside
<1>2. ASSUME NEW op, Executes(op), NEW pc \in Counters PROVE Beside(Fetched, Moves(pc))
  BY <1>2, FetchedType DEF Beside, Fields, StacksTyped
<1> HIDE DEF Moves
<1>3. CASE Other
  <2>1. PICK out \in Written(Ok(Fetched), 1) : Becomes(out) BY <1>3 DEF Other, Only
  <2>2. Spends(prog, tl, Ok(Fetched).t) BY <1>1, <1>3, FetchedBeside DEF Other, Ok
  <2> QED BY <2>1, <2>2, WritesSpend
<1>10. CASE Clone
  <2>1. /\ Executes("clone") /\ tl' = [Fetched EXCEPT !.budget = @ - Instr.ms]
        /\ Instr.ms <= Fetched.budget
    BY <1>10, FetchedType, InstrIs, SMT DEF Clone, Only, Becomes, Inserted, Ok, Error, WellFormed
  <2>2. Instr.ms \in Nat BY <2>1, InstrIs, SMT DEF WellFormed
  <2>3. /\ Typed(prog, Fetched) /\ DOMAIN Fetched = Fields /\ Fetched.budget \in Nat
        /\ Fetched.clock \in Int /\ Fetched.unpaid \in Nat
    BY <2>1, FetchedType DEF Typed, Timed
  <2>4. Fetched.budget - Instr.ms \in Nat /\ Fetched.budget - Instr.ms <= Fetched.budget
    BY <2>1, <2>2, <2>3, SMT
  <2>5. \A f \in Fields \ {"budget"} : (tl')[f] = Fetched[f]
    BY <2>1, <2>3
  <2>6. Horizon(tl') <= Horizon(Fetched) BY <2>1, <2>3, <2>4, <2>5, SMT DEF Horizon, Fields
  <2>7. Alike(prog, Fetched, tl')
    BY <2>1, <2>3, <2>4, <2>5, <2>6 DEF Alike, Fields, Typed, Timed, Placed, StacksTyped
  <2> QED BY <2>1, <2>3, <2>7, AlikeSpends, FromFetched
<1>4. CASE Jump
  <2>1. Executes("jump") /\ Instr.to \in Counters /\ tl' = Moves(Instr.to)
    BY <1>4, InstrIs DEF Jump, Only, Becomes, Ok, WellFormed, Moves
  <2> QED BY <1>2, <2>1, FetchedBeside
<1>5. CASE JumpIfNot
  <2>1. /\ Executes("jumpIfNot") /\ Instr.to \in Counters
        /\ tl' = Fetched \/ tl' = Moves(Instr.to)
    BY <1>5, InstrIs DEF JumpIfNot, Only, Becomes, Ok, WellFormed, Moves
  <2> QED BY <1>1, <1>2, <2>1, FetchedBeside
<1>6. CASE EndIsolate
  <2>1. Executes("endIsolate") /\ tl' = [Fetched EXCEPT !.manifests = Monus(@, 1)]
    BY <1>6 DEF EndIsolate, Only, Becomes, Ok
  <2>2. Beside(Fetched, tl') BY <2>1, FetchedType DEF Beside, Fields, StacksTyped
  <2> QED BY <2>1, <2>2, FetchedBeside
<1>7. CASE Slice
  <2>1. Executes("slice") /\ tl' = [Fetched EXCEPT !.slice = Instr.ms]
    BY <1>7 DEF Slice, Only, Becomes, Ok
  <2>2. Instr.ms \in Int BY <2>1, InstrIs, SMT DEF WellFormed
  <2>3. Beside(Fetched, tl') BY <2>1, <2>2, FetchedType DEF Beside, Fields, StacksTyped
  <2> QED BY <2>1, <2>3, FetchedBeside
<1>8. CASE Capability
  <2>1. Executes("capability") /\ \E n : tl' = [Fetched EXCEPT !.uses = n]
    BY <1>8 DEF Capability, Only, Becomes, Ok, Error
  <2>2. Beside(Fetched, tl') BY <2>1, FetchedType DEF Beside, Fields, StacksTyped
  <2> QED BY <2>1, <2>2, FetchedBeside
<1>9. CASE Defer
  <2> DEFINE promise == [ready |-> Fetched.clock + Instr.latency,
                         deadline |-> Fetched.clock + Instr.ms]
             u == [Fetched EXCEPT !.regs.promise = <<promise>>]
  <2>1. Executes("defer") /\ \E out \in Written(Ok(u), 1) : Becomes(out)
    BY <1>9 DEF Defer, Only
  <2>2. Instr.ms \in Int /\ Instr.latency \in Int /\ Fetched.clock \in Int
    BY <2>1, InstrIs, FetchedType, SMT DEF WellFormed
  <2>3. promise \in [ready : Int, deadline : Int] BY <2>2, SMT
  <2> HIDE DEF promise
  <2>4. u.regs = [Fetched.regs EXCEPT !.promise = <<promise>>] /\ DOMAIN u = Fields
    BY <2>1, FetchedType DEF Fields
  <2>5. u.regs \in Registers BY <2>1, <2>3, <2>4, FetchedType, RegisterType
  <2>6. Beside(Fetched, u)
    BY <2>1, <2>4, <2>5, FetchedType DEF Beside, Fields, StacksTyped
  <2> HIDE DEF u
  <2>7. Spends(prog, tl, Ok(u).t) BY <2>1, <2>6, FetchedBeside DEF Ok
  <2> QED BY <2>1, <2>7, WritesSpend
<1> QED BY <1>3, <1>4, <1>5, <1>6, <1>7, <1>8, <1>9, <1>10

(* A policy moves no time.                                                 *)
LEMMA PolicyAffords ==
  ASSUME Ready, status' = "running", SetSaturationPolicy
  PROVE  Affords(prog, tl, tl') /\ tl'.unpaid = tl.unpaid
<1> DEFINE u == [tl' EXCEPT !.policies = Fetched.policies]
<1>1. /\ Executes("policy")
      /\ tl' = [Fetched EXCEPT !.policies = Bind(@, Instr.target, Instr.policy)]
  BY DEF SetSaturationPolicy, Only, Becomes, Ok
<1>2. /\ DOMAIN tl' = Fields /\ DOMAIN u = Fields /\ u.policies = Fetched.policies
      /\ \A f \in Fields \ {"policies"} : u[f] = tl'[f] /\ u[f] = Fetched[f]
  BY <1>1, FetchedType DEF Fields
<1> HIDE DEF u
<1>3. Beside(Fetched, u) BY <1>1, <1>2, FetchedType DEF Beside, Fields, StacksTyped
<1>4. Affords(prog, tl, u) BY <1>1, <1>3, FetchedBeside DEF Spends
<1>5. Horizon(tl') = Horizon(u) /\ tl'.unpaid = tl.unpaid
  BY <1>1, <1>2, Fetch DEF Horizon, Fields
<1>6. Typed(prog, tl')
  BY <1>2, <1>4 DEF Affords, Typed, Timed, Placed, StacksTyped, Fields
<1>7. Bounded(prog, u) => Bounded(prog, tl') BY <1>2, <1>5 DEF Bounded, Fields
<1> QED BY <1>4, <1>5, <1>6, <1>7 DEF Affords

(* Monus does not fall below zero.                                         *)
LEMMA MonusType == ASSUME NEW n \in Int, NEW m \in Int PROVE Monus(n, m) \in Nat /\ Monus(n, m) \in Int
BY SMT DEF Monus

(* A change beside time after one that spends.                             *)
LEMMA ThenBeside ==
  ASSUME Ready, NEW op, Executes(op), NEW s, Spends(prog, Fetched, s), NEW u, Beside(s, u)
  PROVE  Spends(prog, tl, u)
<1>1. Typed(prog, s) /\ Typed(prog, Fetched) BY FetchedType DEF Spends, Affords
<1>2. Spends(prog, Fetched, u) BY <1>1, BesideSpends, SpendsTwice
<1> QED BY <1>2, FromFetched

(* What a handler leaves when it has paid.                                 *)
LEMMA PaidIs ==
  ASSUME Ready, NEW op, Executes(op), NEW ms \in Int, Paid(Fetched, ms).err = "running",
         NEW u, u = Paid(Fetched, ms).t
  PROVE  /\ Spends(prog, Fetched, u) /\ DOMAIN u = Fields /\ u.pc = Fetched.pc
         /\ u.slice \in Int /\ u.pc \in Counters /\ u.regs = Fetched.regs
         /\ u.regs \in Registers /\ u.loops = Fetched.loops /\ u.flat = Fetched.flat
         /\ StacksTyped(u) /\ Beside(u, u) /\ Timed(u)
<1>1. Typed(prog, Fetched) BY FetchedType
<1>2. /\ Spends(prog, Fetched, u) /\ DOMAIN u = Fields /\ u.pc = Fetched.pc
      /\ u.slice = Fetched.slice /\ u.regs = Fetched.regs /\ u.loops = Fetched.loops
      /\ u.flat = Fetched.flat
  BY <1>1, PaidSpends
<1>3. Timed(u) BY <1>2 DEF Spends, Affords, Typed
<1> QED BY <1>2, <1>3, FetchedType DEF StacksTyped, Beside

(* Writing registers before something that is beside time.                 *)
LEMMA LateIs ==
  ASSUME Ready, NEW op, Executes(op), NEW u, Spends(prog, Fetched, u), NEW v, Delayed(u, v)
  PROVE  /\ Spends(prog, Fetched, v) /\ DOMAIN v = Fields /\ v.slice \in Int
         /\ v.pc \in Counters /\ v.regs \in Registers /\ StacksTyped(v) /\ Timed(v)
<1>1. Spends(prog, Fetched, v) BY DelayedSpends, FetchedType
<1> QED BY <1>1 DEF Spends, Affords, Typed, Timed, Placed

(* The handlers that pay.                                                  *)
LEMMA PayingSpends ==
  ASSUME Ready, status' = "running", Select \/ Foreign \/ Await \/ EndLease \/ EndPeriodicEpoch
  PROVE  Spends(prog, tl, tl')
<1>1. CASE Select
  <2> DEFINE paid == Paid(Fetched, Instr.ms)
             Goto(out, to) == Only(Then(out, LAMBDA t : [t EXCEPT !.pc = to]))
             dest == IF Instr.timeout = None THEN tl.pc + 1 ELSE Instr.timeout
  <2>1. Executes("select") /\ Instr.ms \in Int /\ Instr.cases \subseteq Counters
        /\ Instr.timeout \in OrNone(Counters) /\ tl.pc \in Counters
    BY <1>1, InstrIs, SMT DEF Select, WellFormed
  <2>2. dest \in Counters BY <2>1, SMT DEF Counters, OrNone
  <2>3. (\E to \in Instr.cases : \E out \in Written(paid, 1) : Goto(out, to)) \/ Goto(paid, dest)
    BY <1>1 DEF Select
  <2> HIDE DEF dest
  <2>4. ASSUME NEW out, NEW to, Goto(out, to)
        PROVE  out.err = "running" /\ tl' = [out.t EXCEPT !.pc = to]
    BY <2>4 DEF Only, Becomes, Then, Ok
  <2> HIDE DEF Goto
  <2>5. ASSUME paid.err = "running"
        PROVE  Spends(prog, Fetched, paid.t) /\ DOMAIN paid.t = Fields /\ Timed(paid.t)
               /\ paid.t.slice \in Int /\ paid.t.regs \in Registers /\ StacksTyped(paid.t)
    BY <2>1, <2>5, PaidIs
  <2> HIDE DEF paid
  <2>6. ASSUME NEW v, Spends(prog, Fetched, v), DOMAIN v = Fields, v.slice \in Int,
               v.regs \in Registers, StacksTyped(v),
               NEW to \in Counters, tl' = [v EXCEPT !.pc = to]
        PROVE  Spends(prog, tl, tl')
    <3>1. Beside(v, tl') BY <2>6 DEF Beside, Fields, StacksTyped
    <3> QED BY <2>1, <2>6, <3>1, ThenBeside
  <2>7. ASSUME NEW to \in Instr.cases, NEW out \in Written(paid, 1), Goto(out, to)
        PROVE  Spends(prog, tl, tl')
    <3>1. out.err = "running" /\ tl' = [out.t EXCEPT !.pc = to] BY <2>4, <2>7
    <3>2. paid.err = "running" BY <3>1 DEF Written
    <3>3. Delayed(paid.t, out.t) BY <2>5, <3>1, <3>2, WrittenDelays
    <3>4. /\ Spends(prog, Fetched, out.t) /\ DOMAIN out.t = Fields /\ out.t.slice \in Int
          /\ out.t.regs \in Registers /\ StacksTyped(out.t)
      BY <2>1, <2>5, <3>2, <3>3, LateIs
    <3>5. to \in Counters BY <2>1
    <3> QED BY <2>6, <3>1, <3>4, <3>5
  <2>8. ASSUME Goto(paid, dest) PROVE Spends(prog, tl, tl')
    BY <2>2, <2>4, <2>5, <2>6, <2>8
  <2> QED BY <2>3, <2>7, <2>8
<1>5. CASE Foreign
  <2>1. Executes("foreign") /\ Instr.ms \in Int /\ Instr.args \in Nat
    BY <1>5, InstrIs, SMT DEF Foreign, WellFormed
  <2>2. PICK back \in Written(Ok(Fetched), Instr.args) :
          LET took == IF back.err = "running" THEN Paid(back.t, Instr.ms) ELSE back
          IN \E out \in Written(took, 1) : Only(out)
    BY <1>5 DEF Foreign
  <2> DEFINE took == IF back.err = "running" THEN Paid(back.t, Instr.ms) ELSE back
  <2>3. PICK out \in Written(took, 1) : Becomes(out) BY <2>2 DEF Only
  <2>4. ASSUME took.err = "running" PROVE Spends(prog, tl, took.t)
    <3>1. back.err = "running" /\ took = Paid(back.t, Instr.ms) BY <2>4
    <3>2. Spends(prog, Fetched, Fetched) /\ Timed(Fetched) /\ DOMAIN Fetched = Fields
      <4>1. Typed(prog, Fetched) BY <2>1, FetchedType
      <4>2. Beside(Fetched, Fetched) BY <2>1, FetchedType DEF Beside
      <4> QED BY <4>1, <4>2, BesideSpends DEF Typed
    <3>3. Delayed(Fetched, back.t) BY <2>1, <2>2, <3>1, <3>2, WrittenDelays DEF Ok
    <3> HIDE DEF took
    <3>4. Spends(prog, Fetched, back.t) /\ Typed(prog, Fetched)
      BY <2>1, <3>2, <3>3, LateIs, FetchedType
    <3>5. Typed(prog, back.t) BY <3>4 DEF Spends, Affords
    <3>6. Spends(prog, back.t, took.t) BY <2>1, <2>4, <3>1, <3>5, PaidSpends
    <3>7. Spends(prog, Fetched, took.t) BY <3>4, <3>6, SpendsTwice
    <3> QED BY <2>1, <3>7, FromFetched
  <2> HIDE DEF took
  <2> QED BY <2>3, <2>4, WritesSpend
<1>2. CASE Await
  <2> DEFINE p == Head(tl.regs.promise)
             ms == Monus(p.ready, Fetched.clock)
             u == Paid(Fetched, ms).t
             settled == [u EXCEPT !.regs.promise = <<>>]
             Settles(v) == v = settled \/ \E n : v = [settled EXCEPT !.uses = n]
  <2>1. Executes("await") /\ tl.regs.promise # <<>>
    BY <1>2 DEF Await, Only, Becomes, Error
  <2> DEFINE Q(x) == /\ \E out \in Inserted(x) \cup Written(x, 1) : Becomes(out)
                     /\ x.err = "running" => Paid(Fetched, ms).err = "running" /\ Settles(x.t)
  <2>2. \E x : Q(x)
    <3> DEFINE paid == Paid(Fetched, ms)
               S(t) == [t EXCEPT !.regs.promise = <<>>]
               A(t) == [S(t) EXCEPT !.uses = IF @ > 0 THEN @ - 1 ELSE @]
               x1 == Then(paid, S)
               x2 == Then(paid, A)
    <3>1. (\E out \in Inserted(x1) : Becomes(out)) \/ (\E out \in Written(x2, 1) : Becomes(out))
      BY <1>2, <2>1 DEF Await, Only
    <3>2. x1.err = "running" => paid.err = "running" /\ Settles(x1.t) BY DEF Then, Ok
    <3>3. x2.err = "running" => paid.err = "running" /\ Settles(x2.t) BY DEF Then, Ok
    <3> HIDE DEF x1, x2
    <3> QED BY <3>1, <3>2, <3>3
  <2> HIDE DEF Q
  <2>3. p.ready \in Int
    <3> DEFINE P == [ready : Int, deadline : Int]
    <3>1. tl.regs.promise \in Seq(P) BY DEF Ready, Typed, Placed, Registers
    <3> HIDE DEF P
    <3>2. Head(tl.regs.promise) \in P BY <2>1, <3>1, SMT
    <3> QED BY <3>2 DEF P
  <2> HIDE DEF p
  <2>4. ms \in Int BY <2>1, <2>3, FetchedType, MonusType
  <2> HIDE DEF ms, Settles, settled, u
  <2>12. PICK x : Q(x) BY <2>2
  <2> SUFFICES ASSUME x.err = "running" PROVE Spends(prog, tl, x.t)
    <3>1. PICK out \in Inserted(x) \cup Written(x, 1) : Becomes(out) BY <2>12 DEF Q
    <3>2. CASE out \in Inserted(x) BY <3>1, <3>2, InsertedIs DEF Becomes
    <3>3. CASE out \in Written(x, 1) BY <3>1, <3>3, WritesSpend
    <3> QED BY <3>1, <3>2, <3>3
  <2>10. Paid(Fetched, ms).err = "running" /\ Settles(x.t) BY <2>12 DEF Q
  <2>5. /\ Spends(prog, Fetched, u) /\ DOMAIN u = Fields /\ u.slice \in Int
        /\ u.pc \in Counters /\ u.regs \in Registers /\ StacksTyped(u)
    BY <2>1, <2>4, <2>10, PaidIs DEF u
  <2>6. settled.regs = [u.regs EXCEPT !.promise = <<>>] /\ DOMAIN settled = Fields
    BY <2>5 DEF Fields, settled
  <2>7. settled.regs \in Registers BY <2>5, <2>6, RegisterType
  <2>8. Beside(u, settled) BY <2>5, <2>6, <2>7 DEF Beside, Fields, StacksTyped, settled
  <2>9. Beside(u, x.t) BY <2>8, <2>10 DEF Settles, Beside, Fields, StacksTyped
  <2> QED BY <2>1, <2>5, <2>9, ThenBeside
<1>3. CASE EndLease
  <2> DEFINE ms == tl.regs.lease - Fetched.clock
             u == Paid(Fetched, ms).t
             ended == Then(Paid(Fetched, ms), LAMBDA t : [t EXCEPT !.regs.lease = None])
             v == [u EXCEPT !.regs.lease = None]
  <2>1. Executes("endLease") /\ \E out \in Written(ended, 1) : Becomes(out)
    BY <1>3 DEF EndLease, Only, Becomes, Error
  <2>8. ended.err = "running" => Paid(Fetched, ms).err = "running" /\ ended.t = v
    BY DEF Then, Ok
  <2> HIDE DEF ended
  <2> SUFFICES ASSUME Paid(Fetched, ms).err = "running" PROVE Spends(prog, tl, v)
    BY <2>1, <2>8, WritesSpend
  <2>2. tl.regs.lease \in Int BY DEF Ready, Typed, Placed, Registers
  <2>3. ms \in Int /\ None \in Int BY <2>1, <2>2, FetchedType, SMT DEF None
  <2> HIDE DEF ms, u
  <2>4. /\ Spends(prog, Fetched, u) /\ DOMAIN u = Fields /\ u.slice \in Int
        /\ u.pc \in Counters /\ u.regs \in Registers /\ StacksTyped(u)
    BY <2>1, <2>3, PaidIs DEF u
  <2>5. v.regs = [u.regs EXCEPT !.lease = None] /\ DOMAIN v = Fields BY <2>4 DEF Fields
  <2>6. v.regs \in Registers BY <2>3, <2>4, <2>5, RegisterType
  <2>7. Beside(u, v) BY <2>4, <2>5, <2>6 DEF Beside, Fields, StacksTyped
  <2> HIDE DEF v
  <2> QED BY <2>1, <2>4, <2>7, ThenBeside
<1>4. CASE EndPeriodicEpoch
  <2> DEFINE ms == Monus(Instr.ms, Fetched.clock)
  <2>1. Executes("endEpoch") /\ Paid(Fetched, ms).err = "running" /\ tl' = Paid(Fetched, ms).t
    BY <1>4 DEF EndPeriodicEpoch, Only, Becomes
  <2>2. Instr.ms \in Int BY <2>1, InstrIs, SMT DEF WellFormed
  <2>3. ms \in Int BY <2>1, <2>2, FetchedType, MonusType
  <2> HIDE DEF ms
  <2>4. Spends(prog, Fetched, tl') BY <2>1, <2>3, PaidIs
  <2> QED BY <2>1, <2>4, FromFetched
<1> QED BY <1>1, <1>2, <1>3, <1>4, <1>5

(* Speculate and commit do nothing but their cost to the timeline.         *)
LEMMA FetchedSpends ==
  ASSUME Ready, status' = "running", Speculate \/ Commit
  PROVE  Spends(prog, tl, tl')
BY Fetch DEF Speculate, Commit, Becomes, Ok

(* A call frames the caller and starts the routine with nothing entered.   *)
LEMMA CallStep ==
  ASSUME Ready, status' = "running", Call
  PROVE  Spends(prog, tl, tl')
<1>1. /\ Executes("call") /\ Instr.routine \in DOMAIN prog
      /\ Spends(prog, tl, Fetched) /\ Typed(prog, Fetched) /\ DOMAIN Fetched = Fields
  BY Fetch, FetchedType, InstrIs DEF Call, WellFormed
<1> DEFINE f == Frame(Fetched)
<1>2. tl' = [Fetched EXCEPT !.calls = Append(@, f), !.code = Instr.routine,
               !.pc = 1, !.depth = 0, !.loops = <<>>, !.flat = <<>>,
               !.regs = Empty, !.entered = <<>>]
  BY DEF Call, Only, Becomes, Inserted, Ok, Error
<1>3. /\ f.code = Fetched.code /\ f.pc = Fetched.pc /\ f.regs = Fetched.regs
      /\ f.loops = Fetched.loops /\ f.flat = Fetched.flat /\ f.entered = Fetched.entered
  BY DEF Frame
<1> HIDE DEF f
<1>4. Placed(prog, f) /\ StacksTyped(f) BY <1>1, <1>3 DEF Typed, Placed, StacksTyped
<1>5. /\ DOMAIN tl' = Fields /\ (tl').calls = Append(Fetched.calls, f)
      /\ (tl').code = Instr.routine /\ (tl').pc = 1 /\ (tl').loops = <<>> /\ (tl').flat = <<>>
      /\ (tl').regs = Empty /\ (tl').entered = <<>> /\ (tl').anchors = Fetched.anchors
      /\ (tl').clock = Fetched.clock /\ (tl').budget = Fetched.budget
      /\ (tl').slice = Fetched.slice /\ (tl').policies = Fetched.policies
      /\ (tl').unpaid = Fetched.unpaid
  BY <1>1, <1>2 DEF Fields
<1>6. Empty \in Registers
  <2>1. None \in Int BY SMT DEF None
  <2>2. <<>> \in Seq([ready : Int, deadline : Int])
    OBVIOUS
  <2> QED BY <2>1, <2>2 DEF Empty, Registers
<1>7. 1 \in Counters BY SMT DEF Counters
<1>8. Placed(prog, tl') /\ Timed(tl') /\ Horizon(tl') = Horizon(Fetched)
  BY <1>1, <1>5, <1>6, <1>7 DEF Placed, Timed, Typed, Horizon
<1>9. StacksTyped(tl') BY <1>5 DEF StacksTyped
<1>10. Spends(prog, Fetched, tl') BY <1>1, <1>3, <1>4, <1>5, <1>8, <1>9, CallSpends
<1> QED BY <1>1, <1>10, FromFetched

(* A return takes the frame back; the clock and the budget stay.           *)
LEMMA ReturnStep ==
  ASSUME Ready, status' = "running", Return
  PROVE  Spends(prog, tl, tl')
<1>1. /\ Executes("return") /\ Typed(prog, Fetched) /\ DOMAIN Fetched = Fields
      /\ Fetched.calls = tl.calls
  BY Fetch, FetchedType DEF Return
<1>2. CASE tl.calls = <<>>
  <2>1. tl' = [Fetched EXCEPT !.pc = Len(Code(tl)) + 1]
    BY <1>2 DEF Return, Becomes, Inserted, Ok, Error
  <2>2. Len(Code(tl)) + 1 \in Counters
    <3>1. Len(Code(tl)) \in Nat BY <1>1, InstrIs, SMT DEF IsSeq
    <3> QED BY <3>1, SMT DEF Counters
  <2>3. Beside(Fetched, tl')
    BY <1>1, <2>1, <2>2, FetchedType DEF Beside, Fields, StacksTyped
  <2> QED BY <1>1, <2>3, FetchedBeside
<1>3. CASE tl.calls # <<>>
  <2> DEFINE f == Last(tl.calls)
  <2>1. tl' = Returned(Fetched, f) BY <1>3 DEF Return, Becomes, Inserted, Ok, Error
  <2>2. /\ (tl').policies = Fetched.policies /\ (tl').unpaid = Fetched.unpaid
        /\ DOMAIN tl' = Fields /\ (tl').calls = Front(Fetched.calls)
        /\ (tl').code = f.code /\ (tl').pc = f.pc /\ (tl').loops = f.loops
        /\ (tl').flat = f.flat /\ (tl').regs = f.regs /\ (tl').entered = f.entered
        /\ (tl').anchors = Fetched.anchors /\ (tl').clock = Fetched.clock
        /\ (tl').budget = Fetched.budget /\ (tl').slice = Fetched.slice
    BY <1>1, <2>1 DEF Returned, Fields
  <2>3. Timed(tl') /\ Horizon(tl') = Horizon(Fetched)
    BY <1>1, <2>2 DEF Timed, Typed, Horizon
  <2>4. f = Last(Fetched.calls) /\ Fetched.calls # <<>> BY <1>1, <1>3
  <2> HIDE DEF f
  <2>5. Spends(prog, Fetched, tl') BY <1>1, <2>2, <2>3, <2>4, ReturnSpends
  <2> QED BY <1>1, <2>5, FromFetched
<1> QED BY <1>2, <1>3

(* An anchor keeps the bounds of the moment it is set.                     *)
LEMMA AnchorStep ==
  ASSUME Ready, status' = "running", Anchor
  PROVE  Spends(prog, tl, tl')
<1>1. Executes("anchor") /\ Typed(prog, Fetched) BY FetchedType DEF Anchor
<1> DEFINE point == [clock |-> Fetched.clock, regs |-> Fetched.regs, budget |-> Fetched.budget,
                     uses |-> Fetched.uses, pc |-> Fetched.pc, code |-> Fetched.code,
                     unpaid |-> Fetched.unpaid, entered |-> Fetched.entered, calls |-> Fetched.calls,
                     stacks |-> Stacks(Fetched)]
<1>2. tl' = [Fetched EXCEPT !.anchors = Bind(@, Instr.name, point)]
  BY DEF Anchor, Only, Becomes, Ok
<1>3. /\ point.clock = Fetched.clock /\ point.budget = Fetched.budget
      /\ point.code = Fetched.code /\ point.pc = Fetched.pc /\ point.regs = Fetched.regs
      /\ point.entered = Fetched.entered /\ point.calls = Fetched.calls
      /\ point.unpaid = Fetched.unpaid
  OBVIOUS
<1> HIDE DEF point
<1>4. Spends(prog, Fetched, tl') BY <1>1, <1>2, <1>3, AnchorSpends
<1> QED BY <1>1, <1>4, FromFetched
-----------------------------------------------------------------------------
(* The handlers that enter a block                                         *)

(* Entering the block that begins here.                                    *)
LEMMA EnterHere ==
  ASSUME Ready, NEW op, Executes(op), NEW s, Spends(prog, Fetched, s), NEW ms \in Int,
         op = "isolate" => Horizon(s) <= s.clock + ms - s.unpaid
  PROVE  Spends(prog, Fetched, Enter(s, ms)) /\ Spends(prog, tl, Enter(s, ms))
<1> DEFINE b == <<tl.code, tl.pc>>
<1>1. prog[b[1]][b[2]].op = op BY InstrIs DEF Instr, Code
<1>2. Enter(s, ms) = [s EXCEPT !.entered =
                        Bind(@, b, [clock |-> s.clock, ms |-> ms, unpaid |-> s.unpaid])]
  BY DEF Enter
<1> HIDE DEF b
<1>3. Typed(prog, s) /\ Typed(prog, Fetched) BY FetchedType DEF Spends, Affords
<1>4. Spends(prog, s, Enter(s, ms)) BY <1>1, <1>2, <1>3, EnterSpends
<1>5. Spends(prog, Fetched, Enter(s, ms)) BY <1>3, <1>4, SpendsTwice
<1> QED BY <1>5, FromFetched

(* Pushing a loop: it starts now, with the limit of its instruction or the *)
(* slice of the timeline.                                                  *)
LEMMA LoopStep ==
  ASSUME Ready, status' = "running", Loop
  PROVE  Spends(prog, tl, tl')
<1> DEFINE Pushed(ms) == [Fetched EXCEPT !.depth = @ + 1,
                            !.loops = Append(@, [start |-> Fetched.clock, limit |-> ms])]
<1>1. ASSUME NEW op, Executes(op), NEW ms \in Int, op # "isolate"
      PROVE  Spends(prog, tl, Enter(Pushed(ms), ms))
  <2>1. /\ DOMAIN Pushed(ms) = Fields
        /\ Pushed(ms).loops = Append(Fetched.loops, [start |-> Fetched.clock, limit |-> ms])
        /\ Pushed(ms).flat = Fetched.flat
    BY <1>1, FetchedType DEF Fields
  <2>2. [start |-> Fetched.clock, limit |-> ms] \in Loops BY <1>1, FetchedType DEF Loops
  <2>3. Fetched.loops \in Seq(Loops) /\ Fetched.flat \in Seq(Iterations)
    BY <1>1, FetchedType DEF StacksTyped
  <2>4. Append(Fetched.loops, [start |-> Fetched.clock, limit |-> ms]) \in Seq(Loops)
    BY <2>2, <2>3
  <2>5. Beside(Fetched, Pushed(ms))
    BY <1>1, <2>1, <2>3, <2>4, FetchedType DEF Beside, Fields, StacksTyped
  <2> HIDE DEF Pushed
  <2>6. Spends(prog, Fetched, Pushed(ms)) BY <1>1, <2>5, BesideSpends, FetchedType
  <2> QED BY <1>1, <2>6, EnterHere
<1>2. ASSUME NEW op \in {"loop", "while"}, Executes(op) PROVE Instr.ms \in Int /\ op # "isolate"
  BY <1>2, InstrIs, SMT DEF WellFormed
<1>3. tl.slice \in Int BY DEF Ready, Typed, Timed
<1>4. \/ \E op \in {"loop", "while"} : Executes(op) /\ tl' = Enter(Pushed(Instr.ms), Instr.ms)
      \/ Executes("tick") /\ tl' = Enter(Pushed(tl.slice), tl.slice)
  BY DEF Loop, Only, Becomes, Ok, Error
<1> HIDE DEF Pushed
<1> QED BY <1>1, <1>2, <1>3, <1>4

(* A lease takes no time until it ends.                                    *)
LEMMA LeaseStep ==
  ASSUME Ready, status' = "running", Lease
  PROVE  Spends(prog, tl, tl')
<1> DEFINE u == [Fetched EXCEPT !.regs.lease = Fetched.clock + Instr.ms]
<1>1. Executes("lease") /\ \E out \in Written(Ok(Enter(u, Instr.ms)), 2) : Becomes(out)
  BY DEF Lease, Only, Becomes, Error
<1>2. Instr.ms \in Int /\ Fetched.clock \in Int
  BY <1>1, InstrIs, FetchedType, SMT DEF WellFormed
<1>3. Fetched.clock + Instr.ms \in Int BY <1>2, SMT
<1>4. u.regs = [Fetched.regs EXCEPT !.lease = Fetched.clock + Instr.ms] /\ DOMAIN u = Fields
  BY <1>1, FetchedType DEF Fields
<1>5. u.regs \in Registers BY <1>1, <1>3, <1>4, FetchedType, RegisterType
<1>6. Beside(Fetched, u)
  BY <1>1, <1>4, <1>5, FetchedType DEF Beside, Fields, StacksTyped
<1> HIDE DEF u
<1>7. Spends(prog, Fetched, u) BY <1>1, <1>6, BesideSpends, FetchedType
<1>8. Spends(prog, tl, Ok(Enter(u, Instr.ms)).t) BY <1>1, <1>2, <1>7, EnterHere DEF Ok
<1> QED BY <1>1, <1>8, WritesSpend

(* An isolate can only lower the budget, and is given all that is left.    *)
LEMMA IsolateStep ==
  ASSUME Ready, status' = "running", Isolate
  PROVE  Spends(prog, tl, tl')
<1> DEFINE t == [Fetched EXCEPT !.manifests = @ + 1,
                   !.uses = IF Instr.uses = None THEN @ ELSE Instr.uses]
           u == [t EXCEPT !.budget = IF Instr.cpu = None THEN @ ELSE Instr.cpu,
                          !.slice = IF Instr.slice = None THEN @ ELSE Instr.slice]
<1>1. /\ Executes("isolate") /\ ~(Instr.cpu # None /\ Instr.cpu > t.budget)
      /\ tl' = Enter(u, u.budget)
  BY DEF Isolate, Only, Becomes, Ok, Error
<1>2. /\ DOMAIN t = Fields /\ t.clock = Fetched.clock /\ t.budget = Fetched.budget
      /\ t.slice = Fetched.slice /\ t.code = Fetched.code /\ t.pc = Fetched.pc
      /\ t.regs = Fetched.regs /\ t.loops = Fetched.loops /\ t.flat = Fetched.flat
      /\ t.calls = Fetched.calls /\ t.anchors = Fetched.anchors /\ t.entered = Fetched.entered
      /\ t.policies = Fetched.policies /\ t.unpaid = Fetched.unpaid
  BY <1>1, FetchedType DEF Fields
<1> HIDE DEF t
<1>3. /\ DOMAIN u = Fields /\ u.clock = Fetched.clock
      /\ u.budget = (IF Instr.cpu = None THEN Fetched.budget ELSE Instr.cpu)
      /\ u.slice = (IF Instr.slice = None THEN Fetched.slice ELSE Instr.slice)
      /\ u.code = Fetched.code /\ u.pc = Fetched.pc
      /\ u.regs = Fetched.regs /\ u.loops = Fetched.loops /\ u.flat = Fetched.flat
      /\ u.calls = Fetched.calls /\ u.anchors = Fetched.anchors /\ u.entered = Fetched.entered
      /\ u.policies = Fetched.policies /\ u.unpaid = Fetched.unpaid
  BY <1>2 DEF Fields
<1> HIDE DEF u
<1>4. /\ Instr.cpu \in OrNone(Nat) /\ Fetched.clock \in Int /\ Fetched.budget \in Nat
      /\ Fetched.unpaid \in Nat /\ Instr.slice \in OrNone(Nat) /\ Fetched.slice \in Int
  BY <1>1, InstrIs, FetchedType DEF WellFormed, Typed, Timed
<1>5. /\ u.budget \in Nat /\ u.budget \in Int /\ Horizon(u) <= Horizon(Fetched)
      /\ Horizon(u) <= u.clock + u.budget - u.unpaid /\ u.slice \in Int
  BY <1>1, <1>2, <1>3, <1>4, SMT DEF Horizon, OrNone, None
<1>6. Alike(prog, Fetched, u)
  BY <1>1, <1>3, <1>4, <1>5, FetchedType DEF Alike, Timed, Typed, Placed, StacksTyped
<1>7. Spends(prog, Fetched, u) BY <1>1, <1>6, AlikeSpends, FetchedType
<1> QED BY <1>1, <1>5, <1>7, EnterHere
-----------------------------------------------------------------------------
(* The handlers that leave a block                                         *)

(* One level up, and nothing else.                                         *)
LEMMA ShallowerSpends ==
  ASSUME NEW p, NEW s, Typed(p, s)
  PROVE  Spends(p, s, Shallower(s)) /\ Beside(s, Shallower(s))
<1>1. Beside(s, Shallower(s))
  BY DEF Shallower, Beside, Typed, Timed, Placed, Fields, StacksTyped
<1> QED BY <1>1, BesideSpends

(* A loop without its last entry.                                          *)
LEMMA PoppedSpends ==
  ASSUME NEW p, NEW s, Typed(p, s), NEW u,
         \/ s.loops # <<>> /\ u = [s EXCEPT !.loops = Front(@)]
         \/ s.flat # <<>> /\ u = [s EXCEPT !.flat = Front(@)]
  PROVE  Spends(p, s, u)
<1>1. s.loops \in Seq(Loops) /\ s.flat \in Seq(Iterations) /\ DOMAIN s = Fields
  BY DEF Typed, StacksTyped
<1>2. /\ s.loops # <<>> => Front(s.loops) \in Seq(Loops)
      /\ s.flat # <<>> => Front(s.flat) \in Seq(Iterations)
  BY <1>1, FrontType
<1>3. u.loops \in Seq(Loops) /\ u.flat \in Seq(Iterations) BY <1>1, <1>2 DEF Fields
<1>4. Beside(s, u) BY <1>1, <1>3 DEF Beside, Typed, Timed, Placed, Fields, StacksTyped
<1> QED BY <1>4, BesideSpends

(* What pays first and goes a level up then.                               *)
LEMMA PaidShallower ==
  ASSUME NEW p, NEW s, Typed(p, s), NEW ms \in Int,
         Then(Paid(s, ms), Shallower).err = "running"
  PROVE  Spends(p, s, Then(Paid(s, ms), Shallower).t)
<1> DEFINE u == Paid(s, ms).t
<1>1. Paid(s, ms).err = "running" /\ Then(Paid(s, ms), Shallower).t = Shallower(u)
  BY DEF Then, Ok
<1>2. Spends(p, s, u) BY <1>1, PaidSpends
<1> HIDE DEF u
<1>3. Spends(p, u, Shallower(u)) BY <1>2, ShallowerSpends DEF Spends, Affords
<1> QED BY <1>1, <1>2, <1>3, SpendsTwice

(* EndLoop, EndWhile and EndLoopTick pay for what is left of the limit.    *)
LEMMA LoopLeftSpends ==
  ASSUME NEW p, NEW s, Typed(p, s), NEW kind, NEW o \in LoopLeft(s, kind), o.err = "running"
  PROVE  Spends(p, s, o.t)
<1> DEFINE u == [s EXCEPT !.loops = Front(@)]
           limit == Last(s.loops).limit
           elapsed == s.clock - Last(s.loops).start
<1>1. s.loops # <<>>
  <2> SUFFICES ASSUME s.loops = <<>> PROVE FALSE
    OBVIOUS
  <2>1. LoopLeft(s, kind) = {Error(s, "EvalError")} BY DEF LoopLeft
  <2>2. o.err = "EvalError" BY <2>1 DEF Error
  <2> QED BY <2>2
<1>2. o = Ok(Shallower(u)) \/ o = Then(Paid(u, limit - elapsed), Shallower)
  <2>1. /\ Error(u, "panic").err # "running" /\ Error(u, "WatchdogBite").err # "running"
    BY DEF Error
  <2>2. \/ elapsed < 0 /\ o \in {Error(u, "panic"),
             IF kind = "endTick" THEN Error(u, "WatchdogBite") ELSE Ok(Shallower(u))}
        \/ o \in {Then(Paid(u, limit - elapsed), Shallower)}
        \/ o \in {Error(u, "WatchdogBite")}
        \/ o \in {Ok(Shallower(u))}
    <3> DEFINE A == {Error(u, "panic"),
                     IF kind = "endTick" THEN Error(u, "WatchdogBite") ELSE Ok(Shallower(u))}
               B == {Then(Paid(u, limit - elapsed), Shallower)}
               C == {Error(u, "WatchdogBite")}
               D == {Ok(Shallower(u))}
    <3>1. LoopLeft(s, kind) =
            CASE elapsed < 0 -> A
              [] elapsed >= 0 /\ elapsed < limit /\ limit # Unbounded -> B
              [] elapsed > limit /\ kind = "endTick" -> C
              [] OTHER -> D
      BY <1>1 DEF LoopLeft
    <3> HIDE DEF A, B, C, D, u, limit, elapsed
    <3>2. LoopLeft(s, kind) = A \/ LoopLeft(s, kind) = B \/ LoopLeft(s, kind) = C \/ LoopLeft(s, kind) = D
      BY <3>1
    <3>3. (elapsed < 0 /\ o \in A) \/ o \in B \/ o \in C \/ o \in D BY <3>1, <3>2
    <3> QED BY <3>3 DEF A, B, C, D
  <2> HIDE DEF u, limit, elapsed
  <2> QED BY <2>1, <2>2
<1>3. s.loops \in Seq(Loops) /\ s.clock \in Int BY DEF Typed, Timed, StacksTyped
<1>4. Last(s.loops) \in Loops BY <1>1, <1>3, FrontType
<1>5. limit - elapsed \in Int BY <1>3, <1>4, SMT DEF Loops
<1> HIDE DEF limit, elapsed
<1>6. Spends(p, s, u) BY <1>1, PoppedSpends
<1> HIDE DEF u
<1>7. Typed(p, u) BY <1>6 DEF Spends, Affords
<1>8. CASE o = Ok(Shallower(u)) BY <1>6, <1>7, <1>8, ShallowerSpends, SpendsTwice DEF Ok
<1>9. CASE o = Then(Paid(u, limit - elapsed), Shallower)
  BY <1>5, <1>6, <1>7, <1>9, PaidShallower, SpendsTwice
<1> QED BY <1>2, <1>8, <1>9

(* The end of a loop.                                                      *)
LEMMA EndLoopStep ==
  ASSUME Ready, status' = "running", EndLoop
  PROVE  Spends(prog, tl, tl')
<1>1. PICK op \in {"endLoop", "endWhile", "endTick"} :
        Executes(op) /\ \E out \in LoopLeft(Fetched, op) : Only(out)
  BY DEF EndLoop
<1>2. PICK out \in LoopLeft(Fetched, op) : tl' = out.t /\ out.err = "running"
  BY <1>1 DEF Only, Becomes
<1>3. Spends(prog, Fetched, out.t) BY <1>1, <1>2, LoopLeftSpends, FetchedType
<1> QED BY <1>1, <1>2, <1>3, FromFetched
-----------------------------------------------------------------------------
(* for and its end                                                         *)

(* Writing to the last entry keeps the type of the stack.                  *)
LEMMA IterationType ==
  ASSUME NEW s \in Seq(Iterations), s # <<>>, NEW v \in Int
  PROVE  /\ [s EXCEPT ![Len(s)].iter = v] \in Seq(Iterations)
         /\ [s EXCEPT ![Len(s)].left = v] \in Seq(Iterations)
         /\ Last(s).left \in Int /\ Last(s).start \in Int /\ Last(s).iter \in Int
         /\ Last(s).pace \in Int /\ s[Len(s)] = Last(s)
<1>1. Last(s) \in Iterations /\ Len(s) \in DOMAIN s /\ Last(s) = s[Len(s)] BY FrontType
<1>2. /\ [s[Len(s)] EXCEPT !.iter = v] \in Iterations
      /\ [s[Len(s)] EXCEPT !.left = v] \in Iterations
  BY <1>1 DEF Iterations
<1>3. \A e \in Iterations : [s EXCEPT ![Len(s)] = e] \in Seq(Iterations)
  <2> DEFINE S == Iterations
  <2>1. s \in Seq(S)
    OBVIOUS
  <2> HIDE DEF S
  <2>2. \A e \in S : [s EXCEPT ![Len(s)] = e] \in Seq(S) BY <2>1, SMT
  <2> QED BY <2>2 DEF S
<1>4. /\ [s EXCEPT ![Len(s)].iter = v] = [s EXCEPT ![Len(s)] = [s[Len(s)] EXCEPT !.iter = v]]
      /\ [s EXCEPT ![Len(s)].left = v] = [s EXCEPT ![Len(s)] = [s[Len(s)] EXCEPT !.left = v]]
  OBVIOUS
<1>5. /\ Last(s).left \in Int /\ Last(s).start \in Int /\ Last(s).iter \in Int
      /\ Last(s).pace \in Int
  BY <1>1 DEF Iterations
<1> QED BY <1>1, <1>2, <1>3, <1>4, <1>5

(* The loop on top is this one, or a new one.                              *)
LEMMA IteratingIs ==
  ASSUME Ready, Executes("for"), NEW n \in Int
  PROVE  /\ Spends(prog, Fetched, Iterating(n)) /\ Typed(prog, Iterating(n))
         /\ Iterating(n).flat # <<>>
<1>1. Typed(prog, Fetched) BY FetchedType
<1>2. CASE OnTop(Fetched)
  <2>1. Iterating(n) = Fetched /\ Fetched.flat # <<>> BY <1>2 DEF Iterating, OnTop
  <2>2. Beside(Fetched, Fetched) BY FetchedType DEF Beside
  <2> QED BY <1>1, <2>1, <2>2, BesideSpends
<1>3. CASE ~OnTop(Fetched)
  <2> DEFINE e == [head |-> tl.pc, left |-> n, start |-> Fetched.clock, iter |-> Fetched.clock,
                   pace |-> Instr.pace, max |-> Instr.max]
             t == [Fetched EXCEPT !.depth = @ + 1, !.flat = Append(@, e)]
  <2>1. Iterating(n) = t BY <1>3 DEF Iterating
  <2>9. Instr.pace \in OrNone(Nat) /\ Instr.max \in OrNone(Nat)
    BY InstrIs DEF WellFormed
  <2>2. tl.pc \in Int /\ Instr.pace \in Int /\ Instr.max \in Int
    BY <2>9, InstrIs, SMT DEF Counters, OrNone, None
  <2>3. e \in Iterations BY <2>2, FetchedType DEF Iterations
  <2> HIDE DEF e
  <2>4. Fetched.flat \in Seq(Iterations) /\ Fetched.loops \in Seq(Loops)
    BY FetchedType DEF StacksTyped
  <2>5. Append(Fetched.flat, e) \in Seq(Iterations) /\ Append(Fetched.flat, e) # <<>>
    <3> DEFINE S == Iterations
    <3>1. Fetched.flat \in Seq(S) /\ e \in S BY <2>3, <2>4
    <3> HIDE DEF S
    <3>2. Append(Fetched.flat, e) \in Seq(S) /\ Append(Fetched.flat, e) # <<>>
      BY <3>1, SMT
    <3> QED BY <3>2 DEF S
  <2>6. t.flat = Append(Fetched.flat, e) /\ t.loops = Fetched.loops /\ DOMAIN t = Fields
    BY FetchedType DEF Fields
  <2>7. Beside(Fetched, t)
    BY <2>4, <2>5, <2>6, FetchedType DEF Beside, Fields, StacksTyped
  <2> HIDE DEF t
  <2>8. Spends(prog, Fetched, t) BY <1>1, <2>7, BesideSpends
  <2> QED BY <2>1, <2>5, <2>6, <2>8 DEF Spends, Affords
<1> QED BY <1>2, <1>3

(* The next element: a new iteration begins.                               *)
LEMMA IterationSpends ==
  ASSUME Ready, Executes("for"), NEW t, Spends(prog, Fetched, t), t.flat # <<>>
  PROVE  Spends(prog, tl, Iteration(t))
<1> DEFINE ms == IF Instr.pace = None THEN 0 ELSE Instr.pace
           u == [t EXCEPT !.flat[Len(t.flat)].iter = t.clock, !.regs.more = TRUE]
<1>1. Iteration(t) = Enter(u, ms) BY DEF Iteration
<1>2. Instr.pace \in OrNone(Nat) BY InstrIs DEF WellFormed
<1>3. ms \in Int BY <1>2, SMT DEF OrNone
<1> HIDE DEF ms
<1>4. Typed(prog, t) BY DEF Spends, Affords
<1>5. /\ DOMAIN t = Fields /\ t.clock \in Int /\ t.slice \in Int /\ t.pc \in Counters
      /\ t.regs \in Registers /\ t.flat \in Seq(Iterations) /\ t.loops \in Seq(Loops)
  BY <1>4 DEF Typed, Timed, Placed, StacksTyped
<1>6. /\ DOMAIN u = Fields /\ u.flat = [t.flat EXCEPT ![Len(t.flat)].iter = t.clock]
      /\ u.regs = [t.regs EXCEPT !.more = TRUE] /\ u.loops = t.loops /\ u.clock = t.clock
      /\ u.budget = t.budget /\ u.code = t.code /\ u.calls = t.calls /\ u.anchors = t.anchors
      /\ u.entered = t.entered /\ u.slice = t.slice /\ u.pc = t.pc
      /\ u.policies = t.policies /\ u.unpaid = t.unpaid
  BY <1>5 DEF Fields
<1> HIDE DEF u
<1>7. u.flat \in Seq(Iterations) BY <1>5, <1>6, IterationType
<1>8. u.regs \in Registers BY <1>5, <1>6, RegisterType
<1>9. Beside(t, u) BY <1>5, <1>6, <1>7, <1>8 DEF Beside, StacksTyped
<1>10. Spends(prog, Fetched, u) BY <1>4, <1>9, BesideSpends, SpendsTwice, FetchedType
<1> QED BY <1>1, <1>3, <1>10, EnterHere

(* The item is written before the iteration begins.                        *)
LEMMA ForNextSpends ==
  ASSUME Ready, status' = "running", Executes("for"), NEW t, Spends(prog, Fetched, t),
         t.flat # <<>>, NEW out \in ForNext(t), Becomes(out)
  PROVE  Spends(prog, tl, tl')
<1>1. PICK item \in Written(Ok(t), 1) : out \in Written(Then(item, Iteration), 1)
  BY DEF ForNext
<1>2. Typed(prog, t) /\ DOMAIN t = Fields /\ Timed(t) BY DEF Spends, Affords, Typed
<1>3. ASSUME Then(item, Iteration).err = "running"
      PROVE  Spends(prog, tl, Then(item, Iteration).t)
  <2>1. item.err = "running" /\ Then(item, Iteration).t = Iteration(item.t)
    BY <1>3 DEF Then, Ok
  <2>2. Delayed(t, item.t) BY <1>1, <1>2, <2>1, WrittenDelays DEF Ok
  <2>3. Spends(prog, Fetched, item.t) BY <2>2, LateIs
  <2>4. item.t.flat # <<>> BY <2>2 DEF Delayed, Fields
  <2> QED BY <2>1, <2>3, <2>4, IterationSpends
<1> QED BY <1>1, <1>3, WritesSpend

(* The item is written, the iteration begins, the condition is written.    *)
LEMMA ForNextIs ==
  ASSUME NEW t, DOMAIN t = Fields, NEW out \in ForNext(t), out.err = "running"
  PROVE  \E item \in Written(Ok(t), 1) :
           /\ item.err = "running" /\ out \in Written(Ok(Iteration(item.t)), 1)
           /\ DOMAIN item.t = Fields
           /\ \A f \in Fields \ {"clock", "unpaid"} : item.t[f] = t[f]
<1>1. PICK item \in Written(Ok(t), 1) : out \in Written(Then(item, Iteration), 1)
  BY DEF ForNext
<1>2. Then(item, Iteration).err = "running" BY <1>1 DEF Written
<1>3. item.err = "running" /\ Then(item, Iteration) = Ok(Iteration(item.t))
  BY <1>2 DEF Then
<1>4. Ok(t).t = t /\ Ok(t).err = "running" BY DEF Ok
<1>5. DOMAIN item.t = Fields /\ \A f \in Fields \ {"clock", "unpaid"} : item.t[f] = t[f]
  BY <1>1, <1>4, WrittenFields
<1> QED BY <1>1, <1>3, <1>5

(* No element left, or no time: what is left of the limit is paid for.     *)
LEMMA ForLeftSpends ==
  ASSUME Ready, Executes("for"), NEW t, Spends(prog, Fetched, t), t.flat # <<>>,
         ForLeft(t).err = "running"
  PROVE  Spends(prog, tl, ForLeft(t).t)
<1> DEFINE s == Shallower(t)
           u == [s EXCEPT !.flat = Front(@)]
           elapsed == t.clock - Last(t.flat).start
           ms == IF Instr.max = None \/ elapsed < 0 THEN 0 ELSE Monus(Instr.max, elapsed)
           v == Paid(u, ms).t
           w == [v EXCEPT !.regs.more = FALSE]
<1>1. Paid(u, ms).err = "running" /\ ForLeft(t).t = w BY DEF ForLeft, Then, Ok
<1>2. Typed(prog, t) /\ Typed(prog, Fetched) BY FetchedType DEF Spends, Affords
<1>3. t.flat \in Seq(Iterations) /\ t.clock \in Int
  BY <1>2 DEF Typed, Timed, StacksTyped
<1>4. Instr.max \in OrNone(Nat) BY InstrIs DEF WellFormed
<1>5. ms \in Int
  <2>1. Last(t.flat).start \in Int BY <1>3, IterationType
  <2>2. elapsed \in Int BY <1>3, <2>1, SMT
  <2> HIDE DEF elapsed
  <2>3. CASE Instr.max = None \/ elapsed < 0 BY <2>3, SMT
  <2>4. CASE ~(Instr.max = None \/ elapsed < 0)
    <3>1. Instr.max \in Int BY <1>4, <2>4, SMT DEF OrNone
    <3> QED BY <2>2, <2>4, <3>1, MonusType
  <2> QED BY <2>3, <2>4
<1> HIDE DEF ms
<1>6. s.flat = t.flat BY <1>2 DEF Shallower, Typed, Fields
<1>7. Spends(prog, t, s) BY <1>2, ShallowerSpends
<1> HIDE DEF s
<1>8. Spends(prog, s, u) BY <1>6, <1>7, PoppedSpends DEF Spends, Affords
<1> HIDE DEF u
<1>9. Spends(prog, u, v) BY <1>1, <1>5, <1>8, PaidSpends DEF Spends, Affords
<1> HIDE DEF v
<1>10. Typed(prog, v) BY <1>9 DEF Spends, Affords
<1>11. w.regs = [v.regs EXCEPT !.more = FALSE] /\ DOMAIN w = Fields /\ v.regs \in Registers
  BY <1>10 DEF Fields, Typed, Placed
<1>12. w.regs \in Registers BY <1>11, RegisterType
<1>13. Beside(v, w)
  BY <1>10, <1>11, <1>12 DEF Beside, Typed, Timed, Placed, Fields, StacksTyped
<1> HIDE DEF w
<1>14. Spends(prog, v, w) BY <1>10, <1>13, BesideSpends
<1>15. Spends(prog, Fetched, u) BY <1>2, <1>7, <1>8, SpendsTwice
<1>16. Spends(prog, Fetched, w) BY <1>2, <1>9, <1>14, <1>15, SpendsTwice
<1> QED BY <1>1, <1>16, FromFetched

(* One turn of a for loop.                                                 *)
LEMMA ForStep ==
  ASSUME Ready, status' = "running", For
  PROVE  Spends(prog, tl, tl')
<1>1. PICK n \in IF OnTop(Fetched) THEN {0} ELSE Elements :
        \E out \in ForNext(Iterating(n)) \cup Written(ForLeft(Iterating(n)), 2) : Becomes(out)
  BY DEF For, Only, Becomes, Error
<1>2. Executes("for") BY DEF For
<1>3. n \in Int
  <2>1. n = 0 \/ n \in Elements BY <1>1
  <2> QED BY <2>1, ControlAssumption, SMT
<1> DEFINE t == Iterating(n)
<1>4. Spends(prog, Fetched, t) /\ t.flat # <<>> BY <1>2, <1>3, IteratingIs
<1> HIDE DEF t
<1>5. PICK out \in ForNext(t) \cup Written(ForLeft(t), 2) : Becomes(out) BY <1>1 DEF t
<1>6. CASE out \in ForNext(t) BY <1>2, <1>4, <1>5, <1>6, ForNextSpends
<1>7. CASE out \in Written(ForLeft(t), 2)
  BY <1>2, <1>4, <1>5, <1>7, ForLeftSpends, WritesSpend
<1> QED BY <1>5, <1>6, <1>7

(* What the end of an iteration leaves, if it is in time.                  *)
LEMMA PacedIs ==
  ASSUME NEW t, NEW out \in Paced(t), out.err = "running",
         t.clock - Last(t.flat).iter \in Int
  PROVE  LET pace == Last(t.flat).pace
             cost == t.clock - Last(t.flat).iter
             next(u) == [u EXCEPT !.flat[Len(u.flat)].left = Monus(@, 1)]
         IN \/ out = Ok(next(t)) /\ pace = None
            \/ out = Then(Paid(t, Monus(pace - cost, 1)), next) /\ pace # None
               /\ cost >= 0 /\ ~(cost > pace)
<1> DEFINE pace == Last(t.flat).pace
           cost == t.clock - Last(t.flat).iter
           next(u) == [u EXCEPT !.flat[Len(u.flat)].left = Monus(@, 1)]
           A == {Error(t, "panic")}
                  \cup IF pace = None THEN {Ok(next(t))} ELSE {Error(t, "PacingViolation")}
           B == {Ok(next(t))}
           C == {Error(t, "PacingViolation")}
           D == {Then(Paid(t, Monus(pace - cost, 1)), next)}
<1>1. Paced(t) = CASE cost < 0 -> A
                   [] cost >= 0 /\ pace = None -> B
                   [] cost >= 0 /\ pace # None /\ cost > pace -> C
                   [] OTHER -> D
  BY DEF Paced
<1>2. Error(t, "panic").err # "running" /\ Error(t, "PacingViolation").err # "running"
  BY DEF Error
<1>3. /\ out \in A => out = Ok(next(t)) /\ pace = None
      /\ out \in B => out = Ok(next(t))
      /\ out \notin C
      /\ out \in D => out = Then(Paid(t, Monus(pace - cost, 1)), next)
  BY <1>2
<1> HIDE DEF A, B, C, D, next
<1>4. CASE cost < 0 BY <1>1, <1>3, <1>4 DEF next
<1>5. CASE ~(cost < 0) /\ cost >= 0 /\ pace = None BY <1>1, <1>3, <1>5 DEF next
<1>6. CASE ~(cost < 0) /\ cost >= 0 /\ pace # None /\ cost > pace BY <1>1, <1>3, <1>6
<1>7. CASE ~(cost < 0) /\ cost >= 0 /\ pace # None /\ ~(cost > pace)
  BY <1>1, <1>3, <1>7 DEF next
<1>8. cost >= 0 \/ cost < 0 BY SMT
<1> HIDE DEF cost, pace
<1> QED BY <1>4, <1>5, <1>6, <1>7, <1>8 DEF cost, pace

(* The end of an iteration pays for the rest of its pace.                  *)
LEMMA EndForStep ==
  ASSUME Ready, status' = "running", EndFor
  PROVE  Spends(prog, tl, tl')
<1> DEFINE t == Fetched
           cost == t.clock - Last(t.flat).iter
           pace == Last(t.flat).pace
           next(u) == [u EXCEPT !.flat[Len(u.flat)].left = Monus(@, 1)]
           ms == Monus(pace - cost, 1)
<1>1. Executes("endFor") /\ tl.flat # <<>> /\ t.flat = tl.flat
  BY Fetch DEF EndFor, Only, Becomes, Error
<1>2. PICK out \in Paced(Fetched) : tl' = out.t /\ out.err = "running"
  BY <1>1 DEF EndFor, Only, Becomes
<1>4. Typed(prog, t) /\ t.clock \in Int BY <1>1, FetchedType
<1>8. t.flat \in Seq(Iterations) BY <1>4 DEF Typed, StacksTyped
<1>9. Last(t.flat).iter \in Int /\ pace \in Int BY <1>1, <1>8, IterationType, 0 \in Int
<1>10. cost \in Int BY <1>4, <1>9, SMT
<1>3. \/ out = Ok(next(t))
      \/ pace # None /\ out = Then(Paid(t, ms), next)
  BY <1>2, <1>10, PacedIs
<1> HIDE DEF t
<1>5. ASSUME NEW s, Spends(prog, t, s), s.flat # <<>> PROVE Spends(prog, t, next(s))
  <2>1. /\ Typed(prog, s) /\ DOMAIN s = Fields /\ s.flat \in Seq(Iterations)
        /\ s.loops \in Seq(Loops)
    BY <1>5 DEF Spends, Affords, Typed, StacksTyped
  <2>2. Last(s.flat).left \in Int /\ s.flat[Len(s.flat)] = Last(s.flat)
    BY <1>5, <2>1, IterationType, 0 \in Int
  <2>3. Monus(s.flat[Len(s.flat)].left, 1) \in Int BY <2>2, MonusType, 1 \in Int
  <2>4. [s.flat EXCEPT ![Len(s.flat)].left = Monus(s.flat[Len(s.flat)].left, 1)] \in Seq(Iterations)
    BY <1>5, <2>1, <2>3, IterationType
  <2>5. /\ DOMAIN next(s) = Fields /\ next(s).loops = s.loops
        /\ next(s).flat = [s.flat EXCEPT ![Len(s.flat)].left = Monus(s.flat[Len(s.flat)].left, 1)]
    BY <2>1 DEF Fields
  <2>6. Beside(s, next(s))
    BY <2>1, <2>4, <2>5 DEF Beside, Typed, Timed, Placed, Fields, StacksTyped
  <2> HIDE DEF next
  <2>7. Spends(prog, s, next(s)) BY <2>1, <2>6, BesideSpends
  <2> QED BY <1>4, <1>5, <2>7, SpendsTwice
<1> HIDE DEF next
<1>6. CASE out = Ok(next(t))
  <2>1. Beside(t, t) BY <1>4 DEF Typed, Timed, Placed, Beside
  <2>2. Spends(prog, t, t) BY <1>4, <2>1, BesideSpends
  <2>3. Spends(prog, t, next(t)) BY <1>1, <1>5, <2>2
  <2> QED BY <1>1, <1>2, <1>6, <2>3, FromFetched DEF Ok, t
<1>7. CASE pace # None /\ out = Then(Paid(t, ms), next)
  <2> DEFINE u == Paid(t, ms).t
  <2>1. Paid(t, ms).err = "running" /\ tl' = next(u) BY <1>2, <1>7 DEF Then, Ok
  <2>5. pace - cost \in Int /\ 1 \in Int BY <1>9, <1>10, SMT
  <2>6. ms \in Int BY <2>5, MonusType
  <2> HIDE DEF ms
  <2>7. Spends(prog, t, u) /\ u.flat = t.flat BY <1>4, <2>1, <2>6, PaidSpends
  <2>8. Spends(prog, t, next(u)) BY <1>1, <1>5, <2>7
  <2> QED BY <1>1, <2>1, <2>8, FromFetched DEF t
<1> QED BY <1>3, <1>6, <1>7
-----------------------------------------------------------------------------
(* break                                                                   *)

(* A set of numbers that is not empty has a least one.                     *)
LEMMA Least ==
  ASSUME NEW T, T \subseteq Nat, T # {}
  PROVE  \E x \in T : \A y \in T : x <= y
<1> DEFINE R == OpToRel(<, Nat)
<1>1. \A x, y \in Nat : ~(<<y, x>> \in R) => x <= y
  <2>1. \A x, y \in Nat : <<y, x>> \in Nat \X Nat /\ <<y, x>>[1] = y /\ <<y, x>>[2] = x
    OBVIOUS
  <2>2. \A x, y \in Nat : ~(<<y, x>> \in R) => ~(y < x) BY <2>1 DEF OpToRel
  <2>3. \A x, y \in Nat : ~(y < x) => x <= y BY SMT
  <2> QED BY <2>2, <2>3
<1>2. IsWellFoundedOn(R, Nat) BY NatLessThanWellFounded
<1> HIDE DEF R
<1>3. \E x \in T : \A y \in T : ~(<<y, x>> \in R) BY <1>2, WFMin
<1> QED BY <1>1, <1>3

(* The scan stops in the code, or nowhere.                                 *)
LEMMA FirstStop ==
  ASSUME NEW code, IsSeq(code), NEW from \in Nat \ {0}, NEW depth, Stops(code, from, depth) # {}
  PROVE  LET i == CHOOSE i \in Stops(code, from, depth) :
                    \A j \in Stops(code, from, depth) : i <= j
         IN After(code, i) \in Counters
<1> DEFINE T == Stops(code, from, depth)
           i == CHOOSE k \in T : \A j \in T : k <= j
<1>1. Len(code) \in Nat BY SMT DEF IsSeq
<1>2. T \subseteq from .. Len(code) BY DEF Stops
<1> HIDE DEF T
<1>3. from .. Len(code) \subseteq Nat BY <1>1, SMT
<1>4. \E k \in T : \A j \in T : k <= j BY <1>2, <1>3, Least DEF T
<1>5. i \in T BY <1>4
<1>6. i \in Nat BY <1>2, <1>3, <1>5
<1> HIDE DEF i
<1>7. i + 1 \in Nat \ {0} /\ i + 2 \in Nat \ {0} BY <1>6, SMT
<1>8. After(code, i) \in Counters BY <1>7 DEF After, Counters
<1> QED BY <1>8 DEF i, T

(* A break leaves its loop as the end of the loop would, and goes on after *)
(* it, or runs off the end of the code.                                    *)
LEMMA BreakStep ==
  ASSUME Ready, status' = "running", Break
  PROVE  Spends(prog, tl, tl')
<1> DEFINE code == Code(Fetched)
           stops == Stops(code, Fetched.pc, Fetched.depth)
           d == Depths(code, Fetched.pc, Fetched.depth)
           i == CHOOSE i \in stops : \A j \in stops : i <= j
           out(u) == [u EXCEPT !.pc = After(code, i)]
<1>1. Executes("break") /\ \E o \in Broken(Fetched) : tl' = o.t /\ o.err = "running"
  BY DEF Break, Becomes
<1>2. PICK o \in Broken(Fetched) : tl' = o.t /\ o.err = "running" BY <1>1
<1>3. Typed(prog, Fetched) /\ Fetched.pc \in Nat \ {0} /\ code = Code(tl) /\ IsSeq(code)
  BY <1>1, Fetch, FetchedType, InstrIs DEF Code, Counters
<1>4. ASSUME NEW s, Spends(prog, Fetched, s), NEW pc \in Counters
      PROVE  Spends(prog, Fetched, [s EXCEPT !.pc = pc])
  <2>1. Beside(s, [s EXCEPT !.pc = pc])
    BY <1>4 DEF Spends, Affords, Beside, Typed, Timed, Placed, Fields, StacksTyped
  <2> QED BY <1>3, <1>4, <2>1, BesideSpends, SpendsTwice DEF Spends, Affords
<1>5. ASSUME NEW n PROVE Spends(prog, Fetched, [Fetched EXCEPT !.depth = n])
  <2>1. Beside(Fetched, [Fetched EXCEPT !.depth = n])
    BY <1>3 DEF Beside, Typed, Timed, Placed, Fields, StacksTyped
  <2> QED BY <1>3, <2>1, BesideSpends
<1>6. CASE stops = {}
  <2> DEFINE e == Len(code) + 1
             s == [Fetched EXCEPT !.depth = d[e]]
  <2>1. o = Ok([Fetched EXCEPT !.pc = e, !.depth = d[e]]) BY <1>6 DEF Broken
  <2>2. e \in Counters
    <3>1. Len(code) \in Nat BY <1>3, SMT DEF IsSeq
    <3> QED BY <3>1, SMT DEF Counters
  <2>3. [Fetched EXCEPT !.pc = e, !.depth = d[e]] = [s EXCEPT !.pc = e]
    BY <1>3 DEF Typed, Fields
  <2>4. Spends(prog, Fetched, [s EXCEPT !.pc = e]) BY <1>4, <1>5, <2>2
  <2> QED BY <1>1, <1>2, <2>1, <2>3, <2>4, FromFetched DEF Ok
<1>7. CASE stops # {}
  <2>1. After(code, i) \in Counters BY <1>3, <1>7, FirstStop
  <2>2. \/ o = Ok(out([Fetched EXCEPT !.depth = Monus(Fetched.depth, 1),
                         !.flat = IF @ = <<>> THEN @ ELSE Front(@)]))
        \/ \E n, kind : \E l \in LoopLeft([Fetched EXCEPT !.depth = n], kind) : o = Then(l, out)
    BY <1>7 DEF Broken
  <2>3. CASE o = Ok(out([Fetched EXCEPT !.depth = Monus(Fetched.depth, 1),
                           !.flat = IF @ = <<>> THEN @ ELSE Front(@)]))
    <3> DEFINE s == [Fetched EXCEPT !.depth = Monus(Fetched.depth, 1)]
               u == [Fetched EXCEPT !.depth = Monus(Fetched.depth, 1),
                       !.flat = IF @ = <<>> THEN @ ELSE Front(@)]
    <3>1. Spends(prog, Fetched, s) BY <1>5
    <3>2. \/ s.flat # <<>> /\ u = [s EXCEPT !.flat = Front(@)]
          \/ u = s
      BY <1>3 DEF Typed, Fields
    <3> HIDE DEF s, u
    <3>3. Spends(prog, Fetched, u)
      BY <1>3, <3>1, <3>2, PoppedSpends, SpendsTwice DEF Spends, Affords
    <3>4. Spends(prog, Fetched, out(u)) BY <1>4, <2>1, <3>3
    <3> QED BY <1>1, <1>2, <2>3, <3>4, FromFetched DEF Ok, u
  <2>4. ASSUME NEW n, NEW kind, NEW l \in LoopLeft([Fetched EXCEPT !.depth = n], kind),
               o = Then(l, out)
        PROVE  Spends(prog, tl, tl')
    <3> DEFINE s == [Fetched EXCEPT !.depth = n]
    <3>1. l.err = "running" /\ tl' = out(l.t) BY <1>2, <2>4 DEF Then, Ok
    <3>2. Spends(prog, Fetched, s) BY <1>5
    <3>3. Spends(prog, s, l.t) BY <2>4, <3>1, <3>2, LoopLeftSpends DEF Spends, Affords
    <3>4. Spends(prog, Fetched, l.t) BY <1>3, <3>2, <3>3, SpendsTwice
    <3>5. Spends(prog, Fetched, out(l.t)) BY <1>4, <2>1, <3>4
    <3> QED BY <1>1, <3>1, <3>5, FromFetched
  <2> QED BY <2>2, <2>3, <2>4
<1> QED BY <1>6, <1>7
-----------------------------------------------------------------------------
(* Steps                                                                   *)

(* Every step that does not go back in time spends.                        *)
LEMMA StepSpends ==
  ASSUME Ready, status' = "running", Next, ~BackInTime
  PROVE  Affords(prog, tl, tl') /\ Owes(tl, tl')
<1>1. ~WatchdogBite /\ ~End /\ ~CannotPay BY DEF WatchdogBite, End, CannotPay
<1>2. CASE SetSaturationPolicy BY <1>2, PolicyAffords DEF Owes
<1>3. CASE ~SetSaturationPolicy
  <2> SUFFICES Spends(prog, tl, tl') BY DEF Spends
  <2> QED
    BY <1>1, <1>3, SimpleSpends, PayingSpends, FetchedSpends, CallStep, ReturnStep, AnchorStep,
       LoopStep, LeaseStep, IsolateStep, EndLoopStep, ForStep, EndForStep, BreakStep
    DEF Next, BackInTime
<1> QED BY <1>2, <1>3

(* The program stays, and what has gone astray is not forgotten.           *)
LEMMA StepKeeps == Next => prog' = prog /\ astray \subseteq astray' /\ status = "running"
<1>1. WatchdogBite \/ End \/ CannotPay =>
        prog' = prog /\ astray \subseteq astray' /\ status = "running"
  BY DEF WatchdogBite, End, CannotPay
<1>2. \A op : Executes(op) => status = "running" BY DEF Executes
<1>3. Other \/ Clone \/ Jump \/ JumpIfNot \/ Select \/ Call \/ EndIsolate \/ Slice \/ Capability =>
        prog' = prog /\ astray \subseteq astray' /\ status = "running"
  BY <1>2 DEF Other, Clone, Jump, JumpIfNot, Select, Call, EndIsolate, Slice, Capability, Only
<1>7. SetSaturationPolicy \/ Foreign =>
        prog' = prog /\ astray \subseteq astray' /\ status = "running"
  BY <1>2 DEF SetSaturationPolicy, Foreign, Only
<1>4. Loop \/ EndLoop \/ For \/ EndFor \/ Anchor \/ Isolate =>
        prog' = prog /\ astray \subseteq astray' /\ status = "running"
  BY <1>2 DEF Loop, EndLoop, For, EndFor, Anchor, Isolate, Only
<1>5. Defer \/ Await \/ Lease \/ EndLease \/ EndPeriodicEpoch =>
        prog' = prog /\ astray \subseteq astray' /\ status = "running"
  BY <1>2 DEF Defer, Await, Lease, EndLease, EndPeriodicEpoch, Only
<1>6. Return \/ Break \/ Speculate \/ EndSpeculate \/ Collapse \/ Commit \/ Rewind =>
        prog' = prog /\ astray \subseteq astray' /\ status = "running"
  BY <1>2 DEF Return, Break, Speculate, EndSpeculate, Collapse, Commit, Rewind, Strays
<1> QED BY <1>1, <1>3, <1>4, <1>5, <1>6, <1>7 DEF Next

(* Only the handlers of speculation touch its stack.                       *)
LEMMA StackKept ==
  Next /\ ~(Speculate \/ EndSpeculate \/ Collapse \/ Commit)
    => speculation_stack' = speculation_stack
<1>1. WatchdogBite \/ End \/ CannotPay => speculation_stack' = speculation_stack
  BY DEF WatchdogBite, End, CannotPay, Spec_
<1>3. Other \/ Clone \/ Jump \/ JumpIfNot \/ Select \/ Call \/ EndIsolate \/ Slice \/ Capability =>
        speculation_stack' = speculation_stack
  BY DEF Other, Clone, Jump, JumpIfNot, Select, Call, EndIsolate, Slice, Capability, Only, Spec_
<1>7. SetSaturationPolicy \/ Foreign => speculation_stack' = speculation_stack
  BY DEF SetSaturationPolicy, Foreign, Only, Spec_
<1>4. Loop \/ EndLoop \/ For \/ EndFor \/ Anchor \/ Isolate =>
        speculation_stack' = speculation_stack
  BY DEF Loop, EndLoop, For, EndFor, Anchor, Isolate, Only, Spec_
<1>5. Defer \/ Await \/ Lease \/ EndLease \/ EndPeriodicEpoch =>
        speculation_stack' = speculation_stack
  BY DEF Defer, Await, Lease, EndLease, EndPeriodicEpoch, Only, Spec_
<1>6. Return \/ Break \/ Rewind => speculation_stack' = speculation_stack
  BY DEF Return, Break, Rewind, Spec_
<1> QED BY <1>1, <1>3, <1>4, <1>5, <1>6, <1>7 DEF Next

(* A speculation keeps the timeline it began with.                         *)
LEMMA SpeculateLeaves ==
  ASSUME Ready, status' = "running", Contexts(prog, speculation_stack), Speculate
  PROVE  Leaves
<1> DEFINE c == [start |-> Fetched, fallback |-> Instr.fallback, committed |-> FALSE]
<1>1. Executes("speculate") /\ tl' = Fetched /\ speculation_stack' = Append(speculation_stack, c)
  BY DEF Speculate, Becomes, Ok
<1>2. Typed(prog, Fetched) /\ Instr.fallback \in Counters /\ Spends(prog, tl, Fetched)
  BY <1>1, Fetch, FetchedType, InstrIs DEF WellFormed
<1>3. DOMAIN c = {"start", "fallback", "committed"} /\ c.start = Fetched /\ c.fallback = Instr.fallback
  OBVIOUS
<1> HIDE DEF c
<1>4. /\ IsSeq(speculation_stack') /\ (speculation_stack')[Len(speculation_stack) + 1] = c
      /\ \A i \in DOMAIN speculation_stack' :
           i = Len(speculation_stack) + 1
             \/ (i \in DOMAIN speculation_stack /\ (speculation_stack')[i] = speculation_stack[i])
  BY <1>1, AppendIs DEF Contexts
<1>5. Contexts(prog, speculation_stack') BY <1>2, <1>3, <1>4 DEF Contexts
<1>6. ASSUME AllBounded(tl, speculation_stack) PROVE AllBounded(tl', speculation_stack')
  <2>1. Bounded(prog, Fetched) BY <1>2, <1>6 DEF Spends, Affords, AllBounded
  <2>2. ContextsLast(prog, speculation_stack')
    BY <1>3, <1>4, <1>6, <2>1 DEF ContextsLast, AllBounded
  <2> QED BY <1>1, <2>1, <2>2 DEF AllBounded
<1> QED BY <1>1, <1>2, <1>5, <1>6 DEF Leaves

(* A commit marks the innermost speculation.                               *)
LEMMA CommitLeaves ==
  ASSUME Ready, status' = "running", Contexts(prog, speculation_stack), Commit
  PROVE  Leaves
<1>1. Executes("commit") /\ tl' = Fetched BY DEF Commit, Becomes, Ok
<1>2. Typed(prog, Fetched) /\ Spends(prog, tl, Fetched) BY <1>1, Fetch, FetchedType
<1> DEFINE s == speculation_stack
           u == speculation_stack'
<1>3. \/ u = s
      \/ s # <<>> /\ u = [s EXCEPT ![Len(s)].committed = TRUE]
  BY DEF Commit
<1>4. /\ IsSeq(u) /\ DOMAIN u = DOMAIN s
      /\ \A i \in DOMAIN s :
           /\ DOMAIN u[i] = DOMAIN s[i] /\ u[i].start = s[i].start
           /\ u[i].fallback = s[i].fallback
  <2>1. CASE u = s BY <2>1 DEF Contexts
  <2>2. CASE s # <<>> /\ u = [s EXCEPT ![Len(s)].committed = TRUE]
    <3> DEFINE e == [s[Len(s)] EXCEPT !.committed = TRUE]
    <3>1. IsSeq(s) /\ \A i \in DOMAIN s : DOMAIN s[i] = {"start", "fallback", "committed"}
      BY DEF Contexts
    <3>2. Len(s) \in DOMAIN s BY <2>2, <3>1, FrontIs
    <3>3. DOMAIN e = DOMAIN s[Len(s)] /\ e.start = s[Len(s)].start /\ e.fallback = s[Len(s)].fallback
      BY <3>1, <3>2
    <3> HIDE DEF e
    <3>4. u = [s EXCEPT ![Len(s)] = e] BY <2>2 DEF e
    <3> HIDE DEF s, u
    <3>5. IsSeq(u)
      <4>1. PICK S : s \in Seq(S) BY <3>1 DEF IsSeq
      <4>2. u \in Seq(S \cup {e}) BY <3>2, <3>4, <4>1, SMT
      <4> QED BY <4>2 DEF IsSeq
    <3>6. DOMAIN u = DOMAIN s /\ \A i \in DOMAIN s : u[i] = IF i = Len(s) THEN e ELSE s[i]
      BY <3>4
    <3> QED BY <3>3, <3>5, <3>6
  <2> QED BY <1>3, <2>1, <2>2
<1>5. Contexts(prog, u) BY <1>4 DEF Contexts
<1>6. ContextsLast(prog, s) => ContextsLast(prog, u) BY <1>4 DEF ContextsLast
<1> QED BY <1>1, <1>2, <1>5, <1>6 DEF Leaves, AllBounded, Spends, Affords

(* Going back to the start of the innermost speculation, at another place. *)
LEMMA BackLeaves ==
  ASSUME Ready, Contexts(prog, speculation_stack), speculation_stack # <<>>,
         NEW u, NEW pc \in Counters, NEW code \in DOMAIN prog, NEW n,
         \/ u = [Last(speculation_stack).start EXCEPT !.pc = pc, !.code = code, !.depth = n]
         \/ u = [Last(speculation_stack).start EXCEPT !.code = code, !.pc = pc]
  PROVE  /\ Typed(prog, u) /\ Contexts(prog, Front(speculation_stack))
         /\ ContextsLast(prog, speculation_stack)
              => Bounded(prog, u) /\ ContextsLast(prog, Front(speculation_stack))
<1> DEFINE s == speculation_stack
           t == Last(s).start
<1>1. /\ IsSeq(Front(s)) /\ Len(s) \in DOMAIN s /\ Last(s) = s[Len(s)]
      /\ \A i \in DOMAIN Front(s) : i \in DOMAIN s /\ Front(s)[i] = s[i]
  BY FrontIs DEF Contexts
<1>2. Contexts(prog, Front(s)) /\ (ContextsLast(prog, s) => ContextsLast(prog, Front(s)))
  BY <1>1 DEF Contexts, ContextsLast
<1>3. Typed(prog, t) /\ (ContextsLast(prog, s) => Bounded(prog, t))
  BY <1>1 DEF Contexts, ContextsLast
<1> HIDE DEF t
<1>4. /\ DOMAIN u = Fields /\ u.pc = pc /\ u.code = code /\ u.clock = t.clock
      /\ u.budget = t.budget /\ u.slice = t.slice /\ u.regs = t.regs /\ u.loops = t.loops
      /\ u.flat = t.flat /\ u.calls = t.calls /\ u.anchors = t.anchors /\ u.entered = t.entered
      /\ u.unpaid = t.unpaid
  BY <1>3 DEF t, Typed, Fields
<1>5. Horizon(u) = Horizon(t) BY <1>4 DEF Horizon
<1>6. Typed(prog, u) BY <1>3, <1>4 DEF Typed, Timed, Placed, StacksTyped
<1>7. Bounded(prog, t) => Bounded(prog, u) BY <1>4, <1>5 DEF Bounded
<1> QED BY <1>2, <1>3, <1>6, <1>7
(* The end of a speculation keeps the block's work or gives it back.       *)
LEMMA EndSpeculateLeaves ==
  ASSUME Ready, status' = "running", Contexts(prog, speculation_stack), EndSpeculate
  PROVE  Leaves
<1> DEFINE s == speculation_stack
           c == Last(s)
<1>1. /\ Executes("endSpeculate") /\ s # <<>> /\ speculation_stack' = Front(s)
      /\ \/ tl' = Fetched
         \/ tl' = [c.start EXCEPT !.pc = Fetched.pc, !.code = tl.code, !.depth = tl.depth]
  BY DEF EndSpeculate, Becomes, Ok, Error
<1>2. /\ Typed(prog, Fetched) /\ Spends(prog, tl, Fetched) /\ Fetched.pc \in Counters
      /\ tl.code \in DOMAIN prog
  BY <1>1, Fetch, FetchedType, InstrIs
<1>3. CASE tl' = Fetched
  <2>1. /\ Contexts(prog, Front(s))
        /\ ContextsLast(prog, s) => ContextsLast(prog, Front(s))
    <3> DEFINE u == [c.start EXCEPT !.pc = Fetched.pc, !.code = tl.code, !.depth = tl.depth]
    <3> QED BY <1>1, <1>2, BackLeaves
  <2> QED BY <1>1, <1>2, <1>3, <2>1 DEF Leaves, AllBounded, Spends, Affords
<1>4. CASE tl' = [c.start EXCEPT !.pc = Fetched.pc, !.code = tl.code, !.depth = tl.depth]
  <2>1. /\ Typed(prog, tl') /\ Contexts(prog, Front(s))
        /\ ContextsLast(prog, s) => Bounded(prog, tl') /\ ContextsLast(prog, Front(s))
    BY <1>1, <1>2, <1>4, BackLeaves
  <2> QED BY <1>1, <2>1 DEF Leaves, AllBounded
<1> QED BY <1>1, <1>3, <1>4

(* A collapse gives the block's work back.                                 *)
LEMMA CollapseLeaves ==
  ASSUME Ready, status' = "running", Contexts(prog, speculation_stack), Collapse
  PROVE  Leaves
<1> DEFINE s == speculation_stack
           c == Last(s)
<1>1. /\ Executes("collapse") /\ s # <<>> /\ speculation_stack' = Front(s)
      /\ tl' = [c.start EXCEPT !.code = tl.code, !.pc = c.fallback]
  BY DEF Collapse, Becomes, Ok, Error
<1>2. c.fallback \in Counters /\ tl.code \in DOMAIN prog
  BY <1>1, FrontIs, InstrIs DEF Contexts
<1>3. /\ Typed(prog, tl') /\ Contexts(prog, Front(s))
      /\ ContextsLast(prog, s) => Bounded(prog, tl') /\ ContextsLast(prog, Front(s))
  BY <1>1, <1>2, BackLeaves
<1> QED BY <1>1, <1>3 DEF Leaves, AllBounded

(* A rewind within the calls of its anchor returns to the bounds the       *)
(* anchor was set under.                                                   *)
LEMMA RewindLeaves ==
  ASSUME Ready, status' = "running", Contexts(prog, speculation_stack), Rewind
  PROVE  Leaves
<1> DEFINE p == tl.anchors[Instr.name]
<1>1. /\ Executes("rewind") /\ Instr.name \in DOMAIN tl.anchors /\ tl' = Rewound(Fetched, p)
      /\ speculation_stack' = speculation_stack
      /\ "calls" \notin astray' => p.calls = tl.calls
  BY DEF Rewind, Becomes, Ok, Error, Strays, Spec_
<1>2. Typed(prog, Fetched) /\ Fetched.calls = tl.calls /\ Fetched.anchors = tl.anchors
  BY <1>1, Fetch, FetchedType
<1>3. Placed(prog, p) /\ p.clock \in Int /\ p.budget \in Nat /\ p.unpaid \in Nat
  BY <1>1 DEF Ready, Typed, Anchored
<1>4. Bounded(prog, tl) => Lasting(prog, p.entered, Horizon(p)) /\ FramesLast(prog, p.calls, Horizon(p))
  BY <1>1 DEF Bounded, AnchorsLast
<1> HIDE DEF p
<1>5. /\ DOMAIN tl' = Fields /\ (tl').clock = p.clock /\ (tl').budget = p.budget
      /\ (tl').regs = p.regs /\ (tl').pc = p.pc /\ (tl').code = p.code
      /\ (tl').entered = p.entered /\ (tl').unpaid = p.unpaid /\ (tl').slice = Fetched.slice
      /\ (tl').loops = Fetched.loops /\ (tl').flat = Fetched.flat
      /\ (tl').calls = Fetched.calls /\ (tl').anchors = Fetched.anchors
  BY <1>1, <1>2 DEF Rewound, Typed, Fields
<1>6. Typed(prog, tl') BY <1>2, <1>3, <1>5 DEF Typed, Timed, Placed, StacksTyped
<1>7. Horizon(tl') = Horizon(p) BY <1>5 DEF Horizon
<1>8. ASSUME "calls" \notin astray', Bounded(prog, tl) PROVE Bounded(prog, tl')
  BY <1>1, <1>2, <1>4, <1>5, <1>7, <1>8 DEF Bounded
<1> QED BY <1>1, <1>6, <1>8 DEF Leaves, AllBounded

(* The invariant holds at the start of every program.                      *)
LEMMA InitInv == Init => ControlInv
<1> SUFFICES ASSUME Init PROVE ControlInv
  OBVIOUS
<1>1. /\ prog \in Programs /\ DOMAIN tl = Fields /\ tl.code = "main" /\ tl.pc = 1
      /\ tl.clock = 0 /\ tl.budget = Unbounded /\ tl.slice = None /\ tl.loops = <<>>
      /\ tl.flat = <<>> /\ tl.calls = <<>> /\ tl.regs = Empty /\ tl.anchors = <<>>
      /\ tl.entered = <<>> /\ tl.unpaid = 0 /\ speculation_stack = <<>>
  BY DEF Init, Fields
<1>2. "main" \in DOMAIN prog /\ Unbounded \in Nat
  BY <1>1, ProgramAssumption, ControlAssumption
<1>3. 0 \in Int /\ 0 \in Nat /\ 1 \in Counters /\ None \in Int BY SMT DEF Counters, None
<1>4. Empty \in Registers BY <1>3 DEF Empty, Registers
<1>5. IsSeq(<<>>) BY <<>> \in Seq(Loops) DEF IsSeq
<1>6. Typed(prog, tl)
  BY <1>1, <1>2, <1>3, <1>4, <1>5 DEF Typed, Timed, Placed, StacksTyped, Framed, Anchored
<1>7. Contexts(prog, speculation_stack) /\ ContextsLast(prog, speculation_stack)
  BY <1>1, <1>5 DEF Contexts, ContextsLast
<1>8. Bounded(prog, tl) BY <1>1 DEF Bounded, Lasting, FramesLast, AnchorsLast
<1> QED BY <1>1, <1>6, <1>7, <1>8 DEF ControlInv

(* Every step preserves it.                                                *)
LEMMA NextInv == ControlInv /\ [Next]_vars => ControlInv'
<1> SUFFICES ASSUME ControlInv, [Next]_vars PROVE ControlInv'
  OBVIOUS
<1>1. CASE UNCHANGED vars BY <1>1 DEF vars, ControlInv
<1>2. CASE Next
  <2> SUFFICES ASSUME status' = "running" PROVE ControlInv'
    BY DEF ControlInv
  <2>1. /\ Ready /\ Contexts(prog, speculation_stack) /\ prog' = prog
        /\ astray \subseteq astray'
        /\ "calls" \notin astray => AllBounded(tl, speculation_stack)
    BY <1>2, StepKeeps DEF ControlInv, Ready, AllBounded
  <2>2. Leaves
    <3>1. CASE BackInTime
      BY <2>1, <3>1, EndSpeculateLeaves, CollapseLeaves, RewindLeaves DEF BackInTime
    <3>2. CASE Speculate BY <2>1, <3>2, SpeculateLeaves
    <3>3. CASE Commit BY <2>1, <3>3, CommitLeaves
    <3>4. CASE ~BackInTime /\ ~Speculate /\ ~Commit
      <4>1. speculation_stack' = speculation_stack
        BY <1>2, <3>4, StackKept DEF BackInTime
      <4>2. Affords(prog, tl, tl') BY <1>2, <2>1, <3>4, StepSpends
      <4> QED BY <2>1, <4>1, <4>2 DEF Leaves, AllBounded, Affords
    <3> QED BY <3>1, <3>2, <3>3, <3>4
  <2>3. "calls" \notin astray' => AllBounded(tl', speculation_stack')
    BY <2>1, <2>2 DEF Leaves
  <2>4. /\ prog' \in Programs /\ Typed(prog', tl') /\ Contexts(prog', speculation_stack')
        /\ "calls" \notin astray' =>
             Bounded(prog', tl') /\ ContextsLast(prog', speculation_stack')
    BY <2>1, <2>2, <2>3 DEF Leaves, AllBounded, Ready
  <2> QED BY <2>4 DEF ControlInv
<1> QED BY <1>1, <1>2

-----------------------------------------------------------------------------
(* What a program may rely on                                              *)

(* The invariant holds throughout every run.                               *)
THEOREM Invariance == Spec => []ControlInv
BY InitInv, NextInv, PTL DEF Spec

(* An isolate never runs longer than the cpu it was given, but for what    *)
(* full arenas have put on its clock, whatever its body does, as long as   *)
(* no rewind leaves the calls it is made in (Isolate, insert_reg and the   *)
(* handlers that pay).                                                     *)
THEOREM IsolateKept == Spec => []IsolateWithinBudget
<1>1. ControlInv => IsolateWithinBudget
  <2> SUFFICES ASSUME ControlInv, "calls" \notin astray, status = "running",
                      NEW h \in Around(Code(tl), tl.pc, {"isolate"}),
                      <<tl.code, h>> \in DOMAIN tl.entered
               PROVE  tl.clock - tl.entered[<<tl.code, h>>].clock
                        <= tl.entered[<<tl.code, h>>].ms
                             + (tl.unpaid - tl.entered[<<tl.code, h>>].unpaid)
    BY DEF IsolateWithinBudget
  <2> DEFINE b == <<tl.code, h>>
             e == tl.entered[b]
  <2>1. Typed(prog, tl) /\ Lasting(prog, tl.entered, Horizon(tl))
    BY DEF ControlInv, Bounded
  <2>2. prog[b[1]][b[2]].op = "isolate" BY DEF Around, Code
  <2>3. /\ e.clock \in Int /\ e.ms \in Int /\ e.unpaid \in Int
        /\ Horizon(tl) <= e.clock + e.ms - e.unpaid
    BY <2>1, <2>2 DEF Lasting
  <2>4. tl.clock \in Int /\ tl.budget \in Nat /\ tl.unpaid \in Nat
    BY <2>1 DEF Typed, Timed
  <2> HIDE DEF e, b
  <2>5. tl.clock - e.clock <= e.ms + (tl.unpaid - e.unpaid)
    BY <2>3, <2>4, SMT DEF Horizon
  <2> QED BY <2>5 DEF e, b
<1> QED BY <1>1, Invariance, PTL

(* No step but a rewind, a collapse and the end of a speculation moves the *)
(* clock without the budget paying for it, except by writing registers to  *)
(* a full arena under a policy that throttles.                             *)
THEOREM TimePaid == Spec => TimeIsPaid
<1>1. ASSUME ControlInv, [Next]_vars
      PROVE  [status' = "running" /\ Instr.op \notin GoesBack
                => LET late == tl'.unpaid - tl.unpaid
                   IN tl'.clock - tl.clock <= (tl.budget - tl'.budget) + late
                      /\ (late = 0 \/ Throttles(tl))]_vars
  <2> SUFFICES ASSUME Next, status' = "running", Instr.op \notin GoesBack
               PROVE  /\ (tl').clock - tl.clock
                            <= (tl.budget - (tl').budget) + ((tl').unpaid - tl.unpaid)
                      /\ (tl').unpaid - tl.unpaid = 0 \/ Throttles(tl)
    BY <1>1
  <2>1. Ready BY <1>1, StepKeeps DEF ControlInv, Ready
  <2>2. ~BackInTime
    BY DEF BackInTime, EndSpeculate, Collapse, Rewind, Executes, GoesBack
  <2>3. Affords(prog, tl, tl') /\ ((tl').unpaid = tl.unpaid \/ Throttles(tl))
    BY <2>1, <2>2, StepSpends DEF Owes
  <2>4. /\ tl.clock \in Int /\ tl.budget \in Nat /\ (tl').clock \in Int /\ (tl').budget \in Nat
        /\ tl.unpaid \in Nat /\ (tl').unpaid \in Nat
        /\ (tl').clock + (tl').budget - (tl').unpaid <= tl.clock + tl.budget - tl.unpaid
    BY <2>1, <2>3 DEF Ready, Affords, Typed, Timed, Horizon
  <2>5. (tl').clock - tl.clock <= (tl.budget - (tl').budget) + ((tl').unpaid - tl.unpaid)
    BY <2>4, SMT
  <2>6. (tl').unpaid = tl.unpaid => (tl').unpaid - tl.unpaid = 0 BY <2>4, SMT
  <2> QED BY <2>3, <2>5, <2>6
<1> QED BY <1>1, Invariance, PTL DEF Spec, TimeIsPaid
-----------------------------------------------------------------------------
(* The stacks and the blocks                                               *)

(* Every routine of a program is built so.                                 *)
LEMMA BuiltIs ==
  ASSUME NEW p \in Programs, NEW r \in DOMAIN p
  PROVE  Built(p[r])
<1>1. p[r] \in Seq(Range(p[r])) /\ Nests(p[r]) /\ Jumps(p[r])
  BY ProgramAssumption, StructureAssumption
<1> QED BY <1>1 DEF Built, IsSeq

(* Which instructions begin and end blocks, and which end goes with which  *)
(* beginning.                                                              *)
LEMMA OpsAre ==
  /\ Begins = {"loop", "while", "tick", "for", "speculate", "isolate", "lease"}
  /\ EndOps = {"endLoop", "endWhile", "endTick", "endFor", "endSpeculate", "endIsolate", "endLease"}
  /\ Begins \cap EndOps = {}
  /\ \A b, e : <<b, e>> \in BeginEnd =>
       /\ b \in Begins /\ e \in EndOps
       /\ e \in {"endLoop", "endWhile", "endTick"} <=> b \in Limited
       /\ e = "endFor" <=> b = "for"
       /\ e = "endSpeculate" <=> b = "speculate"
       /\ e = "endIsolate" <=> b = "isolate"
       /\ e = "endLease" <=> b = "lease"
<1>1. Begins = {"loop", "while", "tick", "for", "speculate", "isolate", "lease"}
  BY DEF Begins, BeginEnd
<1>2. EndOps = {"endLoop", "endWhile", "endTick", "endFor", "endSpeculate", "endIsolate", "endLease"}
  BY DEF EndOps, BeginEnd
<1>3. Begins \cap EndOps = {} BY <1>1, <1>2
<1>4. ASSUME NEW b, NEW e, <<b, e>> \in BeginEnd
      PROVE  /\ b \in Begins /\ e \in EndOps
             /\ e \in {"endLoop", "endWhile", "endTick"} <=> b \in Limited
             /\ e = "endFor" <=> b = "for"
             /\ e = "endSpeculate" <=> b = "speculate"
             /\ e = "endIsolate" <=> b = "isolate"
             /\ e = "endLease" <=> b = "lease"
  <2>1. \/ b = "loop" /\ e = "endLoop"
        \/ b = "while" /\ e = "endWhile"
        \/ b = "tick" /\ e = "endTick"
        \/ b = "for" /\ e = "endFor"
        \/ b = "speculate" /\ e = "endSpeculate"
        \/ b = "isolate" /\ e = "endIsolate"
        \/ b = "lease" /\ e = "endLease"
    BY <1>4 DEF BeginEnd
  <2> QED BY <1>1, <1>2, <2>1 DEF Limited
<1> QED BY <1>1, <1>2, <1>3, <1>4

(* The ends of a routine and their heads.                                  *)
LEMMA EndIs ==
  ASSUME NEW c, Built(c)
  PROVE  /\ Len(c) \in Nat /\ DOMAIN c = 1 .. Len(c) /\ DOMAIN c \subseteq Int
         /\ \A e \in Ends(c) :
              /\ e \in DOMAIN c /\ c[e].head \in DOMAIN c /\ c[e].head < e
              /\ e \in Int /\ c[e].head \in Int
              /\ <<c[c[e].head].op, c[e].op>> \in BeginEnd
              /\ c[c[e].head].op \in Begins /\ c[e].op \in EndOps
         /\ \A e \in DOMAIN c : e \in Ends(c) <=> c[e].op \in EndOps
         /\ \A e, f \in Ends(c) : c[e].head <= c[f].head => e < c[f].head \/ f <= e
         /\ \A e, f \in Ends(c) : c[e].head = c[f].head => e = f
<1>1. Len(c) \in Nat /\ DOMAIN c = 1 .. Len(c) /\ DOMAIN c \subseteq Int
  <2>1. PICK S : c \in Seq(S) BY DEF Built, IsSeq
  <2> QED BY <2>1, SMT
<1>2. \A e \in Ends(c) :
        /\ e \in DOMAIN c /\ c[e].head \in DOMAIN c /\ c[e].head < e
        /\ <<c[c[e].head].op, c[e].op>> \in BeginEnd
  BY DEF Built, Nests, Ends
<1>3. \A e \in Ends(c) : c[c[e].head].op \in Begins /\ c[e].op \in EndOps
  BY <1>2, OpsAre
<1>4. \A e \in DOMAIN c : e \in Ends(c) <=> c[e].op \in EndOps
  BY DEF Built, Nests, EndOps
<1>5. \A e, f \in Ends(c) : c[e].head <= c[f].head => e < c[f].head \/ f <= e
  BY DEF Built, Nests
<1>6. \A e \in Ends(c) : e \in Int /\ c[e].head \in Int BY <1>1, <1>2
<1>7. ASSUME NEW e \in Ends(c), NEW f \in Ends(c), c[e].head = c[f].head PROVE e = f
  <2>1. e \in Int /\ f \in Int /\ c[e].head \in Int /\ c[e].head < e /\ c[e].head < f
    BY <1>2, <1>6, <1>7
  <2>2. c[e].head <= c[e].head BY <2>1, SMT
  <2>3. (e < c[e].head \/ f <= e) /\ (f < c[e].head \/ e <= f) BY <1>5, <1>7, <2>2
  <2> QED BY <2>1, <2>3, SMT
<1> QED BY <1>1, <1>2, <1>3, <1>4, <1>5, <1>6, <1>7

(* The heads of the blocks around an instruction.                          *)
LEMMA AroundIs ==
  ASSUME NEW c, Built(c), NEW pc
  PROVE  \A ops :
           /\ \A h : h \in Around(c, pc, ops) <=>
                 \E e \in Ends(c) : c[e].head = h /\ h < pc /\ pc <= e /\ c[h].op \in ops
           /\ Around(c, pc, ops) \subseteq 1 .. Len(c) /\ IsFiniteSet(Around(c, pc, ops))
<1> TAKE ops
<1>1. \A h : h \in Around(c, pc, ops) <=>
         \E e \in Ends(c) : c[e].head = h /\ h < pc /\ pc <= e /\ c[h].op \in ops
  BY DEF Around, Within
<1>2. Around(c, pc, ops) \subseteq 1 .. Len(c)
  <2> SUFFICES ASSUME NEW h \in Around(c, pc, ops) PROVE h \in 1 .. Len(c)
    OBVIOUS
  <2>1. PICK e \in Ends(c) : c[e].head = h BY <1>1
  <2> QED BY <2>1, EndIs
<1>3. IsFiniteSet(1 .. Len(c)) BY EndIs, FS_Interval, 1 \in Int
<1>4. IsFiniteSet(Around(c, pc, ops)) BY <1>2, <1>3, FS_Subset
<1> QED BY <1>1, <1>2, <1>4

(* Past an instruction that neither begins nor ends a block.               *)
LEMMA PastPlain ==
  ASSUME NEW c, Built(c), NEW pc \in DOMAIN c, c[pc].op \notin Begins, c[pc].op \notin EndOps
  PROVE  \A ops : Around(c, pc + 1, ops) = Around(c, pc, ops)
<1> SUFFICES ASSUME NEW ops, NEW h
             PROVE  h \in Around(c, pc + 1, ops) <=> h \in Around(c, pc, ops)
  OBVIOUS
<1>1. \A e \in Ends(c) : e # pc /\ c[e].head # pc BY EndIs
<1>2. \A e \in Ends(c) : e \in Int /\ c[e].head \in Int BY EndIs
<1>3. pc \in Int BY EndIs
<1>4. \A e \in Ends(c) : c[e].head < pc + 1 /\ pc + 1 <= e <=> c[e].head < pc /\ pc <= e
  BY <1>1, <1>2, <1>3, SMT
<1>5. h \in Around(c, pc + 1, ops) <=>
         \E e \in Ends(c) : c[e].head = h /\ h < pc + 1 /\ pc + 1 <= e /\ c[h].op \in ops
  BY AroundIs
<1>6. h \in Around(c, pc, ops) <=>
         \E e \in Ends(c) : c[e].head = h /\ h < pc /\ pc <= e /\ c[h].op \in ops
  BY AroundIs
<1> QED BY <1>4, <1>5, <1>6

(* Past one that begins a block: it is around.                             *)
LEMMA PastBegin ==
  ASSUME NEW c, Built(c), NEW pc \in DOMAIN c, c[pc].op \in Begins
  PROVE  \A ops :
           /\ pc \notin Around(c, pc, ops)
           /\ Around(c, pc + 1, ops) =
                IF c[pc].op \in ops THEN Around(c, pc, ops) \cup {pc} ELSE Around(c, pc, ops)
<1> SUFFICES ASSUME NEW ops
             PROVE  /\ pc \notin Around(c, pc, ops)
                    /\ \A h : h \in Around(c, pc + 1, ops) <=>
                         h \in Around(c, pc, ops) \/ (c[pc].op \in ops /\ h = pc)
  OBVIOUS
<1>1. \A e \in Ends(c) : e # pc BY EndIs, OpsAre
<1>2. pc \in Int /\ \A e \in Ends(c) : e \in Int /\ c[e].head \in Int /\ c[e].head < e
  BY EndIs
<1>3. PICK f \in Ends(c) : c[f].head = pc BY DEF Built, Nests
<1>4. \A e \in Ends(c) : c[e].head < pc + 1 /\ pc + 1 <= e
                           <=> (c[e].head < pc /\ pc <= e) \/ c[e].head = pc
  BY <1>1, <1>2, SMT
<1>5. \A n, h : h \in Around(c, n, ops) <=>
         \E e \in Ends(c) : c[e].head = h /\ h < n /\ n <= e /\ c[h].op \in ops
  BY AroundIs
<1>6. pc \notin Around(c, pc, ops)
  <2>1. ~(pc < pc) BY <1>2, SMT
  <2> QED BY <1>5, <2>1
<1> QED BY <1>3, <1>4, <1>5, <1>6

(* Past the end of one, the innermost there: it is no longer around.       *)
LEMMA PastEnd ==
  ASSUME NEW c, Built(c), NEW pc \in Ends(c)
  PROVE  \A ops :
           /\ Around(c, pc + 1, ops) = Around(c, pc, ops) \ {c[pc].head}
           /\ c[pc].head \in Around(c, pc, ops) <=> c[c[pc].head].op \in ops
           /\ \A k \in Around(c, pc, ops) : k <= c[pc].head
<1> DEFINE g == c[pc].head
<1> SUFFICES ASSUME NEW ops
             PROVE  /\ \A h : h \in Around(c, pc + 1, ops) <=> h \in Around(c, pc, ops) /\ h # g
                    /\ g \in Around(c, pc, ops) <=> c[g].op \in ops
                    /\ \A k \in Around(c, pc, ops) : k <= g
  OBVIOUS
<1>1. pc \in Int /\ \A e \in Ends(c) : e \in Int /\ c[e].head \in Int /\ c[e].head < e
  BY EndIs
<1>2. \A e \in Ends(c) : c[e].head = g => e = pc BY EndIs
<1>3. \A e \in Ends(c) : c[e].head # pc
  <2>1. c[pc].op \notin Begins BY EndIs, OpsAre
  <2> QED BY <2>1, EndIs
<1>4. ASSUME NEW e \in Ends(c)
      PROVE  c[e].head < pc + 1 /\ pc + 1 <= e <=> c[e].head < pc /\ pc <= e /\ e # pc
  <2> DEFINE k == c[e].head
  <2>1. pc \in Int /\ e \in Int /\ k \in Int /\ k # pc BY <1>1, <1>3
  <2> HIDE DEF k
  <2>2. k < pc + 1 /\ pc + 1 <= e <=> k < pc /\ pc <= e /\ e # pc BY <2>1, SMT
  <2> QED BY <2>2 DEF k
<1>5. \A n, h : h \in Around(c, n, ops) <=>
         \E e \in Ends(c) : c[e].head = h /\ h < n /\ n <= e /\ c[h].op \in ops
  BY AroundIs
<1>6. g < pc /\ pc <= pc BY <1>1, SMT
<1>7. ASSUME NEW e \in Ends(c), c[e].head < pc, pc <= e PROVE c[e].head <= g
  <2>1. g <= c[e].head => pc < c[e].head \/ e <= pc BY EndIs
  <2>2. e = pc => c[e].head = g
    OBVIOUS
  <2>3. e \in Int /\ pc \in Int /\ c[e].head \in Int /\ g \in Int BY <1>1
  <2> DEFINE k == c[e].head
  <2>4. k < pc /\ pc <= e BY <1>7
  <2> HIDE DEF g, k
  <2>5. k \in Int /\ (g <= k => pc < k \/ e <= pc) /\ (e = pc => k = g)
    BY <2>1, <2>2, <2>3 DEF k
  <2>6. k <= g BY <2>3, <2>4, <2>5, SMT
  <2> QED BY <2>6 DEF k
<1>8. \A h : h \in Around(c, pc + 1, ops) <=> h \in Around(c, pc, ops) /\ h # g
  <2> SUFFICES ASSUME NEW h
               PROVE  h \in Around(c, pc + 1, ops) <=> h \in Around(c, pc, ops) /\ h # g
    OBVIOUS
  <2>1. \A e \in Ends(c) : c[e].head = h /\ h < pc + 1 /\ pc + 1 <= e
                            <=> c[e].head = h /\ h < pc /\ pc <= e /\ h # g
    BY <1>2, <1>4
  <2> QED BY <1>5, <2>1
<1>9. g \in Around(c, pc, ops) <=> c[g].op \in ops BY <1>5, <1>6
<1>10. \A k \in Around(c, pc, ops) : k <= g BY <1>5, <1>7
<1> QED BY <1>8, <1>9, <1>10

(* What is around the head of a block around an instruction.               *)
LEMMA Outside ==
  ASSUME NEW c, Built(c), NEW pc \in Int, NEW any, NEW h \in Around(c, pc, any)
  PROVE  \A ops : Around(c, h, ops) = {k \in Around(c, pc, ops) : k < h}
<1> SUFFICES ASSUME NEW ops, NEW k
             PROVE  k \in Around(c, h, ops) <=> k \in Around(c, pc, ops) /\ k < h
  OBVIOUS
<1>1. \A e \in Ends(c) : e \in Int /\ c[e].head \in Int /\ c[e].head < e BY EndIs
<1>2. \A n, o, x : x \in Around(c, n, o) <=>
         \E e \in Ends(c) : c[e].head = x /\ x < n /\ n <= e /\ c[x].op \in o
  BY AroundIs
<1>3. PICK e \in Ends(c) : c[e].head = h /\ h < pc /\ pc <= e BY <1>2
<1>4. ASSUME NEW f \in Ends(c), c[f].head = k, k < h PROVE h <= f <=> k < pc /\ pc <= f
  <2>1. k <= h => f < h \/ e <= f BY <1>3, <1>4, EndIs
  <2> QED BY <1>1, <1>3, <1>4, <2>1, SMT
<1>5. k \in Around(c, h, ops) => k \in Around(c, pc, ops) /\ k < h BY <1>2, <1>4
<1>6. k \in Around(c, pc, ops) /\ k < h => k \in Around(c, h, ops) BY <1>2, <1>4
<1> QED BY <1>5, <1>6
-----------------------------------------------------------------------------
(* Counts                                                                  *)

(* A count goes up with an element more and down with one less.            *)
LEMMA CountedIs ==
  ASSUME NEW n, NEW S, Counted(n, S)
  PROVE  /\ n \in Nat /\ (n = 0 <=> S = {})
         /\ \A x, A : Gains(A, S, x) => Counted(n + 1, A)
         /\ \A x, A : Loses(A, S, x) => Counted(n - 1, A) /\ n - 1 \in Nat /\ n # 0
<1>1. IsFiniteSet(S) /\ n = Cardinality(S) /\ n \in Nat /\ (n = 0 <=> S = {})
  BY FS_CardinalityType, FS_EmptySet DEF Counted
<1>2. ASSUME NEW x, NEW A, Gains(A, S, x) PROVE Counted(n + 1, A)
  <2>1. x \notin S /\ A = S \cup {x} BY <1>2 DEF Gains
  <2>2. Counted(n + 1, S \cup {x}) BY <1>1, <2>1, FS_AddElement DEF Counted
  <2> QED BY <2>1, <2>2
<1>3. ASSUME NEW x, NEW A, Loses(A, S, x) PROVE Counted(n - 1, A) /\ n - 1 \in Nat /\ n # 0
  <2>0. x \in S /\ A = S \ {x} BY <1>3 DEF Loses
  <2>1. Counted(n - 1, S \ {x}) BY <1>1, <2>0, FS_RemoveElement DEF Counted
  <2>2. Cardinality(S \ {x}) \in Nat BY <2>1, FS_CardinalityType DEF Counted
  <2> QED BY <1>1, <2>0, <2>1, <2>2 DEF Counted
<1> QED BY <1>1, <1>2, <1>3

(* Nothing counts nothing.                                                 *)
LEMMA CountedNone == Counted(0, {})
BY FS_EmptySet DEF Counted

-----------------------------------------------------------------------------
(* Blocks of all levels                                                    *)

(* A pair of a level and a head.                                           *)
LEMMA OpenIs ==
  ASSUME NEW p, NEW calls, NEW n \in Nat, NEW code, NEW pc, NEW ops
  PROVE  \A x : x \in Open(p, calls, n, code, pc, ops) <=>
           \/ \E k \in 1 .. n : \E h \in Around(p[calls[k].code], calls[k].pc, ops) : x = <<k, h>>
           \/ \E h \in Around(p[code], pc, ops) : x = <<n + 1, h>>
BY DEF Open, Waiting

(* Those of the last level are those around the counter.                   *)
LEMMA OpenHere ==
  ASSUME NEW p, NEW calls, NEW n \in Nat, NEW code, NEW pc, NEW ops
  PROVE  \A h : <<n + 1, h>> \in Open(p, calls, n, code, pc, ops) <=> h \in Around(p[code], pc, ops)
<1> SUFFICES ASSUME NEW h
             PROVE  <<n + 1, h>> \in Open(p, calls, n, code, pc, ops) <=> h \in Around(p[code], pc, ops)
  OBVIOUS
<1> DEFINE x == <<n + 1, h>>
<1>1. \A k \in 1 .. n : \A g : x # <<k, g>>
  <2>1. \A k \in 1 .. n : k # n + 1 BY SMT
  <2>2. \A k, g : x = <<k, g>> => k = n + 1
    OBVIOUS
  <2> QED BY <2>1, <2>2
<1>2. \A g : x = <<n + 1, g>> => g = h
  OBVIOUS
<1>3. x \in Open(p, calls, n, code, pc, ops) <=>
           \/ \E k \in 1 .. n : \E g \in Around(p[calls[k].code], calls[k].pc, ops) : x = <<k, g>>
           \/ \E g \in Around(p[code], pc, ops) : x = <<n + 1, g>>
  BY DEF Open, Waiting
<1>4. h \in Around(p[code], pc, ops) => \E g \in Around(p[code], pc, ops) : x = <<n + 1, g>>
  OBVIOUS
<1> HIDE DEF x
<1>5. x \in Open(p, calls, n, code, pc, ops) <=> h \in Around(p[code], pc, ops)
  BY <1>1, <1>2, <1>3, <1>4
<1> QED BY <1>5 DEF x

(* No level lies above the last.                                           *)
LEMMA OpenLevels ==
  ASSUME NEW p, NEW calls, NEW n \in Nat, NEW code, NEW pc, NEW ops,
         NEW x \in Open(p, calls, n, code, pc, ops)
  PROVE  /\ x[1] \in 1 .. n + 1 /\ x = <<x[1], x[2]>>
         /\ x[1] = n + 1 => x[2] \in Around(p[code], pc, ops)
         /\ x[1] # n + 1 => /\ x[1] \in 1 .. n
                            /\ x[2] \in Around(p[calls[x[1]].code], calls[x[1]].pc, ops)
<1>1. \/ \E k \in 1 .. n : \E h \in Around(p[calls[k].code], calls[k].pc, ops) : x = <<k, h>>
      \/ \E h \in Around(p[code], pc, ops) : x = <<n + 1, h>>
  BY OpenIs
<1>2. CASE \E k \in 1 .. n : \E h \in Around(p[calls[k].code], calls[k].pc, ops) : x = <<k, h>>
  <2>1. PICK k \in 1 .. n : \E h \in Around(p[calls[k].code], calls[k].pc, ops) : x = <<k, h>>
    BY <1>2
  <2>4. PICK h \in Around(p[calls[k].code], calls[k].pc, ops) : x = <<k, h>> BY <2>1
  <2>2. x[1] = k /\ x[2] = h BY <2>4
  <2>3. k \in 1 .. n + 1 /\ k # n + 1 BY SMT
  <2> QED BY <2>2, <2>3, <2>4
<1>3. CASE \E h \in Around(p[code], pc, ops) : x = <<n + 1, h>>
  <2>1. PICK h \in Around(p[code], pc, ops) : x = <<n + 1, h>> BY <1>3
  <2>2. x[1] = n + 1 /\ x[2] = h BY <2>1
  <2>3. n + 1 \in 1 .. n + 1 BY SMT
  <2> QED BY <2>1, <2>2, <2>3
<1> QED BY <1>1, <1>2, <1>3

(* All open blocks lie below the next.                                     *)
LEMMA OpenBelow ==
  ASSUME NEW p, NEW calls, NEW n \in Nat, NEW code, NEW pc, NEW ops, Built(p[code]),
         NEW x \in Open(p, calls, n, code, pc, ops)
  PROVE  Below(x, <<n + 1, pc>>)
<1>1. x[1] \in 1 .. n + 1 /\ (x[1] = n + 1 => x[2] \in Around(p[code], pc, ops))
  BY OpenLevels
<1>2. x[1] = n + 1 => x[2] < pc BY <1>1, AroundIs
<1>3. x[1] < n + 1 \/ x[1] = n + 1 BY <1>1, SMT
<1> QED BY <1>2, <1>3 DEF Below

(* Entering a block.                                                       *)
LEMMA OpenAdd ==
  ASSUME NEW p, NEW calls, NEW n \in Nat, NEW code, NEW pc, NEW to, NEW ops, NEW h,
         Gains(Around(p[code], to, ops), Around(p[code], pc, ops), h)
  PROVE  Gains(Open(p, calls, n, code, to, ops), Open(p, calls, n, code, pc, ops), <<n + 1, h>>)
<1> DEFINE A == Around(p[code], pc, ops)
<1>1. \A B : {n + 1} \X (B \cup {h}) = ({n + 1} \X B) \cup {<<n + 1, h>>}
  OBVIOUS
<1>2. {n + 1} \X Around(p[code], to, ops) = ({n + 1} \X A) \cup {<<n + 1, h>>}
  BY <1>1 DEF Gains
<1> HIDE DEF A
<1>3. Open(p, calls, n, code, to, ops) = Open(p, calls, n, code, pc, ops) \cup {<<n + 1, h>>}
  BY <1>2 DEF Open, A
<1>4. <<n + 1, h>> \notin Open(p, calls, n, code, pc, ops) BY OpenHere DEF Gains
<1> QED BY <1>3, <1>4 DEF Gains

(* Leaving one.                                                            *)
LEMMA OpenRemove ==
  ASSUME NEW p, NEW calls, NEW n \in Nat, NEW code, NEW pc, NEW to, NEW ops, NEW h,
         Loses(Around(p[code], to, ops), Around(p[code], pc, ops), h)
  PROVE  Loses(Open(p, calls, n, code, to, ops), Open(p, calls, n, code, pc, ops), <<n + 1, h>>)
<1>1. <<n + 1, h>> \notin Waiting(p, calls, n, ops)
  <2>1. \A k \in 1 .. n : k # n + 1 BY SMT
  <2> QED BY <2>1 DEF Waiting
<1>2. <<n + 1, h>> \in Open(p, calls, n, code, pc, ops) BY OpenHere DEF Loses
<1> QED BY <1>1, <1>2 DEF Open, Loses

(* A call leaves the blocks around it standing.                            *)
LEMMA OpenCall ==
  ASSUME NEW p, NEW calls, NEW n \in Nat, NEW ops, NEW deeper,
         \A k \in 1 .. n : deeper[k] = calls[k],
         NEW code2, NEW pc2, Around(p[code2], pc2, ops) = {}
  PROVE  Open(p, deeper, n + 1, code2, pc2, ops)
           = Open(p, calls, n, deeper[n + 1].code, deeper[n + 1].pc, ops)
<1> DEFINE code == deeper[n + 1].code
           pc == deeper[n + 1].pc
<1>1. \A k : k \in 1 .. n + 1 <=> k \in 1 .. n \/ k = n + 1 BY SMT
<1>2. n + 1 \in Nat BY SMT
<1>3. \A x : x \in Open(p, deeper, n + 1, code2, pc2, ops) <=>
         \E k \in 1 .. n + 1 : \E h \in Around(p[deeper[k].code], deeper[k].pc, ops) : x = <<k, h>>
  BY DEF Open, Waiting
<1>4. \A x : x \in Open(p, calls, n, code, pc, ops) <=>
           \/ \E k \in 1 .. n : \E h \in Around(p[calls[k].code], calls[k].pc, ops) : x = <<k, h>>
           \/ \E h \in Around(p[code], pc, ops) : x = <<n + 1, h>>
  BY DEF Open, Waiting
<1>5. \A x : x \in Open(p, deeper, n + 1, code2, pc2, ops) <=> x \in Open(p, calls, n, code, pc, ops)
  <2> SUFFICES ASSUME NEW x
               PROVE  x \in Open(p, deeper, n + 1, code2, pc2, ops) <=> x \in Open(p, calls, n, code, pc, ops)
    OBVIOUS
  <2>1. (\E k \in 1 .. n + 1 : \E h \in Around(p[deeper[k].code], deeper[k].pc, ops) : x = <<k, h>>)
         <=> \/ \E k \in 1 .. n : \E h \in Around(p[calls[k].code], calls[k].pc, ops) : x = <<k, h>>
             \/ \E h \in Around(p[code], pc, ops) : x = <<n + 1, h>>
    BY <1>1
  <2> QED BY <1>3, <1>4, <2>1
<1> QED BY <1>5

(* Only the calls up to the level count.                                   *)
LEMMA OpenPrefix ==
  ASSUME NEW p, NEW calls, NEW other, NEW n, \A k \in 1 .. n : other[k] = calls[k]
  PROVE  \A code, pc, ops : Open(p, other, n, code, pc, ops) = Open(p, calls, n, code, pc, ops)
BY DEF Open, Waiting
-----------------------------------------------------------------------------
(* Speculations                                                            *)

(* The stack stays where the open speculations do.                         *)
LEMMA SpeculatedOpen ==
  ASSUME NEW p, NEW calls, NEW n, NEW code, NEW pc, NEW stack,
         Speculated(p, calls, n, code, pc, stack),
         NEW calls2, NEW n2, NEW code2, NEW pc2,
         Open(p, calls2, n2, code2, pc2, Speculates) = Open(p, calls, n, code, pc, Speculates),
         \A i \in DOMAIN stack : Matches(p, calls2, n2, code2, stack[i])
  PROVE  Speculated(p, calls2, n2, code2, pc2, stack)
BY DEF Speculated

(* Elsewhere in the same blocks.                                           *)
LEMMA SpeculatedSame ==
  ASSUME NEW p, NEW calls, NEW n, NEW code, NEW pc, NEW stack,
         Speculated(p, calls, n, code, pc, stack), NEW to,
         Around(p[code], to, Speculates) = Around(p[code], pc, Speculates)
  PROVE  Speculated(p, calls, n, code, to, stack)
BY DEF Speculated, Open

(* The marks are those of the stack.                                       *)
LEMMA MarksAre ==
  ASSUME NEW p, NEW calls, NEW n, NEW code, NEW pc, NEW stack,
         Speculated(p, calls, n, code, pc, stack)
  PROVE  /\ \A i \in DOMAIN stack : Mark(stack[i]) \in Open(p, calls, n, code, pc, Speculates)
         /\ \A x \in Open(p, calls, n, code, pc, Speculates) : \E i \in DOMAIN stack : Mark(stack[i]) = x
BY DEF Speculated

(* The blocks of a level match whatever agrees with the calls.             *)
LEMMA MatchesPrefix ==
  ASSUME NEW p, NEW calls, NEW other, NEW n \in Nat, NEW code, NEW c, Sized(c),
         \A k \in 1 .. n : other[k] = calls[k], Matches(p, calls, n, code, c)
  PROVE  Matches(p, other, n, code, c)
<1> DEFINE m == Len(c.start.calls)
<1>1. /\ m <= n /\ \A k \in 1 .. m : calls[k] = c.start.calls[k]
      /\ c.start.code = IF m = n THEN code ELSE calls[m + 1].code
      /\ c.fallback = p[c.start.code][c.start.pc - 1].fallback
  BY DEF Matches
<1>2. m \in Nat BY DEF Sized
<1> HIDE DEF m
<1>3. (\A k \in 1 .. m : k \in 1 .. n) /\ (m # n => m + 1 \in 1 .. n) BY <1>1, <1>2, SMT
<1>4. \A k \in 1 .. m : other[k] = c.start.calls[k] BY <1>1, <1>3
<1>5. c.start.code = IF m = n THEN code ELSE other[m + 1].code BY <1>1, <1>3
<1> QED BY <1>1, <1>4, <1>5 DEF Matches, m

(* The speculations of a level stay whatever agrees with the calls.        *)
LEMMA SpeculatedPrefix ==
  ASSUME NEW p, NEW calls, NEW other, NEW n \in Nat, NEW code, NEW pc, NEW stack,
         Measured(stack),
         \A k \in 1 .. n : other[k] = calls[k], Speculated(p, calls, n, code, pc, stack)
  PROVE  Speculated(p, other, n, code, pc, stack)
<1>1. Open(p, other, n, code, pc, Speculates) = Open(p, calls, n, code, pc, Speculates)
  BY OpenPrefix
<1>2. \A i \in DOMAIN stack : Matches(p, other, n, code, stack[i])
  BY MatchesPrefix DEF Speculated, Measured
<1> QED BY <1>1, <1>2, SpeculatedOpen

(* A speculation begins: its mark is above all others.                     *)
LEMMA SpeculatedPush ==
  ASSUME NEW p, NEW calls, NEW n \in Nat, NEW code, NEW pc, NEW stack, IsSeq(stack),
         Measured(stack),
         Speculated(p, calls, n, code, pc, stack),
         Built(p[code]), pc \in DOMAIN p[code], p[code][pc].op = "speculate",
         NEW c, Begun(p, calls, n, code, pc, c)
  PROVE  Speculated(p, calls, n, code, pc + 1, Append(stack, c))
<1> DEFINE O == Open(p, calls, n, code, pc, Speculates)
           Q == Open(p, calls, n, code, pc + 1, Speculates)
           new == Append(stack, c)
<1>1. /\ DOMAIN new = 1 .. Len(stack) + 1 /\ new[Len(stack) + 1] = c /\ Len(stack) \in Nat
      /\ \A i \in DOMAIN new : i = Len(stack) + 1 \/ (i \in DOMAIN stack /\ new[i] = stack[i])
  BY AppendIs
<1>2. Len(new) = Len(stack) + 1 BY SMT DEF IsSeq
<1>3. pc \in Int /\ pc + 1 - 1 = pc
  <2>1. pc \in Int BY EndIs
  <2> QED BY <2>1, SMT
<1>4. p[code][pc].op \in Begins BY OpsAre
<1>5. Gains(Around(p[code], pc + 1, Speculates), Around(p[code], pc, Speculates), pc)
  <2>1. \A ops : /\ pc \notin Around(p[code], pc, ops)
                /\ Around(p[code], pc + 1, ops) =
                     IF p[code][pc].op \in ops THEN Around(p[code], pc, ops) \cup {pc}
                     ELSE Around(p[code], pc, ops)
    BY <1>4, PastBegin
  <2>2. p[code][pc].op \in Speculates BY DEF Speculates
  <2> QED BY <2>1, <2>2 DEF Gains
<1>6. Gains(Q, O, <<n + 1, pc>>) /\ <<n + 1, pc>> \notin O /\ Q = O \cup {<<n + 1, pc>>}
  <2>1. Gains(Q, O, <<n + 1, pc>>) BY <1>5, OpenAdd
  <2> QED BY <2>1 DEF Gains
<1>7. Mark(c) = <<n + 1, pc>> BY <1>3 DEF Mark, Begun
<1> HIDE DEF O, Q, new
<1>8. \A x \in O : Below(x, <<n + 1, pc>>) BY OpenBelow DEF O
<1>9. Counted(Len(new), Q)
  <2>1. Counted(Len(stack), O) BY DEF Speculated, O
  <2>2. Counted(Len(stack) + 1, Q) BY <1>6, <2>1, CountedIs
  <2> QED BY <1>2, <2>2
<1>10. \A i \in DOMAIN stack : i \in DOMAIN new /\ i # Len(stack) + 1 /\ new[i] = stack[i]
  <2>1. DOMAIN stack = 1 .. Len(stack) BY SMT DEF IsSeq
  <2>2. \A i \in DOMAIN stack : i \in 1 .. Len(stack) + 1 /\ i # Len(stack) + 1
    BY <1>1, <2>1, SMT
  <2> QED BY <1>1, <2>2
<1>11. Len(stack) + 1 \in DOMAIN new BY <1>1, SMT
<1>12. {Mark(new[i]) : i \in DOMAIN new} = Q
  <2>1. \A i \in DOMAIN new : Mark(new[i]) \in Q BY <1>1, <1>6, <1>7, MarksAre DEF O
  <2>2. \A x \in Q : \E i \in DOMAIN new : Mark(new[i]) = x
    BY <1>1, <1>6, <1>7, <1>10, <1>11, MarksAre DEF O
  <2> QED BY <2>1, <2>2
<1>13. \A i, j \in DOMAIN new : i < j => Below(Mark(new[i]), Mark(new[j]))
  <2> SUFFICES ASSUME NEW i \in DOMAIN new, NEW j \in DOMAIN new, i < j
               PROVE  Below(Mark(new[i]), Mark(new[j]))
    OBVIOUS
  <2>1. i # Len(stack) + 1 BY <1>1, SMT
  <2>2. i \in DOMAIN stack /\ new[i] = stack[i] BY <1>1, <2>1
  <2>3. CASE j = Len(stack) + 1
    <3>1. Mark(new[i]) \in O BY <2>2, MarksAre DEF O
    <3> QED BY <1>1, <1>7, <1>8, <2>3, <3>1
  <2>4. CASE j # Len(stack) + 1 BY <1>1, <2>2, <2>4 DEF Speculated
  <2> QED BY <2>3, <2>4
<1>14. Matches(p, calls, n, code, c) BY <1>3, SMT DEF Matches, Begun
<1>15. \A i \in DOMAIN new : Matches(p, calls, n, code, new[i])
  BY <1>1, <1>14 DEF Speculated
<1> QED BY <1>9, <1>12, <1>13, <1>15 DEF Speculated, Q, new

(* The speculation that is innermost at this level is on top.              *)
LEMMA SpeculatedTop ==
  ASSUME NEW p, NEW calls, NEW n \in Nat, NEW code, NEW pc, NEW stack, IsSeq(stack),
         Measured(stack),
         Speculated(p, calls, n, code, pc, stack), Built(p[code]),
         NEW h, Highest(h, Around(p[code], pc, Speculates))
  PROVE  OnTopIs(p, calls, n, code, h, stack)
<1> DEFINE O == Open(p, calls, n, code, pc, Speculates)
<1>0. /\ h \in Around(p[code], pc, Speculates)
      /\ \A k \in Around(p[code], pc, Speculates) : k <= h
  BY DEF Highest
<1>1. <<n + 1, h>> \in O BY <1>0, OpenHere
<1>2. PICK i \in DOMAIN stack : Mark(stack[i]) = <<n + 1, h>> BY <1>1, MarksAre
<1>3. stack # <<>> BY <1>2
<1>4. Len(stack) \in DOMAIN stack /\ Last(stack) = stack[Len(stack)] BY <1>3, FrontIs
<1>5. i = Len(stack)
  <2> SUFFICES ASSUME i # Len(stack) PROVE FALSE
    OBVIOUS
  <2>1. i < Len(stack) BY SMT DEF IsSeq
  <2> DEFINE x == Mark(stack[Len(stack)])
  <2>2. Below(<<n + 1, h>>, x) BY <1>2, <1>4, <2>1 DEF Speculated
  <2>3. x \in O BY <1>4, MarksAre
  <2> HIDE DEF x
  <2>4. x[1] \in 1 .. n + 1 /\ (x[1] = n + 1 => x[2] \in Around(p[code], pc, Speculates))
    BY <2>3, OpenLevels
  <2>5. n + 1 < x[1] \/ (n + 1 = x[1] /\ h < x[2]) BY <2>2 DEF Below
  <2>6. x[1] = n + 1 /\ h < x[2] /\ x[2] <= h /\ x[2] \in Around(p[code], pc, Speculates)
    <3>1. ~(n + 1 < x[1]) BY <2>4, SMT
    <3> QED BY <1>0, <2>4, <2>5, <3>1
  <2>7. x[2] \in Int /\ h \in Int BY <1>0, <2>6, AroundIs, EndIs
  <2> QED BY <2>6, <2>7, SMT
<1> DEFINE c == Last(stack)
           m == Len(c.start.calls)
           q == c.start.pc
<1>6. Mark(c) = <<n + 1, h>> /\ Matches(p, calls, n, code, c) /\ m \in Nat /\ q \in Int
  BY <1>2, <1>4, <1>5 DEF Speculated, Sized, Measured
<1>7. m + 1 = n + 1 /\ q - 1 = h BY <1>6 DEF Mark
<1>8. m = n /\ q = h + 1
  <2> HIDE DEF m, q
  <2> QED BY <1>6, <1>7, SMT
<1>9. /\ \A k \in 1 .. n : calls[k] = c.start.calls[k]
      /\ c.start.code = code /\ c.fallback = p[code][h].fallback
  BY <1>6, <1>7, <1>8 DEF Matches
<1>10. Begun(p, calls, n, code, h, c) BY <1>8, <1>9 DEF Begun
<1> QED BY <1>3, <1>4, <1>6, <1>10 DEF OnTopIs

(* It ends: the others are those that are left.                            *)
LEMMA SpeculatedPop ==
  ASSUME NEW p, NEW calls, NEW n \in Nat, NEW code, NEW pc, NEW stack, IsSeq(stack),
         Measured(stack),
         Speculated(p, calls, n, code, pc, stack), Built(p[code]),
         NEW h, Highest(h, Around(p[code], pc, Speculates)),
         NEW to, Loses(Around(p[code], to, Speculates), Around(p[code], pc, Speculates), h)
  PROVE  Speculated(p, calls, n, code, to, Front(stack))
<1>0. /\ stack # <<>> /\ Len(stack) \in DOMAIN stack /\ Last(stack) = stack[Len(stack)]
      /\ Mark(Last(stack)) = <<n + 1, h>>
  <2>1. OnTopIs(p, calls, n, code, h, stack) BY SpeculatedTop
  <2> QED BY <2>1 DEF OnTopIs
<1> DEFINE O == Open(p, calls, n, code, pc, Speculates)
           Q == Open(p, calls, n, code, to, Speculates)
           rest == Front(stack)
           x == <<n + 1, h>>
<1>1. Loses(Q, O, x) /\ Q = O \ {x} /\ x \in O
  <2>1. Loses(Q, O, x) BY OpenRemove
  <2> QED BY <2>1 DEF Loses
<1>2. stack # <<>> /\ Len(stack) \in DOMAIN stack /\ Mark(stack[Len(stack)]) = x BY <1>0
<1>3. \A i \in DOMAIN rest : i \in DOMAIN stack /\ rest[i] = stack[i] BY <1>2, FrontIs
<1>4. /\ DOMAIN rest = 1 .. Len(stack) - 1 /\ Len(rest) = Len(stack) - 1
      /\ DOMAIN stack = 1 .. Len(stack) /\ Len(stack) \in Nat \ {0}
  <2>1. PICK S : stack \in Seq(S) BY DEF IsSeq
  <2>2. DOMAIN stack = 1 .. Len(stack) /\ Len(stack) \in Nat \ {0} BY <1>2, <2>1, SMT
  <2>3. SubSeq(stack, 1, Len(stack) - 1) \in Seq(S) /\ Len(SubSeq(stack, 1, Len(stack) - 1)) = Len(stack) - 1
    BY <2>1, <2>2, SMT
  <2>4. DOMAIN SubSeq(stack, 1, Len(stack) - 1) = 1 .. Len(stack) - 1 BY <2>3, SMT
  <2> QED BY <2>2, <2>3, <2>4 DEF Front
<1>5. \A i \in DOMAIN stack : i = Len(stack) \/ i \in DOMAIN rest BY <1>4, SMT
<1>6. \A i \in DOMAIN rest : i < Len(stack) BY <1>4, SMT
<1> HIDE DEF O, Q, rest, x
<1>7. Counted(Len(rest), Q)
  <2>1. Counted(Len(stack), O) BY DEF Speculated, O
  <2> QED BY <1>1, <1>4, <2>1, CountedIs
<1>8. \A i \in DOMAIN rest : Mark(rest[i]) # x
  <2> SUFFICES ASSUME NEW i \in DOMAIN rest, Mark(rest[i]) = x PROVE FALSE
    OBVIOUS
  <2>1. Below(x, x) BY <1>2, <1>3, <1>6 DEF Speculated
  <2>2. h \in Int BY AroundIs, EndIs DEF Highest
  <2>3. x[1] = n + 1 /\ x[2] = h BY DEF x
  <2> QED BY <2>1, <2>2, <2>3, SMT DEF Below
<1>9. {Mark(rest[i]) : i \in DOMAIN rest} = Q
  <2>1. \A i \in DOMAIN rest : Mark(rest[i]) \in Q BY <1>1, <1>3, <1>8, MarksAre DEF O
  <2>2. \A y \in Q : \E i \in DOMAIN rest : Mark(rest[i]) = y
    BY <1>1, <1>2, <1>3, <1>5, MarksAre DEF O
  <2> QED BY <2>1, <2>2
<1>10. \A i, j \in DOMAIN rest : i < j => Below(Mark(rest[i]), Mark(rest[j]))
  BY <1>3 DEF Speculated
<1>11. \A i \in DOMAIN rest : Matches(p, calls, n, code, rest[i]) BY <1>3 DEF Speculated
<1> QED BY <1>7, <1>9, <1>10, <1>11 DEF Speculated, Q, rest

(* A call takes them along.                                                *)
LEMMA SpeculatedCall ==
  ASSUME NEW p, NEW calls, NEW n \in Nat, NEW code, NEW pc, NEW stack,
         Measured(stack),
         Speculated(p, calls, n, code, pc, stack),
         NEW deeper, \A k \in 1 .. n : deeper[k] = calls[k],
         deeper[n + 1].code = code, deeper[n + 1].pc = pc,
         NEW code2, NEW pc2, Around(p[code2], pc2, Speculates) = {}
  PROVE  Speculated(p, deeper, n + 1, code2, pc2, stack)
<1>1. Open(p, deeper, n + 1, code2, pc2, Speculates) = Open(p, calls, n, code, pc, Speculates)
  <2>1. Open(p, deeper, n + 1, code2, pc2, Speculates)
          = Open(p, calls, n, deeper[n + 1].code, deeper[n + 1].pc, Speculates)
    BY OpenCall
  <2> QED BY <2>1
<1>2. ASSUME NEW i \in DOMAIN stack PROVE Matches(p, deeper, n + 1, code2, stack[i])
  <2> DEFINE c == stack[i]
             m == Len(c.start.calls)
  <2>1. Matches(p, calls, n, code, c) /\ Sized(c) BY <1>2 DEF Speculated, Measured
  <2>2. /\ m \in Nat /\ m <= n /\ \A k \in 1 .. m : calls[k] = c.start.calls[k]
        /\ c.start.code = IF m = n THEN code ELSE calls[m + 1].code
        /\ c.fallback = p[c.start.code][c.start.pc - 1].fallback
    BY <2>1 DEF Matches, Sized
  <2> HIDE DEF m, c
  <2>3. /\ m <= n + 1 /\ m # n + 1 /\ (m # n => m + 1 \in 1 .. n)
        /\ \A k \in 1 .. m : k \in 1 .. n
    BY <2>2, SMT
  <2>4. c.start.code = deeper[m + 1].code BY <2>2, <2>3
  <2>5. \A k \in 1 .. m : deeper[k] = c.start.calls[k] BY <2>2, <2>3
  <2> QED BY <2>2, <2>3, <2>4, <2>5 DEF Matches, m, c
<1> QED BY <1>1, <1>2, SpeculatedOpen

(* A return from outside all of its own leaves those of its caller.        *)
LEMMA SpeculatedReturn ==
  ASSUME NEW p, NEW deeper, NEW n \in Nat, NEW code2, NEW pc2, NEW stack,
         Measured(stack),
         Speculated(p, deeper, n + 1, code2, pc2, stack),
         Around(p[code2], pc2, Speculates) = {},
         NEW calls, \A k \in 1 .. n : deeper[k] = calls[k]
  PROVE  Speculated(p, calls, n, deeper[n + 1].code, deeper[n + 1].pc, stack)
<1> DEFINE code == deeper[n + 1].code
           pc == deeper[n + 1].pc
<1>1. Open(p, deeper, n + 1, code2, pc2, Speculates) = Open(p, calls, n, code, pc, Speculates)
  <2>1. Open(p, deeper, n + 1, code2, pc2, Speculates)
          = Open(p, calls, n, deeper[n + 1].code, deeper[n + 1].pc, Speculates)
    BY OpenCall
  <2> QED BY <2>1
<1>2. ASSUME NEW i \in DOMAIN stack PROVE Matches(p, calls, n, code, stack[i])
  <2> DEFINE c == stack[i]
             m == Len(c.start.calls)
  <2>1. Matches(p, deeper, n + 1, code2, c) /\ Sized(c) BY <1>2 DEF Speculated, Measured
  <2>2. /\ m \in Nat /\ m <= n + 1 /\ \A k \in 1 .. m : deeper[k] = c.start.calls[k]
        /\ c.start.code = IF m = n + 1 THEN code2 ELSE deeper[m + 1].code
        /\ c.fallback = p[c.start.code][c.start.pc - 1].fallback
    BY <2>1 DEF Matches, Sized
  <2>3. Mark(c) \in Open(p, calls, n, code, pc, Speculates) BY <1>1, <1>2, MarksAre
  <2>4. Mark(c)[1] \in 1 .. n + 1 BY <2>3, OpenLevels
  <2>5. m + 1 \in 1 .. n + 1 BY <2>4 DEF Mark
  <2> HIDE DEF m, c
  <2>6. /\ m <= n /\ m # n + 1 /\ (m # n => m + 1 \in 1 .. n)
        /\ \A k \in 1 .. m : k \in 1 .. n
    BY <2>2, <2>5, SMT
  <2>7. c.start.code = IF m = n THEN code ELSE calls[m + 1].code BY <2>2, <2>6
  <2>8. \A k \in 1 .. m : calls[k] = c.start.calls[k] BY <2>2, <2>6
  <2> QED BY <2>2, <2>6, <2>7, <2>8 DEF Matches, m, c
<1> QED BY <1>1, <1>2, SpeculatedOpen

(* A commit marks the innermost.                                           *)
LEMMA SpeculatedCommit ==
  ASSUME NEW p, NEW calls, NEW n, NEW code, NEW pc, NEW stack,
         Speculated(p, calls, n, code, pc, stack),
         NEW new, DOMAIN new = DOMAIN stack, Len(new) = Len(stack),
         \A i \in DOMAIN stack : new[i].start = stack[i].start /\ new[i].fallback = stack[i].fallback
  PROVE  Speculated(p, calls, n, code, pc, new)
<1>1. \A i \in DOMAIN stack : Mark(new[i]) = Mark(stack[i]) BY DEF Mark
<1>2. {Mark(new[i]) : i \in DOMAIN new} = {Mark(stack[i]) : i \in DOMAIN stack} BY <1>1
<1>3. ASSUME NEW i \in DOMAIN new PROVE Matches(p, calls, n, code, new[i])
  <2>1. Matches(p, calls, n, code, stack[i]) BY DEF Speculated
  <2>2. new[i].start = stack[i].start /\ new[i].fallback = stack[i].fallback
    OBVIOUS
  <2> QED BY <2>1, <2>2 DEF Matches
<1> QED BY <1>1, <1>2, <1>3 DEF Speculated
-----------------------------------------------------------------------------
(* From one instruction to the next                                        *)

(* The counter is at the start of a statement, but for the jumps of a for. *)
LEMMA CalmLands ==
  ASSUME NEW c, Built(c), NEW pc \in DOMAIN c, c[pc].op \notin {"jump", "jumpIfNot"}
  PROVE  Lands(c, pc)
<1>1. pc \in Int /\ (pc - 1) + 1 = pc
  <2>1. pc \in Int BY EndIs
  <2> QED BY <2>1, SMT
<1>2. \A k \in DOMAIN c : c[k].op = "for" => At(c, k + 1, {"jumpIfNot"})
  BY DEF Built, Jumps
<1>3. \A k \in DOMAIN c : c[k].op = "endFor" => At(c, k + 1, {"jump"})
  BY DEF Built, Jumps
<1>4. ASSUME pc - 1 \in DOMAIN c, c[pc - 1].op \in {"for", "endFor"} PROVE FALSE
  <2>1. At(c, (pc - 1) + 1, {"jumpIfNot"}) \/ At(c, (pc - 1) + 1, {"jump"})
    BY <1>2, <1>3, <1>4
  <2>2. c[pc].op \in {"jumpIfNot"} \/ c[pc].op \in {"jump"} BY <1>1, <2>1 DEF At
  <2> QED BY <2>2
<1> QED BY <1>4 DEF Lands, At

(* What follows an instruction that is no part of a for.                   *)
LEMMA NextLands ==
  ASSUME NEW c, Built(c), NEW pc \in DOMAIN c, c[pc].op \notin {"for", "endFor"}
  PROVE  Lands(c, pc + 1)
<1>1. (pc + 1) - 1 = pc
  <2>1. pc \in Int BY EndIs
  <2> QED BY <2>1, SMT
<1> QED BY <1>1 DEF Lands, At

(* A routine begins outside all its blocks.                                *)
LEMMA FirstIs ==
  ASSUME NEW c, Built(c)
  PROVE  Lands(c, 1) /\ \A ops : Around(c, 1, ops) = {}
<1>1. DOMAIN c = 1 .. Len(c) /\ Len(c) \in Nat BY EndIs
<1>2. 1 - 1 \notin DOMAIN c BY <1>1, SMT
<1>3. Lands(c, 1) BY <1>2 DEF Lands, At
<1>4. ASSUME NEW ops, NEW h \in Around(c, 1, ops) PROVE FALSE
  <2>1. h \in 1 .. Len(c) /\ h < 1 BY <1>4, AroundIs
  <2> QED BY <1>1, <2>1, SMT
<1> QED BY <1>3, <1>4

(* Going on.                                                               *)
LEMMA PlainSame ==
  ASSUME NEW c, Built(c), NEW pc \in DOMAIN c, Plain(c[pc].op)
  PROVE  SameBlocks(c, pc + 1, pc)
<1>1. c[pc].op \notin Begins /\ c[pc].op \notin EndOps BY DEF Plain
<1>2. c[pc].op \notin {"for", "endFor"} BY <1>1, OpsAre
<1>3. \A ops : Around(c, pc + 1, ops) = Around(c, pc, ops) BY <1>1, PastPlain
<1> QED BY <1>2, <1>3, NextLands DEF SameBlocks

(* Past the beginning of a block.                                          *)
LEMMA BeginSame ==
  ASSUME NEW c, Built(c), NEW pc \in DOMAIN c, c[pc].op \in Begins
  PROVE  /\ c[pc].op # "for" => Lands(c, pc + 1)
         /\ \A ops : IF c[pc].op \in ops THEN Gains(Around(c, pc + 1, ops), Around(c, pc, ops), pc)
                     ELSE Around(c, pc + 1, ops) = Around(c, pc, ops)
<1>1. c[pc].op # "endFor" BY OpsAre
<1>2. c[pc].op # "for" => Lands(c, pc + 1) BY <1>1, NextLands
<1> QED BY <1>2, PastBegin DEF Gains

(* Past the end of one.                                                    *)
LEMMA EndSame ==
  ASSUME NEW c, Built(c), NEW pc \in DOMAIN c, c[pc].op \in EndOps
  PROVE  /\ pc \in Ends(c) /\ <<c[c[pc].head].op, c[pc].op>> \in BeginEnd
         /\ c[pc].op # "endFor" => Lands(c, pc + 1)
         /\ \A ops : IF c[c[pc].head].op \in ops
                     THEN /\ Loses(Around(c, pc + 1, ops), Around(c, pc, ops), c[pc].head)
                          /\ Highest(c[pc].head, Around(c, pc, ops))
                     ELSE Around(c, pc + 1, ops) = Around(c, pc, ops)
<1>1. pc \in Ends(c) /\ <<c[c[pc].head].op, c[pc].op>> \in BeginEnd BY EndIs
<1>2. c[pc].op # "for" BY OpsAre
<1>3. c[pc].op # "endFor" => Lands(c, pc + 1) BY <1>2, NextLands
<1>4. \A ops :
           /\ Around(c, pc + 1, ops) = Around(c, pc, ops) \ {c[pc].head}
           /\ c[pc].head \in Around(c, pc, ops) <=> c[c[pc].head].op \in ops
           /\ \A k \in Around(c, pc, ops) : k <= c[pc].head
  BY <1>1, PastEnd
<1>5. ASSUME NEW ops
      PROVE  IF c[c[pc].head].op \in ops
             THEN /\ Loses(Around(c, pc + 1, ops), Around(c, pc, ops), c[pc].head)
                  /\ Highest(c[pc].head, Around(c, pc, ops))
             ELSE Around(c, pc + 1, ops) = Around(c, pc, ops)
  <2>1. /\ Around(c, pc + 1, ops) = Around(c, pc, ops) \ {c[pc].head}
        /\ c[pc].head \in Around(c, pc, ops) <=> c[c[pc].head].op \in ops
        /\ \A k \in Around(c, pc, ops) : k <= c[pc].head
    BY <1>4
  <2>2. CASE c[c[pc].head].op \in ops BY <2>1, <2>2 DEF Loses, Highest
  <2>3. CASE c[c[pc].head].op \notin ops BY <2>1, <2>3
  <2> QED BY <2>2, <2>3
<1> QED BY <1>1, <1>3, <1>5

(* A jump from the start of a statement stays in its blocks.               *)
LEMMA TargetSame ==
  ASSUME NEW c, Built(c), NEW pc \in DOMAIN c, Lands(c, pc), NEW to \in Targets(c[pc])
  PROVE  SameBlocks(c, to, pc)
<1>1. ~At(c, pc - 1, {"for"}) BY DEF Lands, At
<1>2. Lands(c, to) /\ Within(c, to) = Within(c, pc) BY <1>1 DEF Built, Jumps
<1> QED BY <1>2 DEF SameBlocks, Around

(* A lease is none of the blocks that have a stack.                        *)
LEMMA LeaseSame ==
  ASSUME NEW c, Built(c), NEW pc \in DOMAIN c, c[pc].op \in {"lease", "endLease"}
  PROVE  SameBlocks(c, pc + 1, pc)
<1>1. CASE c[pc].op = "lease"
  <2>1. c[pc].op \in Begins /\ c[pc].op # "for" BY <1>1, OpsAre
  <2>2. c[pc].op \notin Limited /\ c[pc].op \notin Iterates /\ c[pc].op \notin Speculates /\ c[pc].op \notin Isolates
    BY <1>1 DEF Limited, Iterates, Speculates, Isolates
  <2> QED BY <2>1, <2>2, BeginSame DEF SameBlocks
<1>2. CASE c[pc].op = "endLease"
  <2>1. c[pc].op \in EndOps /\ c[pc].op # "endFor" BY <1>2, OpsAre
  <2>2. <<c[c[pc].head].op, c[pc].op>> \in BeginEnd BY <2>1, EndSame
  <2>3. c[c[pc].head].op = "lease" BY <1>2, <2>2, OpsAre
  <2>4. /\ c[c[pc].head].op \notin Limited /\ c[c[pc].head].op \notin Iterates
        /\ c[c[pc].head].op \notin Speculates /\ c[c[pc].head].op \notin Isolates
    BY <2>3 DEF Limited, Iterates, Speculates, Isolates
  <2> QED BY <2>1, <2>4, EndSame DEF SameBlocks
<1> QED BY <1>1, <1>2

-----------------------------------------------------------------------------
(* Timelines at the start of a statement                                   *)

(* The start of a statement is a special case.                             *)
LEMMA FineStacked ==
  ASSUME NEW p, NEW t, NEW stack, Fine(p, t, stack)
  PROVE  Stacked(p, t, stack)
<1>1. Lands(p[t.code], t.pc) /\ Heads(t.flat) = Around(p[t.code], t.pc, Iterates)
  BY DEF Fine, HeldHere, Held
<1>2. ~At(p[t.code], t.pc - 1, {"for"}) /\ ~At(p[t.code], t.pc - 1, {"endFor"})
  BY <1>1 DEF Lands, At
<1>3. Heads(t.flat) \in Fors(p[t.code], t.pc, t.regs.more) BY <1>1, <1>2 DEF Fors
<1> QED BY <1>3 DEF Fine, HeldHere, Held, Stacked, Current

(* Away from the steps of a for loop there is no other.                    *)
LEMMA StackedFine ==
  ASSUME NEW p, NEW t, NEW stack, Stacked(p, t, stack),
         Lands(p[t.code], t.pc), ~At(p[t.code], t.pc, {"for"})
  PROVE  Fine(p, t, stack)
<1>2. ~At(p[t.code], t.pc - 1, {"for"}) /\ ~At(p[t.code], t.pc - 1, {"endFor"})
  BY DEF Lands, At
<1>3. Heads(t.flat) = Around(p[t.code], t.pc, Iterates)
  BY <1>2 DEF Fors, Stacked, Current
<1> QED BY <1>3 DEF Fine, HeldHere, Held, Stacked, Current

(* No other where anything but a jump or a for runs.                       *)
LEMMA CalmFine ==
  ASSUME NEW p, NEW t, NEW stack, Stacked(p, t, stack),
         Built(p[t.code]), t.pc \in DOMAIN p[t.code], Calm(p[t.code][t.pc].op)
  PROVE  Fine(p, t, stack)
<1>1. Lands(p[t.code], t.pc) BY CalmLands DEF Calm
<1>2. ~At(p[t.code], t.pc, {"for"}) BY DEF Calm, At
<1> QED BY <1>1, <1>2, StackedFine

(* Elsewhere in the same blocks with the same stacks.                      *)
LEMMA FineMoves ==
  ASSUME NEW p, NEW s, NEW u, NEW stack, Fine(p, s, stack), Carries(s, u),
         SameBlocks(p[s.code], u.pc, s.pc)
  PROVE  Fine(p, u, stack)
<1> DEFINE n == Len(s.calls)
<1>1. /\ u.calls = s.calls /\ u.code = s.code /\ u.loops = s.loops /\ u.flat = s.flat
      /\ u.manifests = s.manifests /\ u.anchors = s.anchors
  BY DEF Carries
<1>2. Held(p, s.calls, n, s.code, s.pc, s.loops, s.flat, s.manifests)
  BY DEF Fine, HeldHere
<1>3. Open(p, s.calls, n, s.code, u.pc, Isolates) = Open(p, s.calls, n, s.code, s.pc, Isolates)
  BY DEF Open, SameBlocks
<1>4. Held(p, s.calls, n, s.code, u.pc, s.loops, s.flat, s.manifests)
  BY <1>2, <1>3 DEF Held, Tallied, SameBlocks
<1>5. Speculated(p, s.calls, n, s.code, u.pc, stack)
  BY SpeculatedSame DEF Fine, Alongside, SameBlocks
<1> QED BY <1>1, <1>4, <1>5 DEF Fine, HeldHere, Alongside
-----------------------------------------------------------------------------
(* Steps that stay within their blocks                                     *)

(* The code that runs, and what fetching leaves alone.                     *)
LEMMA HereIs ==
  ASSUME Ready, NEW op, Executes(op)
  PROVE  /\ Built(prog[tl.code]) /\ tl.pc \in DOMAIN prog[tl.code] /\ Code(tl) = prog[tl.code]
         /\ Instr = prog[tl.code][tl.pc] /\ Instr.op = op /\ prog[tl.code][tl.pc].op = op
         /\ WellFormed(prog, Instr) /\ tl.code \in DOMAIN prog
         /\ DOMAIN Fetched = Fields /\ Fetched.pc = tl.pc + 1 /\ Carries(tl, Fetched)
         /\ Fetched.regs = tl.regs /\ Fetched.depth = tl.depth
<1>1. /\ tl.code \in DOMAIN prog /\ tl.pc \in DOMAIN Code(tl) /\ Instr.op = op
      /\ WellFormed(prog, Instr)
  BY InstrIs
<1>2. Built(prog[tl.code]) BY <1>1, BuiltIs DEF Ready
<1>3. /\ DOMAIN Fetched = Fields /\ Fetched.pc = tl.pc + 1 /\ Carries(tl, Fetched)
      /\ Fetched.regs = tl.regs /\ Fetched.depth = tl.depth
  BY DEF Ready, Typed, Fetched, Fields, Carries
<1> QED BY <1>1, <1>2, <1>3 DEF Instr, Code

(* Going on in the same blocks.                                            *)
LEMMA GoesOn ==
  ASSUME Ran, NEW op, Executes(op), Calm(op), NEW u, Carries(tl, u),
         SameBlocks(prog[tl.code], u.pc, tl.pc)
  PROVE  Fine(prog, u, speculation_stack)
<1>1. Fine(prog, tl, speculation_stack) BY HereIs, CalmFine DEF Ran
<1> QED BY <1>1, FineMoves

(* Going on to the next instruction.                                       *)
LEMMA GoesNext ==
  ASSUME Ran, NEW op, Executes(op), Calm(op), Plain(op) \/ op \in {"lease", "endLease"},
         NEW u, Carries(tl, u), u.pc = tl.pc + 1
  PROVE  Fine(prog, u, speculation_stack)
<1>1. /\ Built(prog[tl.code]) /\ tl.pc \in DOMAIN prog[tl.code]
      /\ prog[tl.code][tl.pc].op = op
  BY HereIs DEF Ran
<1>2. SameBlocks(prog[tl.code], tl.pc + 1, tl.pc) BY <1>1, PlainSame, LeaseSame
<1> QED BY <1>2, GoesOn

(* Paying changes the clock and the budget only.                           *)
LEMMA PaidCarries ==
  ASSUME NEW s, DOMAIN s = Fields, NEW ms, Paid(s, ms).err = "running",
         NEW u, u = Paid(s, ms).t
  PROVE  DOMAIN u = Fields /\ Carries(s, u) /\ u.pc = s.pc /\ u.regs = s.regs
<1>1. u = [s EXCEPT !.clock = @ + ms, !.budget = @ - ms] BY DEF Paid, Ok, Error
<1> QED BY <1>1 DEF Fields, Carries

(* Registers that are written change what a full arena puts on the clock.  *)
LEMMA WritesCarry ==
  ASSUME status' = "running", NEW x, NEW n, \E out \in Written(x, n) : Becomes(out)
  PROVE  /\ x.err = "running"
         /\ DOMAIN x.t = Fields =>
              /\ DOMAIN tl' = Fields /\ Carries(x.t, tl') /\ (tl').pc = x.t.pc
              /\ (tl').regs = x.t.regs /\ (tl').depth = x.t.depth
<1>1. PICK out \in Written(x, n) : Becomes(out)
  OBVIOUS
<1>2. out.err = "running" /\ tl' = out.t BY <1>1 DEF Becomes
<1>3. x.err = "running" BY <1>2 DEF Written
<1>4. DOMAIN x.t = Fields => DOMAIN out.t = Fields /\ \A f \in Fields \ {"clock", "unpaid"} : out.t[f] = x.t[f]
  BY <1>2, <1>3, WrittenFields
<1> QED BY <1>2, <1>3, <1>4 DEF Carries, Fields

(* Which instructions are plain.                                           *)
LEMMA PlainOps ==
  \A op \in {"other", "clone", "slice", "capability", "defer", "await", "endEpoch", "select", "anchor",
             "commit", "call", "return", "break", "rewind", "collapse", "policy", "foreign"} :
    Plain(op) /\ Calm(op)
BY OpsAre DEF Plain, Calm

(* Steps that go on after one change of the timeline.                      *)
LEMMA SimpleGoOn ==
  ASSUME Ran, status' = "running", Other \/ Clone \/ SetSaturationPolicy \/ Slice \/ Capability \/ Defer
  PROVE  Fine(prog, tl', speculation_stack)
<1> DEFINE Shape(u) == \/ u = Fetched \/ \E x : u = [Fetched EXCEPT !.slice = x]
                       \/ \E x : u = [Fetched EXCEPT !.budget = x]
                       \/ \E x : u = [Fetched EXCEPT !.uses = x]
                       \/ \E x : u = [Fetched EXCEPT !.policies = x]
                       \/ \E x : u = [Fetched EXCEPT !.regs.promise = x]
           Ops == {"other", "clone", "policy", "slice", "capability", "defer"}
<1>0. ASSUME NEW op \in Ops, Executes(op), NEW u, Shape(u),
             tl' = u \/ \E out \in Written(Ok(u), 1) : Becomes(out)
      PROVE  Fine(prog, tl', speculation_stack)
  <2>1. DOMAIN Fetched = Fields /\ Fetched.pc = tl.pc + 1 /\ Carries(tl, Fetched)
    BY <1>0, HereIs DEF Ran
  <2>2. DOMAIN u = Fields /\ Carries(tl, u) /\ u.pc = tl.pc + 1
    BY <1>0, <2>1 DEF Carries, Fields
  <2> HIDE DEF Shape
  <2>3. Ok(u).t = u BY DEF Ok
  <2>4. Carries(u, tl') /\ (tl').pc = u.pc
    <3>1. CASE tl' = u BY <3>1 DEF Carries
    <3>2. CASE \E out \in Written(Ok(u), 1) : Becomes(out)
      BY <2>2, <2>3, <3>2, WritesCarry
    <3> QED BY <1>0, <3>1, <3>2
  <2>5. Carries(tl, tl') /\ (tl').pc = tl.pc + 1 BY <2>2, <2>4 DEF Carries
  <2>6. Plain(op) /\ Calm(op) BY PlainOps
  <2> QED BY <1>0, <2>5, <2>6, GoesNext
<1> HIDE DEF Ops
<1>1. CASE Other
  <2>1. Executes("other") /\ \E out \in Written(Ok(Fetched), 1) : Becomes(out)
    BY <1>1 DEF Other, Only
  <2> QED BY <1>0, <2>1 DEF Ops
<1>2. CASE Slice
  <2>1. Executes("slice") /\ Shape(tl') BY <1>2 DEF Slice, Only, Becomes, Ok
  <2> HIDE DEF Shape
  <2> QED BY <1>0, <2>1 DEF Ops
<1>3. CASE Capability
  <2>1. Executes("capability") /\ \E n : tl' = [Fetched EXCEPT !.uses = n]
    BY <1>3 DEF Capability, Only, Becomes, Ok, Error
  <2>2. Shape(tl') BY <2>1
  <2> HIDE DEF Shape
  <2> QED BY <1>0, <2>1, <2>2 DEF Ops
<1>6. CASE Clone
  <2>1. Executes("clone") /\ \E n : tl' = [Fetched EXCEPT !.budget = n]
    BY <1>6 DEF Clone, Only, Becomes, Inserted, Ok, Error
  <2>2. Shape(tl') BY <2>1
  <2> HIDE DEF Shape
  <2> QED BY <1>0, <2>1, <2>2 DEF Ops
<1>4. CASE SetSaturationPolicy
  <2>1. Executes("policy") /\ Shape(tl')
    BY <1>4 DEF SetSaturationPolicy, Only, Becomes, Ok
  <2> HIDE DEF Shape
  <2> QED BY <1>0, <2>1 DEF Ops
<1>5. CASE Defer
  <2> DEFINE u == [Fetched EXCEPT !.regs.promise = <<[ready |-> Fetched.clock + Instr.latency,
                                                     deadline |-> Fetched.clock + Instr.ms]>>]
  <2>1. Executes("defer") /\ \E out \in Written(Ok(u), 1) : Becomes(out)
    BY <1>5 DEF Defer, Only
  <2>2. Shape(u)
    OBVIOUS
  <2> HIDE DEF Shape, u
  <2> QED BY <1>0, <2>1, <2>2 DEF Ops
<1> QED BY <1>1, <1>2, <1>3, <1>4, <1>5, <1>6

(* An answer keeps the rest.                                               *)
LEMMA AnswersCarry ==
  ASSUME NEW u, DOMAIN u = Fields, NEW v, Answers(u, v)
  PROVE  DOMAIN v = Fields /\ Carries(u, v) /\ v.pc = u.pc
BY DEF Answers, Carries, Fields

(* A step that pays, changes registers and goes on.                        *)
LEMMA PaidGoesOn ==
  ASSUME Ran, NEW op \in {"await", "endLease", "endEpoch"}, Executes(op), NEW ms,
         Paid(Fetched, ms).err = "running", NEW v, Answers(Paid(Fetched, ms).t, v), NEW w, DOMAIN v = Fields => Carries(v, w) /\ w.pc = v.pc
  PROVE  Fine(prog, w, speculation_stack)
<1> DEFINE u == Paid(Fetched, ms).t
<1>3. DOMAIN Fetched = Fields /\ Fetched.pc = tl.pc + 1 /\ Carries(tl, Fetched)
  BY HereIs DEF Ran
<1>4. DOMAIN u = Fields /\ Carries(Fetched, u) /\ u.pc = Fetched.pc
  <2>1. Paid(Fetched, ms).err = "running" /\ DOMAIN Fetched = Fields BY <1>3
  <2> QED BY <2>1, PaidCarries
<1>5. Answers(u, v)
  OBVIOUS
<1> HIDE DEF u
<1>6. DOMAIN v = Fields /\ Carries(u, v) /\ v.pc = u.pc BY <1>4, <1>5, AnswersCarry
<1>7. Carries(tl, w) /\ w.pc = tl.pc + 1 BY <1>3, <1>4, <1>6 DEF Carries
<1>8. Calm(op) /\ (Plain(op) \/ op \in {"lease", "endLease"}) BY PlainOps DEF Calm
<1> QED BY <1>7, <1>8, GoesNext

(* Steps that pay and go on.                                               *)
LEMMA PayingGoOn ==
  ASSUME Ran, status' = "running", Await \/ EndLease \/ EndPeriodicEpoch
  PROVE  Fine(prog, tl', speculation_stack)
<1>1. CASE Await
  <2> DEFINE p == Head(tl.regs.promise)
             ms == Monus(p.ready, Fetched.clock)
             waited == Paid(Fetched, ms)
             S(t) == [t EXCEPT !.regs.promise = <<>>]
             A(t) == [S(t) EXCEPT !.uses = IF @ > 0 THEN @ - 1 ELSE @]
             x1 == Then(waited, S)
             x2 == Then(waited, A)
  <2>1. /\ Executes("await")
        /\ (\E out \in Inserted(x1) : Becomes(out)) \/ (\E out \in Written(x2, 1) : Becomes(out))
    <3>1. Executes("await") /\ tl.regs.promise # <<>>
      BY <1>1 DEF Await, Only, Becomes, Error
    <3> QED BY <1>1, <3>1 DEF Await, Only
  <2>2. x1.err = "running" => waited.err = "running" /\ Answers(waited.t, x1.t)
    BY DEF Then, Ok, Answers
  <2>3. x2.err = "running" => waited.err = "running" /\ Answers(waited.t, x2.t)
    BY DEF Then, Ok, Answers
  <2> HIDE DEF x1, x2, ms
  <2>4. CASE \E out \in Inserted(x1) : Becomes(out)
    <3>1. x1.err = "running" /\ tl' = x1.t BY <2>4, InsertedIs DEF Becomes
    <3>2. Carries(tl', tl') BY DEF Carries
    <3> QED BY <2>1, <2>2, <3>1, <3>2, PaidGoesOn
  <2>5. CASE \E out \in Written(x2, 1) : Becomes(out)
    <3>1. x2.err = "running" /\ (DOMAIN x2.t = Fields => Carries(x2.t, tl') /\ (tl').pc = x2.t.pc)
      BY <2>5, WritesCarry
    <3> QED BY <2>1, <2>3, <3>1, PaidGoesOn
  <2> QED BY <2>1, <2>4, <2>5
<1>2. CASE EndLease
  <2> DEFINE ms == tl.regs.lease - Fetched.clock
             waited == Paid(Fetched, ms)
             ended == Then(waited, LAMBDA t : [t EXCEPT !.regs.lease = None])
  <2>1. Executes("endLease") /\ \E out \in Written(ended, 1) : Becomes(out)
    BY <1>2 DEF EndLease, Only, Becomes, Error
  <2>2. ended.err = "running" => waited.err = "running" /\ Answers(waited.t, ended.t)
    BY DEF Then, Ok, Answers
  <2> HIDE DEF ended, ms
  <2>3. ended.err = "running" /\ (DOMAIN ended.t = Fields => Carries(ended.t, tl') /\ (tl').pc = ended.t.pc)
    BY <2>1, WritesCarry
  <2> QED BY <2>1, <2>2, <2>3, PaidGoesOn
<1>3. CASE EndPeriodicEpoch
  <2> DEFINE ms == Monus(Instr.ms, Fetched.clock)
  <2>1. Executes("endEpoch") /\ Paid(Fetched, ms).err = "running" /\ tl' = Paid(Fetched, ms).t
    BY <1>3 DEF EndPeriodicEpoch, Only, Becomes
  <2> HIDE DEF ms
  <2>2. Carries(tl', tl') /\ Answers(Paid(Fetched, ms).t, tl')
    BY <2>1 DEF Carries, Answers
  <2> QED BY <2>1, <2>2, PaidGoesOn
<1> QED BY <1>1, <1>2, <1>3

(* A foreign routine writes, pays and writes.                              *)
LEMMA ForeignGoesOn ==
  ASSUME Ran, status' = "running", Foreign
  PROVE  Fine(prog, tl', speculation_stack)
<1>1. Executes("foreign") BY DEF Foreign
<1>2. PICK back \in Written(Ok(Fetched), Instr.args) :
        LET took == IF back.err = "running" THEN Paid(back.t, Instr.ms) ELSE back
        IN \E out \in Written(took, 1) : Only(out)
  BY DEF Foreign
<1> DEFINE took == IF back.err = "running" THEN Paid(back.t, Instr.ms) ELSE back
<1>3. \E out \in Written(took, 1) : Becomes(out) BY <1>2 DEF Only
<1>4. took.err = "running" => back.err = "running" /\ took = Paid(back.t, Instr.ms)
  OBVIOUS
<1> HIDE DEF took
<1>5. took.err = "running" /\ (DOMAIN took.t = Fields => Carries(took.t, tl') /\ (tl').pc = took.t.pc)
  BY <1>3, WritesCarry
<1>6. DOMAIN Fetched = Fields /\ Fetched.pc = tl.pc + 1 /\ Carries(tl, Fetched)
  BY <1>1, HereIs DEF Ran
<1>7. Ok(Fetched).t = Fetched /\ Ok(Fetched).err = "running" BY DEF Ok
<1>8. DOMAIN back.t = Fields /\ \A f \in Fields \ {"clock", "unpaid"} : back.t[f] = Fetched[f]
  BY <1>2, <1>4, <1>5, <1>6, <1>7, WrittenFields
<1>9. DOMAIN took.t = Fields /\ Carries(back.t, took.t) /\ took.t.pc = back.t.pc
  BY <1>4, <1>5, <1>8, PaidCarries
<1>10. Carries(Fetched, back.t) /\ back.t.pc = Fetched.pc BY <1>8 DEF Carries, Fields
<1>11. Carries(tl, tl') /\ (tl').pc = tl.pc + 1 BY <1>5, <1>6, <1>9, <1>10 DEF Carries
<1>12. Plain("foreign") /\ Calm("foreign") BY PlainOps
<1> QED BY <1>1, <1>11, <1>12, GoesNext

(* A lease.                                                                *)
LEMMA LeaseGoOn ==
  ASSUME Ran, status' = "running", Lease
  PROVE  Fine(prog, tl', speculation_stack)
<1> DEFINE leased == Enter([Fetched EXCEPT !.regs.lease = Fetched.clock + Instr.ms], Instr.ms)
<1>1. Executes("lease") /\ \E out \in Written(Ok(leased), 2) : Becomes(out)
  BY DEF Lease, Only, Becomes, Error
<1>2. Ok(leased).t = leased BY DEF Ok
<1>3. DOMAIN Fetched = Fields /\ Fetched.pc = tl.pc + 1 /\ Carries(tl, Fetched)
  BY <1>1, HereIs DEF Ran
<1>4. DOMAIN leased = Fields /\ Carries(tl, leased) /\ leased.pc = tl.pc + 1
  BY <1>3 DEF Enter, Carries, Fields
<1> HIDE DEF leased
<1>5. Carries(leased, tl') /\ (tl').pc = leased.pc BY <1>1, <1>2, <1>4, WritesCarry
<1>6. Carries(tl, tl') /\ (tl').pc = tl.pc + 1 BY <1>4, <1>5 DEF Carries
<1> QED BY <1>1, <1>6, GoesNext DEF Calm

(* A select goes to a case, to its timeout or on.                          *)
LEMMA SelectGoesOn ==
  ASSUME Ran, status' = "running", Select
  PROVE  Fine(prog, tl', speculation_stack)
<1> DEFINE dest == IF Instr.timeout = None THEN tl.pc + 1 ELSE Instr.timeout
           paid == Paid(Fetched, Instr.ms)
           goes(out, to) == Only(Then(out, LAMBDA t : [t EXCEPT !.pc = to]))
<1>1. Executes("select") /\ \/ \E to \in Instr.cases : \E out \in Written(paid, 1) : goes(out, to)
                            \/ goes(paid, dest)
  BY DEF Select
<1>2. ASSUME NEW out, NEW to, goes(out, to)
      PROVE  out.err = "running" /\ tl' = [out.t EXCEPT !.pc = to]
  BY <1>2 DEF Only, Becomes, Then, Ok
<1>3. /\ DOMAIN Fetched = Fields /\ Carries(tl, Fetched) /\ Built(prog[tl.code])
      /\ tl.pc \in DOMAIN prog[tl.code] /\ Instr = prog[tl.code][tl.pc] /\ Instr.op = "select"
  BY <1>1, HereIs DEF Ran
<1>4. paid.err = "running" => DOMAIN paid.t = Fields /\ Carries(Fetched, paid.t)
  BY <1>3, PaidCarries
<1> HIDE DEF paid, goes
<1>5. PICK to \in Instr.cases \cup {dest} : Carries(tl, tl') /\ (tl').pc = to
  <2>1. CASE goes(paid, dest)
    <3>1. DOMAIN paid.t = Fields /\ Carries(Fetched, paid.t) /\ tl' = [paid.t EXCEPT !.pc = dest]
      BY <1>2, <1>4, <2>1
    <3> HIDE DEF dest
    <3>2. Carries(tl, tl') /\ (tl').pc = dest BY <1>3, <3>1 DEF Carries, Fields
    <3> QED BY <3>2
  <2>2. CASE \E to \in Instr.cases : \E out \in Written(paid, 1) : goes(out, to)
    <3>1. PICK to \in Instr.cases, out \in Written(paid, 1) : goes(out, to) BY <2>2
    <3>2. out.err = "running" /\ tl' = [out.t EXCEPT !.pc = to] BY <1>2, <3>1
    <3>3. paid.err = "running" BY <3>2 DEF Written
    <3>4. DOMAIN out.t = Fields /\ \A f \in Fields \ {"clock", "unpaid"} : out.t[f] = paid.t[f]
      BY <1>4, <3>2, <3>3, WrittenFields
    <3>5. Carries(tl, tl') /\ (tl').pc = to
      BY <1>3, <1>4, <3>2, <3>3, <3>4 DEF Carries, Fields
    <3> QED BY <3>5
  <2> QED BY <1>1, <2>1, <2>2
<1>6. Plain("select") /\ Calm("select") BY PlainOps
<1>7. SameBlocks(prog[tl.code], to, tl.pc)
  <2>1. CASE to = tl.pc + 1 BY <1>3, <1>6, <2>1, PlainSame
  <2>2. CASE to # tl.pc + 1
    <3>1. to \in Instr.cases \cup ({Instr.timeout} \ {None}) BY <2>2
    <3>2. to \in Targets(Instr) BY <1>3, <3>1 DEF Targets
    <3>3. Lands(prog[tl.code], tl.pc) BY <1>3, CalmLands
    <3> QED BY <1>3, <3>2, <3>3, TargetSame
  <2> QED BY <2>1, <2>2
<1> QED BY <1>1, <1>5, <1>6, <1>7, GoesOn

(* A commit marks the innermost speculation.                               *)
LEMMA CommitGoesOn ==
  ASSUME Ran, status' = "running", Commit
  PROVE  Fine(prog, tl', speculation_stack')
<1> DEFINE s == speculation_stack
           u == speculation_stack'
<1>1. Executes("commit") /\ tl' = Fetched BY DEF Commit, Becomes, Ok
<1>2. Fetched.pc = tl.pc + 1 /\ Carries(tl, Fetched) BY <1>1, HereIs DEF Ran
<1>3. Fine(prog, tl', s) BY <1>1, <1>2, GoesNext, PlainOps
<1>4. \/ u = s
      \/ s # <<>> /\ u = [s EXCEPT ![Len(s)].committed = TRUE]
  BY DEF Commit
<1>5. IsSeq(s) /\ \A i \in DOMAIN s : DOMAIN s[i] = {"start", "fallback", "committed"}
  BY DEF Ran, Contexts
<1>6. /\ DOMAIN u = DOMAIN s /\ Len(u) = Len(s)
      /\ \A i \in DOMAIN s : u[i].start = s[i].start /\ u[i].fallback = s[i].fallback
  <2>1. CASE u = s BY <2>1
  <2>2. CASE s # <<>> /\ u = [s EXCEPT ![Len(s)].committed = TRUE]
    <3> DEFINE e == [s[Len(s)] EXCEPT !.committed = TRUE]
    <3>2. Len(s) \in DOMAIN s BY <1>5, <2>2, FrontIs
    <3>3. e.start = s[Len(s)].start /\ e.fallback = s[Len(s)].fallback BY <1>5, <3>2
    <3> HIDE DEF e
    <3>4. u = [s EXCEPT ![Len(s)] = e] BY <2>2 DEF e
    <3> HIDE DEF s, u
    <3>5. DOMAIN u = DOMAIN s /\ \A i \in DOMAIN s : u[i] = IF i = Len(s) THEN e ELSE s[i]
      BY <3>4
    <3>6. Len(u) = Len(s)
      <4>1. PICK S : s \in Seq(S) BY <1>5 DEF IsSeq
      <4>2. u \in Seq(S \cup {e}) /\ Len(u) = Len(s) BY <3>2, <3>4, <4>1, SMT
      <4> QED BY <4>2
    <3> QED BY <3>3, <3>5, <3>6
  <2> QED BY <1>4, <2>1, <2>2
<1> HIDE DEF s, u
<1>7. HeldContexts(prog, u) BY <1>3, <1>6 DEF Fine, Alongside, HeldContexts
<1>8. Speculated(prog, (tl').calls, Len((tl').calls), (tl').code, (tl').pc, u)
  BY <1>3, <1>6, SpeculatedCommit DEF Fine, Alongside
<1> QED BY <1>3, <1>7, <1>8 DEF Fine, Alongside, s, u

(* An anchor keeps what is true where it is set.                           *)
LEMMA AnchorGoesOn ==
  ASSUME Ran, status' = "running", Anchor
  PROVE  Fine(prog, tl', speculation_stack)
<1> DEFINE t == Fetched
           point == [clock |-> t.clock, regs |-> t.regs, budget |-> t.budget, uses |-> t.uses,
                     pc |-> t.pc, code |-> t.code, unpaid |-> t.unpaid,
                     entered |-> t.entered, calls |-> t.calls, stacks |-> Stacks(t)]
           u == [t EXCEPT !.anchors = Bind(@, Instr.name, point)]
<1>1. Executes("anchor") /\ tl' = u BY DEF Anchor, Only, Becomes, Ok
<1>2. DOMAIN t = Fields /\ t.pc = tl.pc + 1 /\ Carries(tl, t) BY <1>1, HereIs DEF Ran
<1>3. Fine(prog, t, speculation_stack) BY <1>1, <1>2, GoesNext, PlainOps
<1>4. /\ point.calls = t.calls /\ point.code = t.code /\ point.pc = t.pc
      /\ point.stacks[1] = t.loops /\ point.stacks[2] = t.flat /\ point.stacks[4] = t.manifests
      /\ point.stacks[5] = speculation_stack
  BY DEF Stacks
<1>5. /\ u.calls = t.calls /\ u.code = t.code /\ u.pc = t.pc /\ u.loops = t.loops
      /\ u.flat = t.flat /\ u.manifests = t.manifests
      /\ u.anchors = Bind(t.anchors, Instr.name, point)
  BY <1>2 DEF Fields
<1> HIDE DEF t, point, u
<1>6. /\ DOMAIN u.anchors = DOMAIN t.anchors \cup {Instr.name} /\ u.anchors[Instr.name] = point
      /\ \A x \in DOMAIN t.anchors : x # Instr.name => u.anchors[x] = t.anchors[x]
  BY <1>5 DEF Bind
<1>7. /\ Held(prog, point.calls, Len(point.calls), point.code, point.pc, point.stacks[1],
              point.stacks[2], point.stacks[4])
      /\ Speculated(prog, point.calls, Len(point.calls), point.code, point.pc, point.stacks[5])
  BY <1>3, <1>4 DEF Fine, HeldHere, Alongside
<1>8. HeldAnchors(prog, u.anchors) BY <1>3, <1>6, <1>7 DEF Fine, Alongside, HeldAnchors
<1> QED BY <1>1, <1>3, <1>5, <1>8 DEF Fine, HeldHere, Alongside
-----------------------------------------------------------------------------
(* Steps that enter a block or leave it                                    *)

(* How long a sequence is with one element more, or less.                  *)
LEMMA LenIs ==
  ASSUME NEW s, IsSeq(s)
  PROVE  /\ Len(s) \in Nat /\ DOMAIN s = 1 .. Len(s)
         /\ \A e : Len(Append(s, e)) = Len(s) + 1
         /\ s # <<>> => /\ Len(Front(s)) = Len(s) - 1 /\ DOMAIN Front(s) = 1 .. Len(s) - 1
                        /\ Len(s) # 0
<1>1. PICK S : s \in Seq(S) BY DEF IsSeq
<1>2. Len(s) \in Nat /\ DOMAIN s = 1 .. Len(s) BY <1>1, SMT
<1>3. \A e : Len(Append(s, e)) = Len(s) + 1 BY <1>1, SMT
<1>4. ASSUME s # <<>>
      PROVE  Len(Front(s)) = Len(s) - 1 /\ DOMAIN Front(s) = 1 .. Len(s) - 1 /\ Len(s) # 0
  <2>1. Len(s) # 0 BY <1>1, <1>4, SMT
  <2>2. SubSeq(s, 1, Len(s) - 1) \in Seq(S) /\ Len(SubSeq(s, 1, Len(s) - 1)) = Len(s) - 1
    BY <1>1, <1>2, <2>1, SMT
  <2>3. DOMAIN SubSeq(s, 1, Len(s) - 1) = 1 .. Len(s) - 1 BY <2>2, SMT
  <2> QED BY <2>1, <2>2, <2>3 DEF Front
<1> QED BY <1>2, <1>3, <1>4

(* Where no speculation begins or ends the stacks decide.                  *)
LEMMA Landed ==
  ASSUME NEW p, NEW s, NEW stack, Alongside(p, s, stack), NEW u,
         u.calls = s.calls, u.code = s.code, u.anchors = s.anchors,
         Lands(p[s.code], u.pc),
         Counted(Len(u.loops), Around(p[s.code], u.pc, Limited)),
         Counted(u.manifests, Open(p, s.calls, Len(s.calls), s.code, u.pc, Isolates)),
         Ordered(u.flat), Heads(u.flat) = Around(p[s.code], u.pc, Iterates),
         Around(p[s.code], u.pc, Speculates) = Around(p[s.code], s.pc, Speculates)
  PROVE  Fine(p, u, stack)
<1>1. HeldHere(p, u) BY DEF HeldHere, Held, Tallied
<1>2. Speculated(p, s.calls, Len(s.calls), s.code, u.pc, stack)
  BY SpeculatedSame DEF Alongside
<1> QED BY <1>1, <1>2 DEF Fine, Alongside

(* So they do from one statement to the next.                              *)
LEMMA Refit ==
  ASSUME NEW p, NEW s, NEW stack, Fine(p, s, stack), NEW u,
         u.calls = s.calls, u.code = s.code, u.anchors = s.anchors,
         Lands(p[s.code], u.pc),
         Counted(Len(u.loops), Around(p[s.code], u.pc, Limited)),
         Counted(u.manifests, Open(p, s.calls, Len(s.calls), s.code, u.pc, Isolates)),
         Ordered(u.flat), Heads(u.flat) = Around(p[s.code], u.pc, Iterates),
         Around(p[s.code], u.pc, Speculates) = Around(p[s.code], s.pc, Speculates)
  PROVE  Fine(p, u, stack)
<1>1. Alongside(p, s, stack) BY DEF Fine
<1> QED BY <1>1, Landed

(* What a fine timeline holds.                                             *)
LEMMA FineIs ==
  ASSUME NEW p, NEW s, NEW stack, Fine(p, s, stack)
  PROVE  /\ Counted(Len(s.loops), Around(p[s.code], s.pc, Limited))
         /\ Counted(s.manifests, Open(p, s.calls, Len(s.calls), s.code, s.pc, Isolates))
         /\ Ordered(s.flat) /\ Heads(s.flat) = Around(p[s.code], s.pc, Iterates)
         /\ Lands(p[s.code], s.pc)
BY DEF Fine, HeldHere, Held, Tallied

(* Which blocks an instruction begins or ends.                             *)
LEMMA KindsAre ==
  /\ \A op \in {"loop", "while", "tick"} :
       /\ op \in Begins /\ op \in Limited /\ op \notin Iterates /\ op \notin Speculates
       /\ op \notin Isolates /\ Calm(op)
  /\ "for" \in Begins /\ "for" \in Iterates /\ "for" \notin Limited /\ "for" \notin Speculates /\ "for" \notin Isolates
  /\ "speculate" \in Begins /\ "speculate" \in Speculates /\ "speculate" \notin Limited
  /\ "speculate" \notin Iterates /\ "speculate" \notin Isolates /\ Calm("speculate")
  /\ "isolate" \in Begins /\ "isolate" \in Isolates /\ "isolate" \notin Limited
  /\ "isolate" \notin Iterates /\ "isolate" \notin Speculates /\ Calm("isolate")
  /\ \A op \in {"endLoop", "endWhile", "endTick", "endFor", "endSpeculate", "endIsolate"} :
       op \in EndOps /\ Calm(op)
BY OpsAre DEF Limited, Iterates, Speculates, Isolates, Calm

(* The head of an end is of its kind.                                      *)
LEMMA HeadIs ==
  ASSUME NEW c, Built(c), NEW pc \in DOMAIN c, c[pc].op \in EndOps
  PROVE  /\ c[pc].op \in {"endLoop", "endWhile", "endTick"} => c[c[pc].head].op \in {"loop", "while", "tick"}
         /\ c[pc].op = "endFor" => c[c[pc].head].op = "for"
         /\ c[pc].op = "endSpeculate" => c[c[pc].head].op = "speculate"
         /\ c[pc].op = "endIsolate" => c[c[pc].head].op = "isolate"
<1>1. <<c[c[pc].head].op, c[pc].op>> \in BeginEnd BY EndSame
<1>2. \A b, e : <<b, e>> \in BeginEnd =>
       /\ e \in {"endLoop", "endWhile", "endTick"} <=> b \in Limited
       /\ e = "endFor" <=> b = "for"
       /\ e = "endSpeculate" <=> b = "speculate"
       /\ e = "endIsolate" <=> b = "isolate"
  BY OpsAre
<1> QED BY <1>1, <1>2 DEF Limited

(* A loop, a while or a tick begins.                                       *)
LEMMA LoopGoesOn ==
  ASSUME Ran, status' = "running", Loop
  PROVE  Fine(prog, tl', speculation_stack)
<1> DEFINE c == prog[tl.code]
<1>1. \E op \in {"loop", "while", "tick"} :
        /\ Executes(op)
        /\ \E x, ms : tl' = Enter([Fetched EXCEPT !.depth = @ + 1, !.loops = Append(@, x)], ms)
  <2>1. CASE /\ \E op \in {"loop", "while"} : Executes(op)
             /\ Only(Ok(Enter([Fetched EXCEPT !.depth = @ + 1,
                  !.loops = Append(@, [start |-> Fetched.clock, limit |-> Instr.ms])], Instr.ms)))
    <3>1. \E x, ms : tl' = Enter([Fetched EXCEPT !.depth = @ + 1, !.loops = Append(@, x)], ms)
      BY <2>1 DEF Only, Becomes, Ok
    <3> QED BY <2>1, <3>1
  <2>2. CASE /\ Executes("tick")
             /\ IF tl.slice = None THEN Only(Error(Fetched, "TickLoopWithoutSlice"))
                ELSE Only(Ok(Enter([Fetched EXCEPT !.depth = @ + 1,
                       !.loops = Append(@, [start |-> Fetched.clock, limit |-> tl.slice])], tl.slice)))
    <3>1. \E x, ms : tl' = Enter([Fetched EXCEPT !.depth = @ + 1, !.loops = Append(@, x)], ms)
      BY <2>2 DEF Only, Becomes, Ok, Error
    <3> QED BY <2>2, <3>1
  <2> QED BY <2>1, <2>2 DEF Loop
<1>2. PICK op \in {"loop", "while", "tick"} :
        /\ Executes(op)
        /\ \E x, ms : tl' = Enter([Fetched EXCEPT !.depth = @ + 1, !.loops = Append(@, x)], ms)
  BY <1>1
<1>3. PICK x, ms : tl' = Enter([Fetched EXCEPT !.depth = @ + 1, !.loops = Append(@, x)], ms)
  BY <1>2
<1>4. /\ DOMAIN Fetched = Fields /\ Fetched.pc = tl.pc + 1 /\ Carries(tl, Fetched)
      /\ Built(c) /\ tl.pc \in DOMAIN c /\ c[tl.pc].op = op
  BY <1>2, HereIs DEF Ran
<1>5. /\ (tl').calls = tl.calls /\ (tl').code = tl.code /\ (tl').anchors = tl.anchors
      /\ (tl').flat = tl.flat /\ (tl').manifests = tl.manifests /\ (tl').pc = tl.pc + 1
      /\ (tl').loops = Append(tl.loops, x)
  BY <1>3, <1>4 DEF Enter, Carries, Fields
<1>6. /\ op \in Begins /\ op \in Limited /\ op \notin Iterates /\ op \notin Speculates
      /\ op \notin Isolates /\ Calm(op) /\ op # "for"
  BY KindsAre DEF Calm
<1>7. Fine(prog, tl, speculation_stack) BY <1>4, <1>6, CalmFine DEF Ran
<1>8. /\ Lands(c, tl.pc + 1)
      /\ Gains(Around(c, tl.pc + 1, Limited), Around(c, tl.pc, Limited), tl.pc)
      /\ Around(c, tl.pc + 1, Iterates) = Around(c, tl.pc, Iterates)
      /\ Around(c, tl.pc + 1, Speculates) = Around(c, tl.pc, Speculates)
      /\ Around(c, tl.pc + 1, Isolates) = Around(c, tl.pc, Isolates)
  BY <1>4, <1>6, BeginSame
<1>9. Len((tl').loops) = Len(tl.loops) + 1
  BY <1>5, LenIs DEF Ran, Ready, Typed, StacksTyped, IsSeq
<1>10. Counted(Len((tl').loops), Around(c, tl.pc + 1, Limited))
  <2>1. Counted(Len(tl.loops), Around(c, tl.pc, Limited)) BY <1>7, FineIs
  <2>2. Counted(Len(tl.loops) + 1, Around(c, tl.pc + 1, Limited))
    BY <1>8, <2>1, CountedIs
  <2> QED BY <1>9, <2>2
<1>11. Counted((tl').manifests, Open(prog, tl.calls, Len(tl.calls), tl.code, tl.pc + 1, Isolates))
  BY <1>5, <1>7, <1>8, FineIs DEF Open
<1> QED BY <1>5, <1>7, <1>8, <1>10, <1>11, FineIs, Refit

(* A loop that is left is taken off its stack.                             *)
LEMMA LoopLeftIs ==
  ASSUME NEW s, DOMAIN s = Fields, NEW kind, NEW o \in LoopLeft(s, kind), o.err = "running"
  PROVE  /\ s.loops # <<>> /\ DOMAIN o.t = Fields /\ o.t.loops = Front(s.loops)
         /\ o.t.calls = s.calls /\ o.t.code = s.code /\ o.t.anchors = s.anchors
         /\ o.t.flat = s.flat /\ o.t.manifests = s.manifests /\ o.t.pc = s.pc
<1> DEFINE u == [s EXCEPT !.loops = Front(@)]
           limit == Last(s.loops).limit
           elapsed == s.clock - Last(s.loops).start
<1>1. s.loops # <<>>
  <2> SUFFICES ASSUME s.loops = <<>> PROVE FALSE
    OBVIOUS
  <2>1. LoopLeft(s, kind) = {Error(s, "EvalError")} BY DEF LoopLeft
  <2>2. o.err = "EvalError" BY <2>1 DEF Error
  <2> QED BY <2>2
<1>2. o = Ok(Shallower(u)) \/ o = Then(Paid(u, limit - elapsed), Shallower)
  <2>1. /\ Error(u, "panic").err # "running" /\ Error(u, "WatchdogBite").err # "running"
    BY DEF Error
  <2>2. \/ elapsed < 0 /\ o \in {Error(u, "panic"),
             IF kind = "endTick" THEN Error(u, "WatchdogBite") ELSE Ok(Shallower(u))}
        \/ o \in {Then(Paid(u, limit - elapsed), Shallower)}
        \/ o \in {Error(u, "WatchdogBite")}
        \/ o \in {Ok(Shallower(u))}
    <3> DEFINE A == {Error(u, "panic"),
                     IF kind = "endTick" THEN Error(u, "WatchdogBite") ELSE Ok(Shallower(u))}
               B == {Then(Paid(u, limit - elapsed), Shallower)}
               C == {Error(u, "WatchdogBite")}
               D == {Ok(Shallower(u))}
    <3>1. LoopLeft(s, kind) =
            CASE elapsed < 0 -> A
              [] elapsed >= 0 /\ elapsed < limit /\ limit # Unbounded -> B
              [] elapsed > limit /\ kind = "endTick" -> C
              [] OTHER -> D
      BY <1>1 DEF LoopLeft
    <3> HIDE DEF A, B, C, D, u, limit, elapsed
    <3>2. LoopLeft(s, kind) = A \/ LoopLeft(s, kind) = B \/ LoopLeft(s, kind) = C \/ LoopLeft(s, kind) = D
      BY <3>1
    <3>3. (elapsed < 0 /\ o \in A) \/ o \in B \/ o \in C \/ o \in D BY <3>1, <3>2
    <3> QED BY <3>3 DEF A, B, C, D
  <2> HIDE DEF u, limit, elapsed
  <2> QED BY <2>1, <2>2
<1>3. /\ DOMAIN u = Fields /\ u.loops = Front(s.loops) /\ u.calls = s.calls /\ u.code = s.code
      /\ u.anchors = s.anchors /\ u.flat = s.flat /\ u.manifests = s.manifests /\ u.pc = s.pc
  BY DEF Fields
<1> HIDE DEF u, limit, elapsed
<1>4. \A t : DOMAIN t = Fields => /\ DOMAIN Shallower(t) = Fields /\ Carries(t, Shallower(t))
                                  /\ Shallower(t).pc = t.pc
  BY DEF Shallower, Carries, Fields
<1>5. CASE o = Ok(Shallower(u))
  <2>1. o.t = Shallower(u) BY <1>5 DEF Ok
  <2> QED BY <1>1, <1>3, <1>4, <2>1 DEF Carries
<1>6. CASE o = Then(Paid(u, limit - elapsed), Shallower)
  <2> DEFINE v == Paid(u, limit - elapsed).t
  <2>1. Paid(u, limit - elapsed).err = "running" /\ o.t = Shallower(v)
    BY <1>6 DEF Then, Ok
  <2>2. DOMAIN v = Fields /\ Carries(u, v) /\ v.pc = u.pc BY <1>3, <2>1, PaidCarries
  <2> HIDE DEF v
  <2> QED BY <1>1, <1>3, <1>4, <2>1, <2>2 DEF Carries
<1> QED BY <1>2, <1>5, <1>6

(* One ends.                                                               *)
LEMMA EndLoopGoesOn ==
  ASSUME Ran, status' = "running", EndLoop
  PROVE  Fine(prog, tl', speculation_stack)
<1> DEFINE c == prog[tl.code]
<1>1. PICK op \in {"endLoop", "endWhile", "endTick"} :
        Executes(op) /\ \E out \in LoopLeft(Fetched, op) : Only(out)
  BY DEF EndLoop
<1>2. PICK out \in LoopLeft(Fetched, op) : tl' = out.t /\ out.err = "running"
  BY <1>1 DEF Only, Becomes
<1>3. /\ DOMAIN Fetched = Fields /\ Fetched.pc = tl.pc + 1 /\ Carries(tl, Fetched)
      /\ Built(c) /\ tl.pc \in DOMAIN c /\ c[tl.pc].op = op
  BY <1>1, HereIs DEF Ran
<1>4. /\ Fetched.loops # <<>> /\ (tl').loops = Front(Fetched.loops)
      /\ (tl').calls = Fetched.calls /\ (tl').code = Fetched.code
      /\ (tl').anchors = Fetched.anchors /\ (tl').flat = Fetched.flat
      /\ (tl').manifests = Fetched.manifests /\ (tl').pc = Fetched.pc
  BY <1>2, <1>3, LoopLeftIs
<1>5. /\ (tl').calls = tl.calls /\ (tl').code = tl.code /\ (tl').anchors = tl.anchors
      /\ (tl').flat = tl.flat /\ (tl').manifests = tl.manifests /\ (tl').pc = tl.pc + 1
      /\ tl.loops # <<>> /\ (tl').loops = Front(tl.loops)
  BY <1>3, <1>4 DEF Carries
<1>6. op \in EndOps /\ Calm(op) /\ op # "endFor" BY KindsAre
<1>7. Fine(prog, tl, speculation_stack) BY <1>3, <1>6, CalmFine DEF Ran
<1> DEFINE g == c[tl.pc].head
<1>8. c[g].op \in {"loop", "while", "tick"} BY <1>3, <1>6, HeadIs
<1>9. c[g].op \in Limited /\ c[g].op \notin Iterates /\ c[g].op \notin Speculates /\ c[g].op \notin Isolates
  BY <1>8, KindsAre
<1>10. /\ Lands(c, tl.pc + 1)
       /\ Loses(Around(c, tl.pc + 1, Limited), Around(c, tl.pc, Limited), g)
       /\ Around(c, tl.pc + 1, Iterates) = Around(c, tl.pc, Iterates)
       /\ Around(c, tl.pc + 1, Speculates) = Around(c, tl.pc, Speculates)
       /\ Around(c, tl.pc + 1, Isolates) = Around(c, tl.pc, Isolates)
  BY <1>3, <1>6, <1>9, EndSame
<1>11. Len((tl').loops) = Len(tl.loops) - 1
  BY <1>5, LenIs DEF Ran, Ready, Typed, StacksTyped, IsSeq
<1>12. Counted(Len((tl').loops), Around(c, tl.pc + 1, Limited))
  <2>1. Counted(Len(tl.loops), Around(c, tl.pc, Limited)) BY <1>7, FineIs
  <2>2. Counted(Len(tl.loops) - 1, Around(c, tl.pc + 1, Limited))
    BY <1>10, <2>1, CountedIs
  <2> QED BY <1>11, <2>2
<1>13. Counted((tl').manifests, Open(prog, tl.calls, Len(tl.calls), tl.code, tl.pc + 1, Isolates))
  BY <1>5, <1>7, <1>10, FineIs DEF Open
<1> QED BY <1>5, <1>7, <1>10, <1>12, <1>13, FineIs, Refit

(* What an isolate changes of the timeline.                                *)
LEMMA IsolateIs ==
  ASSUME Ready, status' = "running", Isolate
  PROVE  /\ Executes("isolate")
         /\ \E u : /\ DOMAIN u = Fields /\ u.manifests = Fetched.manifests + 1
                   /\ \A f \in Fields \ {"manifests", "uses", "budget", "slice"} : u[f] = Fetched[f]
                   /\ tl' = Enter(u, u.budget)
<1> DEFINE t == [Fetched EXCEPT !.manifests = @ + 1,
                   !.uses = IF Instr.uses = None THEN @ ELSE Instr.uses]
           u == [t EXCEPT !.budget = IF Instr.cpu = None THEN @ ELSE Instr.cpu,
                          !.slice = IF Instr.slice = None THEN @ ELSE Instr.slice]
<1>1. Executes("isolate") /\ tl' = Enter(u, u.budget)
  BY DEF Isolate, Only, Becomes, Ok, Error
<1>2. /\ DOMAIN t = Fields /\ t.manifests = Fetched.manifests + 1
      /\ \A f \in Fields \ {"manifests", "uses"} : t[f] = Fetched[f]
  BY <1>1, FetchedType DEF Fields
<1> HIDE DEF t
<1>3. /\ DOMAIN u = Fields /\ u.manifests = Fetched.manifests + 1
      /\ \A f \in Fields \ {"manifests", "uses", "budget", "slice"} : u[f] = Fetched[f]
  BY <1>2 DEF Fields
<1> HIDE DEF u
<1> QED BY <1>1, <1>3

(* An isolate begins.                                                      *)
LEMMA IsolateGoesOn ==
  ASSUME Ran, status' = "running", Isolate
  PROVE  Fine(prog, tl', speculation_stack)
<1> DEFINE c == prog[tl.code]
<1>1. Executes("isolate") BY IsolateIs DEF Ran
<1>2. PICK u : /\ DOMAIN u = Fields /\ u.manifests = Fetched.manifests + 1
               /\ \A f \in Fields \ {"manifests", "uses", "budget", "slice"} : u[f] = Fetched[f]
               /\ tl' = Enter(u, u.budget)
  BY IsolateIs DEF Ran
<1>3. /\ DOMAIN Fetched = Fields /\ Fetched.pc = tl.pc + 1 /\ Carries(tl, Fetched)
      /\ Built(c) /\ tl.pc \in DOMAIN c /\ c[tl.pc].op = "isolate"
  BY <1>1, HereIs DEF Ran
<1>5. /\ (tl').calls = tl.calls /\ (tl').code = tl.code /\ (tl').anchors = tl.anchors
      /\ (tl').flat = tl.flat /\ (tl').manifests = tl.manifests + 1 /\ (tl').pc = tl.pc + 1
      /\ (tl').loops = tl.loops
  BY <1>2, <1>3 DEF Enter, Carries, Fields
<1>7. Fine(prog, tl, speculation_stack) BY <1>3, CalmFine, KindsAre DEF Ran
<1>8. /\ Lands(c, tl.pc + 1)
      /\ Gains(Around(c, tl.pc + 1, Isolates), Around(c, tl.pc, Isolates), tl.pc)
      /\ Around(c, tl.pc + 1, Iterates) = Around(c, tl.pc, Iterates)
      /\ Around(c, tl.pc + 1, Speculates) = Around(c, tl.pc, Speculates)
      /\ Around(c, tl.pc + 1, Limited) = Around(c, tl.pc, Limited)
  BY <1>3, KindsAre, BeginSame
<1>9. Len(tl.calls) \in Nat BY LenIs DEF Ran, Ready, Typed, Framed
<1>10. Gains(Open(prog, tl.calls, Len(tl.calls), tl.code, tl.pc + 1, Isolates),
             Open(prog, tl.calls, Len(tl.calls), tl.code, tl.pc, Isolates), <<Len(tl.calls) + 1, tl.pc>>)
  BY <1>8, <1>9, OpenAdd
<1>11. Counted((tl').manifests, Open(prog, tl.calls, Len(tl.calls), tl.code, tl.pc + 1, Isolates))
  <2>1. Counted(tl.manifests, Open(prog, tl.calls, Len(tl.calls), tl.code, tl.pc, Isolates))
    BY <1>7, FineIs
  <2> QED BY <1>5, <1>10, <2>1, CountedIs
<1> QED BY <1>5, <1>7, <1>8, <1>11, FineIs, Refit

(* One ends.                                                               *)
LEMMA EndIsolateGoesOn ==
  ASSUME Ran, status' = "running", EndIsolate
  PROVE  Fine(prog, tl', speculation_stack)
<1> DEFINE c == prog[tl.code]
<1>1. Executes("endIsolate") /\ tl' = [Fetched EXCEPT !.manifests = Monus(@, 1)]
  BY DEF EndIsolate, Only, Becomes, Ok
<1>3. /\ DOMAIN Fetched = Fields /\ Fetched.pc = tl.pc + 1 /\ Carries(tl, Fetched)
      /\ Built(c) /\ tl.pc \in DOMAIN c /\ c[tl.pc].op = "endIsolate"
  BY <1>1, HereIs DEF Ran
<1>5. /\ (tl').calls = tl.calls /\ (tl').code = tl.code /\ (tl').anchors = tl.anchors
      /\ (tl').flat = tl.flat /\ (tl').manifests = Monus(tl.manifests, 1) /\ (tl').pc = tl.pc + 1
      /\ (tl').loops = tl.loops
  BY <1>1, <1>3 DEF Carries, Fields
<1>6. "endIsolate" \in EndOps /\ Calm("endIsolate") /\ "endIsolate" # "endFor"
  BY KindsAre
<1>7. Fine(prog, tl, speculation_stack) BY <1>3, <1>6, CalmFine DEF Ran
<1> DEFINE g == c[tl.pc].head
<1>8. c[g].op = "isolate" BY <1>3, <1>6, HeadIs
<1>9. c[g].op \in Isolates /\ c[g].op \notin Iterates /\ c[g].op \notin Speculates /\ c[g].op \notin Limited
  BY <1>8, KindsAre
<1>10. /\ Lands(c, tl.pc + 1)
       /\ Loses(Around(c, tl.pc + 1, Isolates), Around(c, tl.pc, Isolates), g)
       /\ Around(c, tl.pc + 1, Iterates) = Around(c, tl.pc, Iterates)
       /\ Around(c, tl.pc + 1, Speculates) = Around(c, tl.pc, Speculates)
       /\ Around(c, tl.pc + 1, Limited) = Around(c, tl.pc, Limited)
  BY <1>3, <1>6, <1>9, EndSame
<1>11. Len(tl.calls) \in Nat BY LenIs DEF Ran, Ready, Typed, Framed
<1>12. Loses(Open(prog, tl.calls, Len(tl.calls), tl.code, tl.pc + 1, Isolates),
             Open(prog, tl.calls, Len(tl.calls), tl.code, tl.pc, Isolates), <<Len(tl.calls) + 1, g>>)
  BY <1>10, <1>11, OpenRemove
<1>13. Counted((tl').manifests, Open(prog, tl.calls, Len(tl.calls), tl.code, tl.pc + 1, Isolates))
  <2>1. Counted(tl.manifests, Open(prog, tl.calls, Len(tl.calls), tl.code, tl.pc, Isolates))
    BY <1>7, FineIs
  <2>2. /\ Counted(tl.manifests - 1, Open(prog, tl.calls, Len(tl.calls), tl.code, tl.pc + 1, Isolates))
        /\ tl.manifests - 1 \in Nat /\ tl.manifests \in Nat
    BY <1>12, <2>1, CountedIs
  <2>3. Monus(tl.manifests, 1) = tl.manifests - 1 BY <2>2, SMT DEF Monus
  <2> QED BY <1>5, <2>2, <2>3
<1> QED BY <1>5, <1>7, <1>10, <1>13, FineIs, Refit
-----------------------------------------------------------------------------
(* Speculations begin, end and collapse                                    *)

(* The sequences of a timeline that runs have lengths.                     *)
LEMMA RanIs ==
  ASSUME Ran
  PROVE  /\ Measured(speculation_stack) /\ IsSeq(speculation_stack)
         /\ IsSeq(tl.calls) /\ Len(tl.calls) \in Nat
<1>1. Contexts(prog, speculation_stack) /\ Typed(prog, tl) BY DEF Ran, Ready
<1>2. IsSeq(speculation_stack) /\ IsSeq(tl.calls) BY <1>1 DEF Contexts, Typed, Framed
<1>3. ASSUME NEW i \in DOMAIN speculation_stack PROVE Sized(speculation_stack[i])
  <2> DEFINE t == speculation_stack[i].start
  <2>1. IsSeq(t.calls) /\ t.pc \in Counters
    BY <1>1, <1>3 DEF Contexts, Typed, Framed, Placed
  <2>2. Len(t.calls) \in Nat BY <2>1, LenIs
  <2>3. t.pc \in Int BY <2>1, SMT DEF Counters
  <2> QED BY <2>2, <2>3 DEF Sized
<1> QED BY <1>2, <1>3, LenIs DEF Measured

(* Sequences with the same elements are the same.                          *)
LEMMA SameSeq ==
  ASSUME NEW s, IsSeq(s), NEW u, IsSeq(u), Len(s) = Len(u), \A k \in 1 .. Len(s) : s[k] = u[k]
  PROVE  s = u
<1>1. PICK S : s \in Seq(S) BY DEF IsSeq
<1>2. PICK T : u \in Seq(T) BY DEF IsSeq
<1>3. s \in Seq(S \cup T) /\ u \in Seq(S \cup T) BY <1>1, <1>2, SMT
<1>4. s = [k \in 1 .. Len(s) |-> s[k]] /\ u = [k \in 1 .. Len(u) |-> u[k]] BY <1>3, SMT
<1> QED BY <1>4

(* Some head is the innermost.                                             *)
LEMMA HighestExists ==
  ASSUME NEW n \in Nat, NEW S, S \subseteq 1 .. n, S # {}
  PROVE  \E h : Highest(h, S)
<1> DEFINE T == {n - k : k \in S}
<1>1. T \subseteq Nat BY SMT
<1>2. T # {}
  OBVIOUS
<1>3. PICK x \in T : \A y \in T : x <= y BY <1>1, <1>2, Least
<1>4. PICK h \in S : x = n - h BY <1>3
<1>5. \A k \in S : n - h <= n - k BY <1>3, <1>4
<1>6. \A k \in S : k <= h BY <1>5, SMT
<1> QED BY <1>6 DEF Highest

(* At the end of a block the others are as at its beginning.               *)
LEMMA BlockSame ==
  ASSUME NEW c, Built(c), NEW pc \in DOMAIN c, c[pc].op \in EndOps
  PROVE  \A ops : c[c[pc].head].op \notin ops =>
           /\ Around(c, pc + 1, ops) = Around(c, pc, ops)
           /\ Around(c, c[pc].head + 1, ops) = Around(c, pc, ops)
<1> DEFINE g == c[pc].head
<1> SUFFICES ASSUME NEW ops, c[g].op \notin ops
             PROVE  /\ Around(c, pc + 1, ops) = Around(c, pc, ops)
                    /\ Around(c, g + 1, ops) = Around(c, pc, ops)
  OBVIOUS
<1>1. pc \in Ends(c) /\ pc \in Int /\ g \in DOMAIN c /\ g \in Int /\ c[g].op \in Begins
  BY EndIs
<1>2. Around(c, pc + 1, ops) = Around(c, pc, ops) BY EndSame
<1>3. Around(c, g + 1, ops) = Around(c, g, ops) BY <1>1, BeginSame
<1>4. g \in Around(c, pc, {c[g].op})
  <2>1. c[g].op \in {c[g].op}
    OBVIOUS
  <2> QED BY <1>1, <2>1, PastEnd
<1>5. Around(c, g, ops) = {k \in Around(c, pc, ops) : k < g} BY <1>1, <1>4, Outside
<1>6. \A k \in Around(c, pc, ops) : k < g
  <2>1. /\ g \notin Around(c, pc, ops) /\ \A k \in Around(c, pc, ops) : k <= g
    BY <1>1, PastEnd
  <2>2. \A k \in Around(c, pc, ops) : k \in Int /\ k # g /\ k <= g
    BY <2>1, AroundIs, SMT
  <2> QED BY <1>1, <2>2, SMT
<1> QED BY <1>2, <1>3, <1>5, <1>6

(* A speculation begins.                                                   *)
LEMMA SpeculateGoesOn ==
  ASSUME Ran, status' = "running", Speculate
  PROVE  Fine(prog, tl', speculation_stack')
<1> DEFINE c == prog[tl.code]
           s == speculation_stack
           x == [start |-> Fetched, fallback |-> Instr.fallback, committed |-> FALSE]
           n == Len(tl.calls)
<1>1. Executes("speculate") /\ tl' = Fetched /\ speculation_stack' = Append(s, x)
  BY DEF Speculate, Becomes, Ok
<1>2. /\ DOMAIN Fetched = Fields /\ Fetched.pc = tl.pc + 1 /\ Carries(tl, Fetched)
      /\ Built(c) /\ tl.pc \in DOMAIN c /\ c[tl.pc].op = "speculate" /\ Instr = c[tl.pc]
  BY <1>1, HereIs DEF Ran
<1>3. Fine(prog, tl, s) BY <1>2, CalmFine, KindsAre DEF Ran
<1>4. /\ Fetched.calls = tl.calls /\ Fetched.code = tl.code /\ Fetched.loops = tl.loops
      /\ Fetched.flat = tl.flat /\ Fetched.manifests = tl.manifests
      /\ Fetched.anchors = tl.anchors
  BY <1>2 DEF Carries
<1>5. x.start = Fetched /\ x.fallback = c[tl.pc].fallback BY <1>2
<1> HIDE DEF x
<1>6. /\ Lands(c, tl.pc + 1)
      /\ Around(c, tl.pc + 1, Limited) = Around(c, tl.pc, Limited)
      /\ Around(c, tl.pc + 1, Iterates) = Around(c, tl.pc, Iterates)
      /\ Around(c, tl.pc + 1, Isolates) = Around(c, tl.pc, Isolates)
  BY <1>2, KindsAre, BeginSame
<1>7. Open(prog, tl.calls, n, tl.code, tl.pc + 1, Isolates) = Open(prog, tl.calls, n, tl.code, tl.pc, Isolates)
  BY <1>6 DEF Open
<1>8. Held(prog, tl.calls, n, tl.code, tl.pc + 1, tl.loops, tl.flat, tl.manifests)
  BY <1>3, <1>6, <1>7 DEF Fine, HeldHere, Held, Tallied
<1>9. HeldHere(prog, Fetched) BY <1>2, <1>4, <1>8 DEF HeldHere
<1>10. Begun(prog, tl.calls, n, tl.code, tl.pc, x) BY <1>2, <1>4, <1>5 DEF Begun
<1>11. Speculated(prog, tl.calls, n, tl.code, tl.pc + 1, Append(s, x))
  <2>1. Speculated(prog, tl.calls, n, tl.code, tl.pc, s) BY <1>3 DEF Fine, Alongside
  <2> QED BY <1>2, <1>10, <2>1, RanIs, SpeculatedPush
<1>12. HeldFrames(prog, tl.calls) /\ HeldAnchors(prog, tl.anchors) /\ HeldContexts(prog, s)
  BY <1>3 DEF Fine, Alongside
<1>13. HeldContexts(prog, Append(s, x))
  <2>1. \A i \in DOMAIN Append(s, x) :
          Append(s, x)[i] = x \/ (i \in DOMAIN s /\ Append(s, x)[i] = s[i])
    BY RanIs, AppendIs
  <2> QED BY <1>4, <1>5, <1>9, <1>12, <2>1 DEF HeldContexts
<1> QED BY <1>1, <1>2, <1>4, <1>9, <1>11, <1>12, <1>13 DEF Fine, Alongside

(* Back to a timeline that was kept, elsewhere in its code.                *)
LEMMA BackFine ==
  ASSUME NEW p, NEW s, NEW pc, NEW stack, HeldHere(p, s), HeldFrames(p, s.calls),
         HeldAnchors(p, s.anchors), HeldContexts(p, stack),
         /\ Lands(p[s.code], pc)
                       /\ Around(p[s.code], pc, Limited) = Around(p[s.code], s.pc, Limited)
                       /\ Around(p[s.code], pc, Iterates) = Around(p[s.code], s.pc, Iterates)
                       /\ Around(p[s.code], pc, Isolates) = Around(p[s.code], s.pc, Isolates),
         Speculated(p, s.calls, Len(s.calls), s.code, pc, stack),
         NEW u, Carries(s, u), u.pc = pc
  PROVE  Fine(p, u, stack)
<1> DEFINE n == Len(s.calls)
<1>1. /\ u.calls = s.calls /\ u.code = s.code /\ u.loops = s.loops /\ u.flat = s.flat
      /\ u.manifests = s.manifests /\ u.anchors = s.anchors
  BY DEF Carries
<1>2. Held(p, s.calls, n, s.code, s.pc, s.loops, s.flat, s.manifests) BY DEF HeldHere
<1>3. Open(p, s.calls, n, s.code, pc, Isolates) = Open(p, s.calls, n, s.code, s.pc, Isolates)
  BY DEF Open
<1>4. Held(p, s.calls, n, s.code, pc, s.loops, s.flat, s.manifests)
  BY <1>2, <1>3 DEF Held, Tallied
<1> QED BY <1>1, <1>4 DEF Fine, HeldHere, Alongside

(* The innermost speculation of this level is that on top; it began with   *)
(* the calls that wait now.                                                *)
LEMMA InnermostOnTop ==
  ASSUME Ran, Fine(prog, tl, speculation_stack), Built(prog[tl.code]), NEW h,
         Highest(h, Around(prog[tl.code], tl.pc, Speculates)), NEW to,
         Loses(Around(prog[tl.code], to, Speculates), Around(prog[tl.code], tl.pc, Speculates), h)
  PROVE  LET c == Last(speculation_stack)
         IN /\ speculation_stack # <<>> /\ DOMAIN c.start = Fields
            /\ c.start.calls = tl.calls /\ c.start.code = tl.code /\ c.start.pc = h + 1
            /\ c.fallback = prog[tl.code][h].fallback
            /\ HeldHere(prog, c.start) /\ HeldAnchors(prog, c.start.anchors)
            /\ HeldContexts(prog, Front(speculation_stack))
            /\ Speculated(prog, tl.calls, Len(tl.calls), tl.code, to, Front(speculation_stack))
<1> DEFINE s == speculation_stack
           c == Last(s)
           n == Len(tl.calls)
<1>1. Speculated(prog, tl.calls, n, tl.code, tl.pc, s) /\ HeldContexts(prog, s)
  BY DEF Fine, Alongside
<1>2. OnTopIs(prog, tl.calls, n, tl.code, h, s) BY <1>1, RanIs, SpeculatedTop
<1>3. s # <<>> /\ Begun(prog, tl.calls, n, tl.code, h, c) BY <1>2 DEF OnTopIs
<1>4. /\ Len(s) \in DOMAIN s /\ c = s[Len(s)]
      /\ \A i \in DOMAIN Front(s) : i \in DOMAIN s /\ Front(s)[i] = s[i]
  BY <1>3, RanIs, FrontIs
<1>5. Typed(prog, c.start) /\ HeldHere(prog, c.start) /\ HeldAnchors(prog, c.start.anchors)
  BY <1>1, <1>4 DEF HeldContexts, Ran, Contexts
<1>6. HeldContexts(prog, Front(s)) BY <1>1, <1>4 DEF HeldContexts
<1>7. c.start.calls = tl.calls
  <2>1. /\ Len(c.start.calls) = Len(tl.calls) /\ IsSeq(c.start.calls) /\ IsSeq(tl.calls)
        /\ \A k \in 1 .. Len(tl.calls) : tl.calls[k] = c.start.calls[k]
    BY <1>3, <1>5, RanIs DEF Begun, Typed, Framed
  <2> QED BY <2>1, SameSeq
<1>8. Speculated(prog, tl.calls, n, tl.code, to, Front(s)) BY <1>1, RanIs, SpeculatedPop
<1>9. c.start.code = tl.code /\ c.start.pc = h + 1 /\ c.fallback = prog[tl.code][h].fallback
  BY <1>3 DEF Begun
<1> QED BY <1>3, <1>5, <1>6, <1>7, <1>8, <1>9 DEF Typed

(* The end of a speculation that is on top: its work stays, or all but the *)
(* place goes.                                                             *)
LEMMA EndSpeculateIs ==
  ASSUME Ran, status' = "running", EndSpeculate
  PROVE  LET c == prog[tl.code]
             s == speculation_stack
             x == Last(s)
             g == c[tl.pc].head
         IN /\ s # <<>> /\ speculation_stack' = Front(s)
            /\ \/ tl' = Fetched
               \/ tl' = [x.start EXCEPT !.pc = Fetched.pc, !.code = tl.code, !.depth = tl.depth]
            /\ DOMAIN Fetched = Fields /\ Fetched.pc = tl.pc + 1 /\ Carries(tl, Fetched)
            /\ Fine(prog, tl, s) /\ Lands(c, tl.pc + 1)
            /\ \A ops : "speculate" \notin ops => /\ Around(c, tl.pc + 1, ops) = Around(c, tl.pc, ops)
                                                /\ Around(c, g + 1, ops) = Around(c, tl.pc, ops)
            /\ DOMAIN x.start = Fields /\ x.start.calls = tl.calls /\ x.start.code = tl.code
            /\ x.start.pc = g + 1 /\ HeldHere(prog, x.start) /\ HeldAnchors(prog, x.start.anchors)
            /\ HeldContexts(prog, Front(s))
            /\ Speculated(prog, tl.calls, Len(tl.calls), tl.code, tl.pc + 1, Front(s))
<1> DEFINE c == prog[tl.code]
           s == speculation_stack
           x == Last(s)
           n == Len(tl.calls)
           g == c[tl.pc].head
<1>1. /\ Executes("endSpeculate") /\ s # <<>> /\ speculation_stack' = Front(s)
      /\ \/ tl' = Fetched
         \/ tl' = [x.start EXCEPT !.pc = Fetched.pc, !.code = tl.code, !.depth = tl.depth]
  BY DEF EndSpeculate, Becomes, Ok, Error
<1>2. /\ DOMAIN Fetched = Fields /\ Fetched.pc = tl.pc + 1 /\ Carries(tl, Fetched)
      /\ Built(c) /\ tl.pc \in DOMAIN c /\ c[tl.pc].op = "endSpeculate"
  BY <1>1, HereIs DEF Ran
<1>3. "endSpeculate" \in EndOps /\ Calm("endSpeculate") /\ "endSpeculate" # "endFor"
  BY KindsAre
<1>4. Fine(prog, tl, s) BY <1>2, <1>3, CalmFine DEF Ran
<1>5. c[g].op = "speculate" BY <1>2, <1>3, HeadIs
<1>6. c[g].op \in Speculates BY <1>5, KindsAre
<1>7. /\ Lands(c, tl.pc + 1) /\ Highest(g, Around(c, tl.pc, Speculates))
      /\ Loses(Around(c, tl.pc + 1, Speculates), Around(c, tl.pc, Speculates), g)
  <2>1. Lands(c, tl.pc + 1) BY <1>2, <1>3, EndSame
  <2>2. /\ Loses(Around(c, tl.pc + 1, Speculates), Around(c, tl.pc, Speculates), g)
        /\ Highest(g, Around(c, tl.pc, Speculates))
    <3>1. \A ops : IF c[g].op \in ops
                   THEN /\ Loses(Around(c, tl.pc + 1, ops), Around(c, tl.pc, ops), g)
                        /\ Highest(g, Around(c, tl.pc, ops))
                   ELSE Around(c, tl.pc + 1, ops) = Around(c, tl.pc, ops)
      <4>1. Built(c) /\ tl.pc \in DOMAIN c /\ c[tl.pc].op \in EndOps BY <1>2, <1>3
      <4> HIDE DEF c
      <4> QED BY <4>1, EndSame
    <3> QED BY <1>6, <3>1
  <2> QED BY <2>1, <2>2
<1>8. \A ops : "speculate" \notin ops => /\ Around(c, tl.pc + 1, ops) = Around(c, tl.pc, ops)
                                        /\ Around(c, g + 1, ops) = Around(c, tl.pc, ops)
  BY <1>2, <1>3, <1>5, BlockSame
<1>9. /\ DOMAIN x.start = Fields /\ x.start.calls = tl.calls /\ x.start.code = tl.code
      /\ x.start.pc = g + 1 /\ HeldHere(prog, x.start) /\ HeldAnchors(prog, x.start.anchors)
      /\ HeldContexts(prog, Front(s))
      /\ Speculated(prog, tl.calls, n, tl.code, tl.pc + 1, Front(s))
  BY <1>2, <1>4, <1>7, InnermostOnTop
<1> QED BY <1>1, <1>2, <1>4, <1>7, <1>8, <1>9

(* Either way the stacks are those of what follows.                        *)
LEMMA EndSpeculateGoesOn ==
  ASSUME Ran, status' = "running", EndSpeculate
  PROVE  Fine(prog, tl', speculation_stack')
<1> DEFINE c == prog[tl.code]
           s == speculation_stack
           t == Last(s).start
           g == c[tl.pc].head
<1>1. /\ speculation_stack' = Front(s)
      /\ \/ tl' = Fetched
         \/ tl' = [t EXCEPT !.pc = Fetched.pc, !.code = tl.code, !.depth = tl.depth]
      /\ DOMAIN Fetched = Fields /\ Fetched.pc = tl.pc + 1 /\ Carries(tl, Fetched)
      /\ Fine(prog, tl, s) /\ Lands(c, tl.pc + 1)
      /\ \A ops : "speculate" \notin ops => /\ Around(c, tl.pc + 1, ops) = Around(c, tl.pc, ops)
                                          /\ Around(c, g + 1, ops) = Around(c, tl.pc, ops)
      /\ DOMAIN t = Fields /\ t.calls = tl.calls /\ t.code = tl.code
      /\ t.pc = g + 1 /\ HeldHere(prog, t) /\ HeldAnchors(prog, t.anchors)
      /\ HeldContexts(prog, Front(s))
      /\ Speculated(prog, tl.calls, Len(tl.calls), tl.code, tl.pc + 1, Front(s))
  BY EndSpeculateIs
<1> HIDE DEF t, g
<1>2. \A ops \in {Limited, Iterates, Isolates} :
        /\ Around(c, tl.pc + 1, ops) = Around(c, tl.pc, ops)
        /\ Around(c, g + 1, ops) = Around(c, tl.pc, ops)
  BY <1>1, KindsAre
<1>3. HeldFrames(prog, tl.calls) /\ HeldAnchors(prog, tl.anchors) /\ HeldHere(prog, tl)
  BY <1>1 DEF Fine, Alongside
<1>4. CASE tl' = Fetched
  <2>1. Carries(tl, tl') /\ (tl').pc = tl.pc + 1 BY <1>1, <1>4
  <2>2. Fine(prog, tl', Front(s)) BY <1>1, <1>2, <1>3, <2>1, BackFine
  <2> QED BY <1>1, <2>2
<1>5. CASE tl' = [t EXCEPT !.pc = Fetched.pc, !.code = tl.code, !.depth = tl.depth]
  <2>1. Carries(t, tl') /\ (tl').pc = tl.pc + 1 BY <1>1, <1>5 DEF Carries, Fields
  <2>2. /\ HeldHere(prog, t) /\ HeldFrames(prog, t.calls) /\ HeldAnchors(prog, t.anchors)
        /\ HeldContexts(prog, Front(s))
        /\ Speculated(prog, t.calls, Len(t.calls), t.code, tl.pc + 1, Front(s))
    BY <1>1, <1>3
  <2>3. /\ Lands(prog[t.code], tl.pc + 1)
        /\ Around(prog[t.code], tl.pc + 1, Limited) = Around(prog[t.code], t.pc, Limited)
        /\ Around(prog[t.code], tl.pc + 1, Iterates) = Around(prog[t.code], t.pc, Iterates)
        /\ Around(prog[t.code], tl.pc + 1, Isolates) = Around(prog[t.code], t.pc, Isolates)
    BY <1>1, <1>2
  <2>4. Fine(prog, tl', Front(s)) BY <2>1, <2>2, <2>3, BackFine
  <2> QED BY <1>1, <2>4
<1> QED BY <1>1, <1>4, <1>5

(* A collapse leaves the innermost speculation for its fallback.           *)
LEMMA CollapseIs ==
  ASSUME Ran, status' = "running", astray' = {}, Collapse
  PROVE  LET c == prog[tl.code]
             s == speculation_stack
             x == Last(s)
         IN \E h :
              /\ s # <<>> /\ speculation_stack' = Front(s)
              /\ tl' = [x.start EXCEPT !.code = tl.code, !.pc = x.fallback]
              /\ Fine(prog, tl, s) /\ Lands(c, c[h].fallback)
              /\ \A ops : "speculate" \notin ops => Around(c, c[h].fallback, ops) = Around(c, h + 1, ops)
              /\ DOMAIN x.start = Fields /\ x.start.calls = tl.calls /\ x.start.code = tl.code
              /\ x.start.pc = h + 1 /\ HeldHere(prog, x.start) /\ HeldAnchors(prog, x.start.anchors)
              /\ HeldContexts(prog, Front(s)) /\ x.fallback = c[h].fallback
              /\ Speculated(prog, tl.calls, Len(tl.calls), tl.code, c[h].fallback, Front(s))
<1> DEFINE c == prog[tl.code]
           s == speculation_stack
           x == Last(s)
           n == Len(tl.calls)
           A(ops) == Around(c, tl.pc, ops)
<1>1. /\ Executes("collapse") /\ s # <<>> /\ speculation_stack' = Front(s)
      /\ tl' = [x.start EXCEPT !.code = tl.code, !.pc = x.fallback]
      /\ SpeculatesHere
  BY DEF Collapse, Becomes, Ok, Error, Strays
<1>2. Built(c) /\ tl.pc \in DOMAIN c /\ c[tl.pc].op = "collapse" BY <1>1, HereIs DEF Ran
<1>3. Fine(prog, tl, s) BY <1>2, CalmFine, PlainOps DEF Ran
<1>4. A(Speculates) # {} BY <1>1 DEF SpeculatesHere, Speculates, Code
<1>5. tl.pc \in Int /\ Len(c) \in Nat /\ DOMAIN c = 1 .. Len(c) BY <1>2, EndIs
<1>6. PICK h : Highest(h, A(Speculates))
  <2>1. A(Speculates) \subseteq 1 .. Len(c) BY <1>2, AroundIs
  <2> HIDE DEF A
  <2> QED BY <1>4, <1>5, <2>1, HighestExists
<1>7. h \in A(Speculates) /\ \A k \in A(Speculates) : k <= h BY <1>6 DEF Highest
<1>8. h \in DOMAIN c /\ c[h].op = "speculate" /\ h \in Int
  BY <1>2, <1>5, <1>7, AroundIs DEF Speculates
<1>9. Lands(c, c[h].fallback) /\ \A ops : Around(c, c[h].fallback, ops) = Around(c, h, ops)
  <2>1. Lands(c, c[h].fallback) /\ Within(c, c[h].fallback) = Within(c, h)
    BY <1>2, <1>8 DEF Built, Jumps
  <2> QED BY <2>1 DEF Around
<1>10. \A ops : Around(c, h, ops) = {k \in A(ops) : k < h} BY <1>2, <1>5, <1>7, Outside
<1>11. Loses(Around(c, c[h].fallback, Speculates), A(Speculates), h)
  <2>1. \A k \in A(Speculates) : k < h <=> k # h
    <3>1. \A k \in A(Speculates) : k \in Int /\ k <= h BY <1>2, <1>7, AroundIs, SMT
    <3> QED BY <1>8, <3>1, SMT
  <2> HIDE DEF A
  <2>2. {k \in A(Speculates) : k < h} = A(Speculates) \ {h} BY <2>1
  <2> QED BY <1>7, <1>9, <1>10, <2>2 DEF Loses
<1>12. \A ops : "speculate" \notin ops => Around(c, h + 1, ops) = Around(c, h, ops)
  BY <1>2, <1>8, KindsAre, BeginSame
<1>13. /\ DOMAIN x.start = Fields /\ x.start.calls = tl.calls /\ x.start.code = tl.code
       /\ x.start.pc = h + 1 /\ HeldHere(prog, x.start) /\ HeldAnchors(prog, x.start.anchors)
       /\ HeldContexts(prog, Front(s)) /\ x.fallback = c[h].fallback
       /\ Speculated(prog, tl.calls, n, tl.code, c[h].fallback, Front(s))
  BY <1>2, <1>3, <1>6, <1>11, InnermostOnTop
<1> QED BY <1>1, <1>3, <1>9, <1>12, <1>13

(* The stacks are those of the fallback.                                   *)
LEMMA CollapseGoesOn ==
  ASSUME Ran, status' = "running", astray' = {}, Collapse
  PROVE  Fine(prog, tl', speculation_stack')
<1> DEFINE c == prog[tl.code]
           s == speculation_stack
           x == Last(s)
           t == x.start
<1>1. PICK h :
        /\ speculation_stack' = Front(s)
        /\ tl' = [t EXCEPT !.code = tl.code, !.pc = x.fallback]
        /\ Fine(prog, tl, s) /\ Lands(c, c[h].fallback)
        /\ \A ops : "speculate" \notin ops => Around(c, c[h].fallback, ops) = Around(c, h + 1, ops)
        /\ DOMAIN t = Fields /\ t.calls = tl.calls /\ t.code = tl.code
        /\ t.pc = h + 1 /\ HeldHere(prog, t) /\ HeldAnchors(prog, t.anchors)
        /\ HeldContexts(prog, Front(s)) /\ x.fallback = c[h].fallback
        /\ Speculated(prog, tl.calls, Len(tl.calls), tl.code, c[h].fallback, Front(s))
  BY CollapseIs
<1> HIDE DEF t, x
<1>2. \A ops \in {Limited, Iterates, Isolates} : Around(c, c[h].fallback, ops) = Around(c, h + 1, ops)
  BY <1>1, KindsAre
<1>3. HeldFrames(prog, tl.calls) BY <1>1 DEF Fine, Alongside
<1>4. Carries(t, tl') /\ (tl').pc = c[h].fallback BY <1>1 DEF Carries, Fields
<1>5. /\ HeldHere(prog, t) /\ HeldFrames(prog, t.calls) /\ HeldAnchors(prog, t.anchors)
      /\ HeldContexts(prog, Front(s))
      /\ Speculated(prog, t.calls, Len(t.calls), t.code, c[h].fallback, Front(s))
  BY <1>1, <1>3
<1>6. /\ Lands(prog[t.code], c[h].fallback)
      /\ Around(prog[t.code], c[h].fallback, Limited) = Around(prog[t.code], t.pc, Limited)
      /\ Around(prog[t.code], c[h].fallback, Iterates) = Around(prog[t.code], t.pc, Iterates)
      /\ Around(prog[t.code], c[h].fallback, Isolates) = Around(prog[t.code], t.pc, Isolates)
  BY <1>1, <1>2
<1>7. Fine(prog, tl', Front(s)) BY <1>4, <1>5, <1>6, BackFine
<1> QED BY <1>1, <1>7
-----------------------------------------------------------------------------
(* for and the jumps that belong to it                                     *)

(* A flat loop more, on top.                                               *)
LEMMA FlatAppend ==
  ASSUME NEW s, IsSeq(s), Ordered(s), NEW e, \A k \in Heads(s) : k < e.head
  PROVE  Ordered(Append(s, e)) /\ Heads(Append(s, e)) = Heads(s) \cup {e.head}
<1> DEFINE u == Append(s, e)
           m == Len(s) + 1
<1>1. /\ DOMAIN u = 1 .. m /\ u[m] = e /\ Len(s) \in Nat
      /\ \A i \in DOMAIN u : i = m \/ (i \in DOMAIN s /\ u[i] = s[i])
  BY AppendIs
<1>2. DOMAIN s = 1 .. Len(s) BY LenIs
<1>3. m \in DOMAIN u /\ \A i \in DOMAIN s : i \in DOMAIN u /\ i # m BY <1>1, <1>2, SMT
<1>4. \A i, j \in DOMAIN u : i < j => i # m BY <1>1, SMT
<1> HIDE DEF u, m
<1>5. \A i \in DOMAIN s : u[i] = s[i] BY <1>1, <1>3
<1>6. \A i \in DOMAIN s : s[i].head \in Heads(s) BY DEF Heads
<1>7. Ordered(u)
  <2> SUFFICES ASSUME NEW i \in DOMAIN u, NEW j \in DOMAIN u, i < j PROVE u[i].head < u[j].head
    BY DEF Ordered
  <2>1. i \in DOMAIN s /\ u[i] = s[i] BY <1>1, <1>4
  <2>2. CASE j = m BY <1>1, <1>6, <2>1, <2>2
  <2>3. CASE j # m BY <1>1, <2>1, <2>3 DEF Ordered
  <2> QED BY <2>2, <2>3
<1>8. \A k : k \in Heads(u) <=> k \in Heads(s) \/ k = e.head
  BY <1>1, <1>3, <1>5 DEF Heads
<1> QED BY <1>7, <1>8 DEF u

(* The loop on top is the innermost; without it the others are left.       *)
LEMMA FlatFront ==
  ASSUME NEW s \in Seq(Iterations), Ordered(s), s # <<>>
  PROVE  /\ Ordered(Front(s)) /\ Heads(Front(s)) = Heads(s) \ {Last(s).head}
         /\ Highest(Last(s).head, Heads(s))
<1> DEFINE m == Len(s)
           r == Front(s)
<1>1. IsSeq(s) BY DEF IsSeq
<1>2. /\ m \in DOMAIN s /\ Last(s) = s[m]
      /\ \A i \in DOMAIN r : i \in DOMAIN s /\ r[i] = s[i]
  BY <1>1, FrontIs
<1>3. DOMAIN s = 1 .. m /\ DOMAIN r = 1 .. m - 1 /\ m \in Nat BY <1>1, LenIs
<1>4. /\ \A i \in DOMAIN r : i < m
      /\ \A i \in DOMAIN s : i = m \/ (i \in DOMAIN r /\ i < m)
  BY <1>3, SMT
<1>5. \A i \in DOMAIN s : s[i].head \in Int
  <2>1. \A i \in DOMAIN s : s[i] \in Iterations
    <3> DEFINE S == Iterations
    <3>1. s \in Seq(S)
      OBVIOUS
    <3> HIDE DEF S
    <3>2. \A i \in DOMAIN s : s[i] \in S BY <3>1, SMT
    <3> QED BY <3>2 DEF S
  <2> QED BY <2>1 DEF Iterations
<1> HIDE DEF m, r
<1>6. Ordered(r) BY <1>2 DEF Ordered
<1>7. \A i \in DOMAIN r : r[i].head < s[m].head /\ r[i].head # s[m].head
  <2>1. \A i \in DOMAIN r : r[i].head < s[m].head BY <1>2, <1>4 DEF Ordered
  <2>2. \A i \in DOMAIN r : r[i].head \in Int /\ s[m].head \in Int BY <1>2, <1>5
  <2> QED BY <2>1, <2>2, SMT
<1>8. \A k : k \in Heads(r) <=> k \in Heads(s) /\ k # s[m].head
  BY <1>2, <1>4, <1>7 DEF Heads
<1>9. Highest(s[m].head, Heads(s))
  <2>1. s[m].head \in Heads(s) BY <1>2 DEF Heads
  <2>2. ASSUME NEW i \in DOMAIN s PROVE s[i].head <= s[m].head
    <3>1. i = m \/ s[i].head < s[m].head BY <1>2, <1>4 DEF Ordered
    <3>2. s[i].head \in Int /\ s[m].head \in Int BY <1>2, <1>5
    <3> QED BY <3>1, <3>2, SMT
  <2> QED BY <2>1, <2>2 DEF Highest, Heads
<1> QED BY <1>2, <1>6, <1>8, <1>9 DEF r

(* Only the heads count.                                                   *)
LEMMA FlatSame ==
  ASSUME NEW s, NEW u, DOMAIN u = DOMAIN s, \A i \in DOMAIN s : u[i].head = s[i].head, Ordered(s)
  PROVE  Ordered(u) /\ Heads(u) = Heads(s)
BY DEF Ordered, Heads

(* Writing to the loop on top leaves the heads.                            *)
LEMMA FlatWrite ==
  ASSUME NEW s \in Seq(Iterations), s # <<>>, Ordered(s), NEW u, NEW v,
         \/ u = [s EXCEPT ![Len(s)].iter = v]
         \/ u = [s EXCEPT ![Len(s)].left = v]
  PROVE  Ordered(u) /\ Heads(u) = Heads(s)
<1>1. Len(s) \in DOMAIN s /\ s[Len(s)] \in Iterations BY FrontType
<1>2. PICK e : e.head = s[Len(s)].head /\ u = [s EXCEPT ![Len(s)] = e]
  <2>1. CASE u = [s EXCEPT ![Len(s)].iter = v]
    <3>1. [s[Len(s)] EXCEPT !.iter = v].head = s[Len(s)].head BY <1>1 DEF Iterations
    <3>2. u = [s EXCEPT ![Len(s)] = [s[Len(s)] EXCEPT !.iter = v]] BY <2>1
    <3> QED BY <3>1, <3>2
  <2>2. CASE u = [s EXCEPT ![Len(s)].left = v]
    <3>1. [s[Len(s)] EXCEPT !.left = v].head = s[Len(s)].head BY <1>1 DEF Iterations
    <3>2. u = [s EXCEPT ![Len(s)] = [s[Len(s)] EXCEPT !.left = v]] BY <2>2
    <3> QED BY <3>1, <3>2
  <2> QED BY <2>1, <2>2
<1>3. DOMAIN u = DOMAIN s /\ \A i \in DOMAIN s : u[i] = IF i = Len(s) THEN e ELSE s[i]
  BY <1>2
<1>4. \A i \in DOMAIN s : u[i].head = s[i].head BY <1>2, <1>3
<1> QED BY <1>3, <1>4, FlatSame

(* Where no speculation begins or ends.                                    *)
LEMMA Restacked ==
  ASSUME NEW p, NEW s, NEW stack, Alongside(p, s, stack), NEW u,
         u.calls = s.calls, u.code = s.code, u.anchors = s.anchors,
         Counted(Len(u.loops), Around(p[s.code], u.pc, Limited)),
         Counted(u.manifests, Open(p, s.calls, Len(s.calls), s.code, u.pc, Isolates)),
         Ordered(u.flat), Heads(u.flat) \in Fors(p[s.code], u.pc, u.regs.more),
         Around(p[s.code], u.pc, Speculates) = Around(p[s.code], s.pc, Speculates)
  PROVE  Stacked(p, u, stack)
<1>1. Current(p, u) BY DEF Current, Tallied
<1>2. Speculated(p, s.calls, Len(s.calls), s.code, u.pc, stack)
  BY SpeculatedSame DEF Alongside
<1> QED BY <1>1, <1>2 DEF Alongside, Stacked

(* What a stacked timeline holds.                                          *)
LEMMA StackedIs ==
  ASSUME NEW p, NEW s, NEW stack, Stacked(p, s, stack)
  PROVE  /\ Counted(Len(s.loops), Around(p[s.code], s.pc, Limited))
         /\ Counted(s.manifests, Open(p, s.calls, Len(s.calls), s.code, s.pc, Isolates))
         /\ Ordered(s.flat) /\ Heads(s.flat) \in Fors(p[s.code], s.pc, s.regs.more)
         /\ Alongside(p, s, stack)
BY DEF Stacked, Current, Tallied

(* After the header comes its test, after the end the way back.            *)
LEMMA ForIs ==
  ASSUME NEW c, Built(c), NEW pc \in DOMAIN c
  PROVE  /\ pc \in Int /\ (pc + 1) - 1 = pc
         /\ At(c, pc - 1, {"for"}) => c[pc].op = "jumpIfNot" /\ c[pc].cond = "more"
         /\ At(c, pc - 1, {"endFor"}) => c[pc].op = "jump" /\ c[pc].to = c[pc - 1].head
<1>1. pc \in Int /\ (pc - 1) + 1 = pc /\ (pc + 1) - 1 = pc
  <2>1. pc \in Int BY EndIs
  <2> QED BY <2>1, SMT
<1>2. \A k \in DOMAIN c : c[k].op = "for" => At(c, k + 1, {"jumpIfNot"}) /\ c[k + 1].cond = "more"
  BY DEF Built, Jumps
<1>3. \A k \in DOMAIN c : c[k].op = "endFor" => At(c, k + 1, {"jump"}) /\ c[k + 1].to = c[k].head
  BY DEF Built, Jumps
<1>4. ASSUME At(c, pc - 1, {"for"}) PROVE c[pc].op = "jumpIfNot" /\ c[pc].cond = "more"
  <2>1. pc - 1 \in DOMAIN c /\ c[pc - 1].op = "for" BY <1>4 DEF At
  <2>2. At(c, (pc - 1) + 1, {"jumpIfNot"}) /\ c[(pc - 1) + 1].cond = "more"
    BY <1>2, <2>1
  <2> QED BY <1>1, <2>2 DEF At
<1>5. ASSUME At(c, pc - 1, {"endFor"}) PROVE c[pc].op = "jump" /\ c[pc].to = c[pc - 1].head
  <2>1. pc - 1 \in DOMAIN c /\ c[pc - 1].op = "endFor" BY <1>5 DEF At
  <2>2. At(c, (pc - 1) + 1, {"jump"}) /\ c[(pc - 1) + 1].to = c[pc - 1].head
    BY <1>3, <2>1
  <2> QED BY <1>1, <2>2 DEF At
<1> QED BY <1>1, <1>4, <1>5

(* The loop on top is this one exactly when it has its entry.              *)
LEMMA IteratingHeads ==
  ASSUME Ran, Executes("for"), NEW n, NEW t, t = Iterating(n)
  PROVE  LET A == Around(prog[tl.code], tl.pc, Iterates)
         IN /\ Heads(t.flat) = A \cup {tl.pc} /\ Ordered(t.flat)
            /\ tl.pc \notin A /\ \A k \in A : k < tl.pc
            /\ DOMAIN t = Fields /\ t.calls = tl.calls /\ t.code = tl.code
            /\ t.anchors = tl.anchors /\ t.loops = tl.loops /\ t.manifests = tl.manifests
            /\ t.pc = tl.pc + 1
<1> DEFINE c == prog[tl.code]
           A == Around(c, tl.pc, Iterates)
           pc == tl.pc
<1>1. /\ DOMAIN Fetched = Fields /\ Fetched.pc = tl.pc + 1 /\ Carries(tl, Fetched)
      /\ Built(c) /\ pc \in DOMAIN c /\ c[pc].op = "for"
  BY HereIs DEF Ran
<1>2. /\ Fetched.calls = tl.calls /\ Fetched.code = tl.code /\ Fetched.loops = tl.loops
      /\ Fetched.flat = tl.flat /\ Fetched.manifests = tl.manifests
      /\ Fetched.anchors = tl.anchors
  BY <1>1 DEF Carries
<1>3. pc \notin A /\ \A k \in A : k < pc BY <1>1, KindsAre, PastBegin, AroundIs
<1>4. Ordered(tl.flat) /\ (Heads(tl.flat) = A \/ Heads(tl.flat) = A \cup {pc})
  <2>1. Ordered(tl.flat) /\ Heads(tl.flat) \in Fors(c, pc, tl.regs.more)
    BY StackedIs DEF Ran
  <2>2. ~At(c, pc - 1, {"for"}) /\ ~At(c, pc - 1, {"endFor"}) BY <1>1, ForIs
  <2>3. Fors(c, pc, tl.regs.more) = {A, A \cup {pc}} BY <1>1, <2>2 DEF Fors, At
  <2> QED BY <2>1, <2>3
<1>5. tl.flat \in Seq(Iterations) /\ IsSeq(tl.flat)
  BY DEF Ran, Ready, Typed, StacksTyped, IsSeq
<1>6. OnTop(Fetched) <=> tl.flat # <<>> /\ Last(tl.flat).head = pc BY <1>2 DEF OnTop
<1>7. tl.flat # <<>> => Highest(Last(tl.flat).head, Heads(tl.flat))
  BY <1>4, <1>5, FlatFront
<1>8. OnTop(Fetched) <=> Heads(tl.flat) = A \cup {pc}
  <2>1. ASSUME OnTop(Fetched) PROVE Heads(tl.flat) = A \cup {pc}
    BY <1>3, <1>4, <1>6, <1>7, <2>1 DEF Highest
  <2>2. ASSUME Heads(tl.flat) = A \cup {pc} PROVE OnTop(Fetched)
    <3>1. tl.flat # <<>>
      <4>1. PICK i \in DOMAIN tl.flat : tl.flat[i].head = pc BY <2>2 DEF Heads
      <4> QED BY <4>1
    <3> DEFINE h == Last(tl.flat).head
    <3>2. Highest(h, A \cup {pc}) BY <1>7, <2>2, <3>1
    <3> HIDE DEF h, A
    <3>3. h = pc \/ (h < pc /\ pc <= h) BY <1>3, <3>2 DEF Highest
    <3>4. pc \in Int BY <1>1, ForIs
    <3>5. h \in Int
      <4>1. Last(tl.flat) \in Iterations BY <1>5, <3>1, FrontType
      <4> QED BY <4>1 DEF Iterations, h
    <3>6. h = pc BY <3>3, <3>4, <3>5, SMT
    <3> QED BY <1>6, <3>1, <3>6 DEF h
  <2> QED BY <2>1, <2>2
<1>9. CASE OnTop(Fetched)
  <2>1. t = Fetched BY <1>9 DEF Iterating
  <2> QED BY <1>1, <1>2, <1>3, <1>4, <1>8, <1>9, <2>1
<1>10. CASE ~OnTop(Fetched)
  <2> DEFINE e == [head |-> tl.pc, left |-> n, start |-> Fetched.clock, iter |-> Fetched.clock,
                   pace |-> Instr.pace, max |-> Instr.max]
  <2>1. t = [Fetched EXCEPT !.depth = @ + 1, !.flat = Append(@, e)]
    BY <1>10 DEF Iterating
  <2>2. e.head = pc
    OBVIOUS
  <2> HIDE DEF e
  <2>3. t.flat = Append(tl.flat, e) /\ DOMAIN t = Fields /\ t.pc = tl.pc + 1 /\ t.calls = tl.calls
        /\ t.code = tl.code /\ t.anchors = tl.anchors /\ t.loops = tl.loops
        /\ t.manifests = tl.manifests
    BY <1>1, <1>2, <2>1 DEF Fields
  <2>4. Heads(tl.flat) = A BY <1>4, <1>8, <1>10
  <2>5. Ordered(Append(tl.flat, e)) /\ Heads(Append(tl.flat, e)) = Heads(tl.flat) \cup {e.head}
    BY <1>3, <1>4, <1>5, <2>2, <2>4, FlatAppend
  <2> QED BY <1>3, <2>2, <2>3, <2>4, <2>5
<1> QED BY <1>9, <1>10

(* One turn of a for loop.                                                 *)
LEMMA ForGoesOn ==
  ASSUME Ran, status' = "running", For
  PROVE  Stacked(prog, tl', speculation_stack)
<1> DEFINE c == prog[tl.code]
           A == Around(c, tl.pc, Iterates)
<1>1. PICK n \in IF OnTop(Fetched) THEN {0} ELSE Elements :
        \E out \in ForNext(Iterating(n)) \cup Written(ForLeft(Iterating(n)), 2) : Becomes(out)
  BY DEF For, Only, Becomes, Error
<1>2. Executes("for") BY DEF For
<1> DEFINE t == Iterating(n)
<1>3. PICK out \in ForNext(t) \cup Written(ForLeft(t), 2) : tl' = out.t /\ out.err = "running"
  BY <1>1 DEF Becomes
<1>4. /\ Heads(t.flat) = A \cup {tl.pc} /\ Ordered(t.flat)
      /\ tl.pc \notin A /\ \A k \in A : k < tl.pc
      /\ DOMAIN t = Fields /\ t.calls = tl.calls /\ t.code = tl.code
      /\ t.anchors = tl.anchors /\ t.loops = tl.loops /\ t.manifests = tl.manifests
      /\ t.pc = tl.pc + 1
  BY <1>2, IteratingHeads
<1>5. Built(c) /\ tl.pc \in DOMAIN c /\ c[tl.pc].op = "for" BY <1>2, HereIs DEF Ran
<1>6. n \in Int
  <2>1. n = 0 \/ n \in Elements BY <1>1
  <2> QED BY <2>1, ControlAssumption, SMT
<1>7. Typed(prog, t) /\ t.flat # <<>> /\ t.flat \in Seq(Iterations) /\ DOMAIN t.regs = {"more", "promise", "lease"}
  <2>1. Typed(prog, t) /\ t.flat # <<>> BY <1>2, <1>6, IteratingIs DEF Ran
  <2> QED BY <2>1 DEF Typed, Placed, StacksTyped, Registers
<1> HIDE DEF t
<1>8. /\ Around(c, tl.pc + 1, Iterates) = A \cup {tl.pc}
      /\ Around(c, tl.pc + 1, Limited) = Around(c, tl.pc, Limited)
      /\ Around(c, tl.pc + 1, Speculates) = Around(c, tl.pc, Speculates)
      /\ Around(c, tl.pc + 1, Isolates) = Around(c, tl.pc, Isolates)
  <2>1. "for" \in Begins /\ "for" \in Iterates /\ "for" \notin Limited /\ "for" \notin Speculates /\ "for" \notin Isolates
    BY KindsAre
  <2>2. \A ops : Around(c, tl.pc + 1, ops) =
                  IF c[tl.pc].op \in ops THEN Around(c, tl.pc, ops) \cup {tl.pc} ELSE Around(c, tl.pc, ops)
    <3> HIDE DEF c
    <3> QED BY <1>5, <2>1, PastBegin
  <2> QED BY <1>5, <2>1, <2>2
<1>9. \A more : Fors(c, tl.pc + 1, more) = {IF more THEN A \cup {tl.pc} ELSE A}
  <2>1. At(c, (tl.pc + 1) - 1, {"for"}) /\ (tl.pc + 1) - 1 = tl.pc BY <1>5, ForIs DEF At
  <2>2. (A \cup {tl.pc}) \ {tl.pc} = A BY <1>4
  <2> QED BY <1>8, <2>1, <2>2 DEF Fors
<1>10. /\ Counted(Len(tl.loops), Around(c, tl.pc + 1, Limited))
       /\ Counted(tl.manifests, Open(prog, tl.calls, Len(tl.calls), tl.code, tl.pc + 1, Isolates))
       /\ Alongside(prog, tl, speculation_stack)
  <2>1. /\ Counted(Len(tl.loops), Around(c, tl.pc, Limited))
        /\ Counted(tl.manifests, Open(prog, tl.calls, Len(tl.calls), tl.code, tl.pc, Isolates))
        /\ Alongside(prog, tl, speculation_stack)
    BY StackedIs DEF Ran
  <2>2. Open(prog, tl.calls, Len(tl.calls), tl.code, tl.pc + 1, Isolates)
          = Open(prog, tl.calls, Len(tl.calls), tl.code, tl.pc, Isolates)
    BY <1>8 DEF Open
  <2> QED BY <1>8, <2>1, <2>2
<1>11. ASSUME NEW u, u.calls = tl.calls, u.code = tl.code, u.anchors = tl.anchors,
              u.loops = tl.loops, u.manifests = tl.manifests, u.pc = tl.pc + 1, Ordered(u.flat),
              \/ u.regs.more = TRUE /\ Heads(u.flat) = A \cup {tl.pc}
              \/ u.regs.more = FALSE /\ Heads(u.flat) = A
       PROVE  Stacked(prog, u, speculation_stack)
  <2>1. Heads(u.flat) \in Fors(c, u.pc, u.regs.more) BY <1>9, <1>11
  <2>2. /\ Counted(Len(u.loops), Around(c, u.pc, Limited))
        /\ Counted(u.manifests, Open(prog, tl.calls, Len(tl.calls), tl.code, u.pc, Isolates))
        /\ Around(c, u.pc, Speculates) = Around(c, tl.pc, Speculates)
    BY <1>8, <1>10, <1>11
  <2> QED BY <1>10, <1>11, <2>1, <2>2, Restacked
<1>12. CASE out \in ForNext(t)
  <2>1. PICK item \in Written(Ok(t), 1) :
          /\ item.err = "running" /\ out \in Written(Ok(Iteration(item.t)), 1)
          /\ DOMAIN item.t = Fields
          /\ \A f \in Fields \ {"clock", "unpaid"} : item.t[f] = t[f]
    BY <1>3, <1>4, <1>12, ForNextIs
  <2> DEFINE v == item.t
             u == [v EXCEPT !.flat[Len(v.flat)].iter = v.clock, !.regs.more = TRUE]
             ms == IF Instr.pace = None THEN 0 ELSE Instr.pace
             w == Iteration(v)
  <2>2. w = Enter(u, ms) /\ Ok(w).t = w /\ \E x \in Written(Ok(w), 1) : Becomes(x)
    BY <1>3, <2>1 DEF Iteration, Ok, Becomes
  <2>3. /\ DOMAIN v = Fields /\ v.flat = t.flat /\ v.regs = t.regs /\ v.calls = t.calls
        /\ v.code = t.code /\ v.anchors = t.anchors /\ v.loops = t.loops
        /\ v.manifests = t.manifests /\ v.pc = t.pc
    BY <2>1 DEF Fields
  <2> HIDE DEF v
  <2>4. /\ DOMAIN u = Fields /\ u.flat = [t.flat EXCEPT ![Len(t.flat)].iter = v.clock]
        /\ u.regs.more = TRUE /\ u.calls = t.calls /\ u.code = t.code /\ u.anchors = t.anchors
        /\ u.loops = t.loops /\ u.manifests = t.manifests /\ u.pc = t.pc
    BY <1>7, <2>3 DEF Fields
  <2> HIDE DEF u, ms
  <2>5. DOMAIN w = Fields /\ Carries(u, w) /\ w.pc = u.pc /\ w.regs = u.regs
    BY <2>2, <2>4 DEF Enter, Carries, Fields
  <2> HIDE DEF w
  <2>6. Carries(w, tl') /\ (tl').pc = w.pc /\ (tl').regs = w.regs
    BY <2>2, <2>5, WritesCarry
  <2>7. Ordered(u.flat) /\ Heads(u.flat) = Heads(t.flat) BY <1>4, <1>7, <2>4, FlatWrite
  <2>8. /\ (tl').calls = tl.calls /\ (tl').code = tl.code /\ (tl').anchors = tl.anchors
        /\ (tl').loops = tl.loops /\ (tl').manifests = tl.manifests /\ (tl').pc = tl.pc + 1
        /\ (tl').flat = u.flat /\ (tl').regs.more = TRUE
    BY <1>4, <2>4, <2>5, <2>6 DEF Carries
  <2> QED BY <1>4, <1>11, <2>7, <2>8
<1>13. CASE out \in Written(ForLeft(t), 2)
  <2> DEFINE elapsed == t.clock - Last(t.flat).start
             ms == IF Instr.max = None \/ elapsed < 0 THEN 0 ELSE Monus(Instr.max, elapsed)
             s == [Shallower(t) EXCEPT !.flat = Front(@)]
             v == Paid(s, ms).t
             w == ForLeft(t).t
  <2>0. ForLeft(t).err = "running" => Paid(s, ms).err = "running" /\ w = [v EXCEPT !.regs.more = FALSE]
    BY DEF ForLeft, Then, Ok
  <2> HIDE DEF s, ms, v, w
  <2>9. ForLeft(t).err = "running" /\ (DOMAIN w = Fields => Carries(w, tl') /\ (tl').pc = w.pc /\ (tl').regs = w.regs)
    <3>1. \E x \in Written(ForLeft(t), 2) : Becomes(x) BY <1>3, <1>13 DEF Becomes
    <3> QED BY <3>1, WritesCarry DEF w
  <2>1. Paid(s, ms).err = "running" /\ w = [v EXCEPT !.regs.more = FALSE] BY <2>0, <2>9
  <2>2. /\ DOMAIN s = Fields /\ s.flat = Front(t.flat) /\ s.calls = t.calls /\ s.code = t.code
        /\ s.anchors = t.anchors /\ s.loops = t.loops /\ s.manifests = t.manifests
        /\ s.pc = t.pc /\ s.regs = t.regs
    BY <1>4 DEF Shallower, Fields, s
  <2>3. DOMAIN v = Fields /\ Carries(s, v) /\ v.pc = s.pc /\ v.regs = s.regs
    BY <2>1, <2>2, PaidCarries DEF v
  <2>4. /\ (tl').regs.more = FALSE /\ (tl').pc = v.pc /\ Carries(v, tl')
    <3>1. DOMAIN v.regs = {"more", "promise", "lease"} BY <1>7, <2>2, <2>3
    <3>2. DOMAIN w = Fields /\ w.regs.more = FALSE /\ w.pc = v.pc /\ Carries(v, w)
      BY <2>1, <2>3, <3>1 DEF Carries, Fields
    <3> QED BY <2>9, <3>2 DEF Carries
  <2>5. Last(t.flat).head = tl.pc
    <3>1. Highest(Last(t.flat).head, A \cup {tl.pc}) BY <1>4, <1>7, FlatFront
    <3> DEFINE h == Last(t.flat).head
    <3> HIDE DEF h, A
    <3>2. h = tl.pc \/ (h < tl.pc /\ tl.pc <= h) BY <1>4, <3>1 DEF Highest, h
    <3>3. tl.pc \in Int BY <1>5, ForIs
    <3>4. h \in Int
      <4>1. Last(t.flat) \in Iterations BY <1>7, FrontType
      <4> QED BY <4>1 DEF Iterations, h
    <3>5. h = tl.pc BY <3>2, <3>3, <3>4, SMT
    <3> QED BY <3>5 DEF h
  <2>6. Ordered(Front(t.flat)) /\ Heads(Front(t.flat)) = A
    <3>1. Ordered(Front(t.flat)) /\ Heads(Front(t.flat)) = Heads(t.flat) \ {Last(t.flat).head}
      BY <1>4, <1>7, FlatFront
    <3>2. Heads(t.flat) = A \cup {tl.pc} /\ tl.pc \notin A BY <1>4
    <3> HIDE DEF A
    <3>3. (A \cup {tl.pc}) \ {tl.pc} = A BY <3>2
    <3> QED BY <2>5, <3>1, <3>2, <3>3
  <2>7. /\ (tl').calls = tl.calls /\ (tl').code = tl.code /\ (tl').anchors = tl.anchors
        /\ (tl').loops = tl.loops /\ (tl').manifests = tl.manifests /\ (tl').pc = tl.pc + 1
        /\ (tl').flat = Front(t.flat)
    BY <1>4, <2>2, <2>3, <2>4 DEF Carries
  <2> QED BY <1>11, <2>4, <2>6, <2>7
<1> QED BY <1>3, <1>12, <1>13

(* The end of an iteration: the loop stays on top.                         *)
LEMMA EndForGoesOn ==
  ASSUME Ran, status' = "running", EndFor
  PROVE  Stacked(prog, tl', speculation_stack)
<1> DEFINE c == prog[tl.code]
           A == Around(c, tl.pc, Iterates)
           next(u) == [u EXCEPT !.flat[Len(u.flat)].left = Monus(@, 1)]
           g == c[tl.pc].head
<1>1. Executes("endFor") /\ tl.flat # <<>> BY DEF EndFor, Only, Becomes, Error
<1>2. PICK out \in Paced(Fetched) : tl' = out.t /\ out.err = "running"
  BY <1>1 DEF EndFor, Only, Becomes
<1>3. /\ DOMAIN Fetched = Fields /\ Fetched.pc = tl.pc + 1 /\ Carries(tl, Fetched)
      /\ Built(c) /\ tl.pc \in DOMAIN c /\ c[tl.pc].op = "endFor"
  BY <1>1, HereIs DEF Ran
<1>4. \E v : /\ tl' = next(v) /\ DOMAIN v = Fields /\ Carries(tl, v) /\ v.pc = tl.pc + 1
  <2> DEFINE cost == Fetched.clock - Last(Fetched.flat).iter
             pace == Last(Fetched.flat).pace
             ms == Monus(pace - cost, 1)
  <2>4. cost \in Int
    <3>1. Fetched.flat \in Seq(Iterations) /\ Fetched.flat # <<>> /\ Fetched.clock \in Int
      BY <1>1, <1>3, FetchedType DEF Ran, StacksTyped, Carries
    <3>2. Last(Fetched.flat).iter \in Int BY <3>1, IterationType, 0 \in Int
    <3> QED BY <3>1, <3>2, SMT
  <2>1. \/ out = Ok(next(Fetched))
        \/ out = Then(Paid(Fetched, ms), next)
    BY <1>2, <2>4, PacedIs
  <2> HIDE DEF ms
  <2>2. CASE out = Ok(next(Fetched)) BY <1>2, <1>3, <2>2 DEF Ok
  <2>3. CASE out = Then(Paid(Fetched, ms), next)
    <3> DEFINE v == Paid(Fetched, ms).t
    <3>1. Paid(Fetched, ms).err = "running" /\ tl' = next(v) BY <1>2, <2>3 DEF Then, Ok
    <3>2. DOMAIN v = Fields /\ Carries(Fetched, v) /\ v.pc = Fetched.pc
      BY <1>3, <3>1, PaidCarries
    <3>3. Carries(tl, v) /\ v.pc = tl.pc + 1 BY <1>3, <3>2 DEF Carries
    <3> QED BY <3>1, <3>2, <3>3
  <2> QED BY <2>1, <2>2, <2>3
<1>5. PICK v : tl' = next(v) /\ DOMAIN v = Fields /\ Carries(tl, v) /\ v.pc = tl.pc + 1
  BY <1>4
<1>6. /\ (tl').calls = tl.calls /\ (tl').code = tl.code /\ (tl').anchors = tl.anchors
      /\ (tl').loops = tl.loops /\ (tl').manifests = tl.manifests /\ (tl').pc = tl.pc + 1
      /\ (tl').flat = [tl.flat EXCEPT ![Len(tl.flat)].left = Monus(tl.flat[Len(tl.flat)].left, 1)]
  BY <1>5 DEF Carries, Fields
<1> HIDE DEF next
<1>7. "endFor" \in EndOps /\ Calm("endFor") BY KindsAre
<1>8. Fine(prog, tl, speculation_stack) BY <1>3, <1>7, CalmFine DEF Ran
<1>9. Ordered(tl.flat) /\ Heads(tl.flat) = A BY <1>8, FineIs
<1>10. Ordered((tl').flat) /\ Heads((tl').flat) = A
  <2>1. tl.flat \in Seq(Iterations) BY DEF Ran, Ready, Typed, StacksTyped
  <2> QED BY <1>1, <1>6, <1>9, <2>1, FlatWrite
<1>11. c[g].op = "for" BY <1>3, <1>7, HeadIs
<1>12. c[g].op \in Iterates /\ c[g].op \notin Limited /\ c[g].op \notin Speculates /\ c[g].op \notin Isolates
  BY <1>11, KindsAre
<1>13. \A ops : IF c[g].op \in ops
                THEN /\ Loses(Around(c, tl.pc + 1, ops), Around(c, tl.pc, ops), g)
                     /\ Highest(g, Around(c, tl.pc, ops))
                ELSE Around(c, tl.pc + 1, ops) = Around(c, tl.pc, ops)
  <2> HIDE DEF c
  <2> QED BY <1>3, <1>7, EndSame
<1>14. /\ Around(c, tl.pc + 1, Limited) = Around(c, tl.pc, Limited)
       /\ Around(c, tl.pc + 1, Speculates) = Around(c, tl.pc, Speculates)
       /\ Around(c, tl.pc + 1, Isolates) = Around(c, tl.pc, Isolates)
       /\ Loses(Around(c, tl.pc + 1, Iterates), A, g)
  BY <1>12, <1>13
<1>15. Around(c, tl.pc + 1, Iterates) \cup {g} = A BY <1>14 DEF Loses
<1>16. \A more : Fors(c, tl.pc + 1, more) = {A}
  <2>1. (tl.pc + 1) - 1 = tl.pc BY <1>3, ForIs
  <2>2. ~At(c, (tl.pc + 1) - 1, {"for"}) /\ At(c, (tl.pc + 1) - 1, {"endFor"})
    BY <1>3, <2>1 DEF At
  <2>3. \A more : Fors(c, tl.pc + 1, more)
           = {Around(c, tl.pc + 1, Iterates) \cup {c[(tl.pc + 1) - 1].head}}
    BY <2>2 DEF Fors
  <2> QED BY <1>15, <2>1, <2>3
<1>17. Heads((tl').flat) \in Fors(c, (tl').pc, (tl').regs.more) BY <1>6, <1>10, <1>16
<1>18. Counted((tl').manifests, Open(prog, tl.calls, Len(tl.calls), tl.code, tl.pc + 1, Isolates))
  BY <1>6, <1>8, <1>14, FineIs DEF Open
<1>19. Counted(Len((tl').loops), Around(c, tl.pc + 1, Limited))
  BY <1>6, <1>8, <1>14, FineIs
<1>20. Alongside(prog, tl, speculation_stack) BY <1>8 DEF Fine
<1> QED BY <1>6, <1>10, <1>14, <1>17, <1>18, <1>19, <1>20, Restacked

(* A jump from the start of a statement.                                   *)
LEMMA JumpFine ==
  ASSUME Ran, NEW op \in {"jump", "jumpIfNot"}, Executes(op), Lands(prog[tl.code], tl.pc),
         NEW u, Carries(tl, u), u.pc = Instr.to \/ u.pc = tl.pc + 1
  PROVE  Fine(prog, u, speculation_stack)
<1> DEFINE c == prog[tl.code]
<1>1. Built(c) /\ tl.pc \in DOMAIN c /\ c[tl.pc].op = op /\ Instr = c[tl.pc]
  BY HereIs DEF Ran
<1>2. ~At(c, tl.pc, {"for"}) /\ Plain(op) BY <1>1, OpsAre DEF At, Plain
<1>3. Fine(prog, tl, speculation_stack) BY <1>2, StackedFine DEF Ran
<1>4. SameBlocks(c, u.pc, tl.pc)
  <2>1. CASE u.pc = tl.pc + 1
    <3>1. SameBlocks(c, tl.pc + 1, tl.pc) BY <1>1, <1>2, PlainSame
    <3> QED BY <2>1, <3>1
  <2>2. CASE u.pc = Instr.to
    <3>1. c[tl.pc].to \in Targets(c[tl.pc]) BY <1>1 DEF Targets
    <3>2. SameBlocks(c, c[tl.pc].to, tl.pc) BY <1>1, <3>1, TargetSame
    <3> QED BY <1>1, <2>2, <3>2
  <2> QED BY <2>1, <2>2
<1> QED BY <1>3, <1>4, FineMoves

(* A jump; the one after the end of a for leads to its header, with the    *)
(* loop still on top.                                                      *)
LEMMA JumpGoesOn ==
  ASSUME Ran, status' = "running", Jump
  PROVE  Stacked(prog, tl', speculation_stack)
<1> DEFINE c == prog[tl.code]
<1>1. Executes("jump") /\ tl' = [Fetched EXCEPT !.pc = Instr.to]
  BY DEF Jump, Only, Becomes, Ok
<1>2. /\ DOMAIN Fetched = Fields /\ Carries(tl, Fetched) /\ Instr = c[tl.pc]
      /\ Built(c) /\ tl.pc \in DOMAIN c /\ c[tl.pc].op = "jump"
  BY <1>1, HereIs DEF Ran
<1>3. Carries(tl, tl') /\ (tl').pc = Instr.to BY <1>1, <1>2 DEF Carries, Fields
<1>4. CASE Lands(c, tl.pc) BY <1>1, <1>3, <1>4, JumpFine, FineStacked
<1>5. CASE ~Lands(c, tl.pc)
  <2> DEFINE A == Around(c, tl.pc, Iterates)
             g == c[tl.pc - 1].head
  <2>1. ~At(c, tl.pc - 1, {"for"}) BY <1>2, ForIs
  <2>2. At(c, tl.pc - 1, {"endFor"}) BY <1>5, <2>1 DEF Lands, At
  <2>3. c[tl.pc].to = g BY <1>2, <2>2, ForIs
  <2>4. Lands(c, g) /\ Within(c, g) = Within(c, tl.pc)
    <3>1. c[tl.pc].to \in Targets(c[tl.pc]) BY <1>2 DEF Targets
    <3>2. Lands(c, c[tl.pc].to) /\ Within(c, c[tl.pc].to) = Within(c, tl.pc)
      BY <1>2, <2>1, <3>1 DEF Built, Jumps
    <3> QED BY <2>3, <3>2
  <2>5. \A ops : Around(c, g, ops) = Around(c, tl.pc, ops) BY <2>4 DEF Around
  <2>6. c[g].op = "for" /\ g \in DOMAIN c
    <3> DEFINE e == tl.pc - 1
    <3>1. e \in DOMAIN c /\ c[e].op = "endFor" BY <2>2 DEF At
    <3> HIDE DEF e
    <3>2. c[e].op \in EndOps BY <3>1, KindsAre
    <3>3. c[c[e].head].op = "for" BY <1>2, <3>1, <3>2, HeadIs
    <3>4. c[e].head \in DOMAIN c BY <1>2, <3>1, <3>2, EndIs
    <3> QED BY <3>3, <3>4 DEF e
  <2>7. /\ Counted(Len(tl.loops), Around(c, tl.pc, Limited))
        /\ Counted(tl.manifests, Open(prog, tl.calls, Len(tl.calls), tl.code, tl.pc, Isolates))
        /\ Ordered(tl.flat) /\ Heads(tl.flat) \in Fors(c, tl.pc, tl.regs.more)
        /\ Alongside(prog, tl, speculation_stack)
    BY StackedIs DEF Ran
  <2>8. Heads(tl.flat) = A \cup {g} BY <2>1, <2>2, <2>7 DEF Fors
  <2>9. \A more : Fors(c, g, more) = {A, A \cup {g}}
    <3>1. ~At(c, g - 1, {"for"}) /\ ~At(c, g - 1, {"endFor"}) /\ At(c, g, {"for"})
      BY <2>4, <2>6 DEF Lands, At
    <3> QED BY <2>5, <3>1 DEF Fors
  <2>10. (tl').pc = g BY <1>2, <1>3, <2>3
  <2>11. /\ (tl').calls = tl.calls /\ (tl').code = tl.code /\ (tl').anchors = tl.anchors
         /\ (tl').loops = tl.loops /\ (tl').manifests = tl.manifests /\ (tl').flat = tl.flat
    BY <1>3 DEF Carries
  <2> HIDE DEF A, g
  <2>12. Ordered((tl').flat) /\ Heads((tl').flat) \in Fors(c, (tl').pc, (tl').regs.more)
    BY <2>7, <2>8, <2>9, <2>10, <2>11
  <2>13. Counted((tl').manifests, Open(prog, tl.calls, Len(tl.calls), tl.code, (tl').pc, Isolates))
    BY <2>5, <2>7, <2>10, <2>11 DEF Open
  <2>14. Counted(Len((tl').loops), Around(c, (tl').pc, Limited))
    BY <2>5, <2>7, <2>10, <2>11
  <2>15. Around(c, (tl').pc, Speculates) = Around(c, tl.pc, Speculates) BY <2>5, <2>10
  <2> QED BY <2>7, <2>11, <2>12, <2>13, <2>14, <2>15, Restacked
<1> QED BY <1>4, <1>5

(* A conditional jump; the one after the header of a for goes by what the  *)
(* header wrote.                                                           *)
LEMMA JumpIfNotGoesOn ==
  ASSUME Ran, status' = "running", JumpIfNot
  PROVE  Fine(prog, tl', speculation_stack)
<1> DEFINE c == prog[tl.code]
<1>1. PICK cond \in IF Instr.cond = "more" THEN {tl.regs.more} ELSE BOOLEAN :
        Only(Ok(IF cond THEN Fetched ELSE [Fetched EXCEPT !.pc = Instr.to]))
  BY DEF JumpIfNot
<1>2. Executes("jumpIfNot") /\ tl' = IF cond THEN Fetched ELSE [Fetched EXCEPT !.pc = Instr.to]
  BY <1>1 DEF JumpIfNot, Only, Becomes, Ok
<1>3. /\ DOMAIN Fetched = Fields /\ Carries(tl, Fetched) /\ Instr = c[tl.pc]
      /\ Fetched.pc = tl.pc + 1
      /\ Built(c) /\ tl.pc \in DOMAIN c /\ c[tl.pc].op = "jumpIfNot"
  BY <1>2, HereIs DEF Ran
<1>4. Carries(tl, tl') /\ (tl').pc = IF cond THEN tl.pc + 1 ELSE Instr.to
  BY <1>2, <1>3 DEF Carries, Fields
<1>5. CASE Lands(c, tl.pc) BY <1>2, <1>4, <1>5, JumpFine
<1>6. CASE ~Lands(c, tl.pc)
  <2> DEFINE A == Around(c, tl.pc, Iterates)
             h == tl.pc - 1
             to == (tl').pc
  <2>1. ~At(c, h, {"endFor"}) BY <1>3, ForIs
  <2>2. At(c, h, {"for"}) BY <1>6, <2>1 DEF Lands, At
  <2>3. c[tl.pc].cond = "more" BY <1>3, <2>2, ForIs
  <2>4. cond = tl.regs.more BY <1>1, <1>3, <2>3
  <2>5. /\ Counted(Len(tl.loops), Around(c, tl.pc, Limited))
        /\ Counted(tl.manifests, Open(prog, tl.calls, Len(tl.calls), tl.code, tl.pc, Isolates))
        /\ Ordered(tl.flat) /\ Heads(tl.flat) \in Fors(c, tl.pc, tl.regs.more)
        /\ Alongside(prog, tl, speculation_stack)
    BY StackedIs DEF Ran
  <2>6. Heads(tl.flat) = IF cond THEN A ELSE A \ {h} BY <2>2, <2>4, <2>5 DEF Fors
  <2>7. \A ops \in {Limited, Speculates, Isolates} : h \notin Around(c, tl.pc, ops)
    <3>1. c[h].op = "for" BY <2>2 DEF At
    <3>2. \A ops \in {Limited, Speculates, Isolates} : "for" \notin ops BY KindsAre
    <3> HIDE DEF h
    <3> QED BY <1>3, <3>1, <3>2, AroundIs
  <2>8. /\ Lands(c, to) /\ Around(c, to, Iterates) = IF cond THEN A ELSE A \ {h}
        /\ \A ops \in {Limited, Speculates, Isolates} : Around(c, to, ops) = Around(c, tl.pc, ops)
    <3>1. CASE cond
      <4>1. SameBlocks(c, tl.pc + 1, tl.pc)
        <5>1. Plain("jumpIfNot") BY OpsAre DEF Plain
        <5> QED BY <1>3, <5>1, PlainSame
      <4> QED BY <1>4, <3>1, <4>1 DEF SameBlocks
    <3>2. CASE ~cond
      <4>1. to = c[tl.pc].to BY <1>3, <1>4, <3>2
      <4>2. to \in Targets(c[tl.pc]) BY <1>3, <4>1 DEF Targets
      <4>3. Lands(c, to) /\ Within(c, to) = {e \in Within(c, tl.pc) : c[e].head # h}
        BY <1>3, <2>2, <4>2 DEF Built, Jumps
      <4>4. \A ops : Around(c, to, ops) = Around(c, tl.pc, ops) \ {h}
        <5> SUFFICES ASSUME NEW ops, NEW k
                     PROVE  k \in Around(c, to, ops) <=> k \in Around(c, tl.pc, ops) /\ k # h
          OBVIOUS
        <5>1. \A pc : k \in Around(c, pc, ops)
                       <=> \E e \in Within(c, pc) : c[e].head = k /\ c[c[e].head].op \in ops
          BY DEF Around
        <5> QED BY <4>3, <5>1
      <4> QED BY <2>7, <3>2, <4>3, <4>4
    <3> QED BY <3>1, <3>2
  <2>9. /\ (tl').calls = tl.calls /\ (tl').code = tl.code /\ (tl').anchors = tl.anchors
        /\ (tl').loops = tl.loops /\ (tl').manifests = tl.manifests /\ (tl').flat = tl.flat
    BY <1>4 DEF Carries
  <2>10. Heads(tl.flat) = Around(c, to, Iterates) BY <2>6, <2>8
  <2> HIDE DEF A, h
  <2>11. Counted((tl').manifests, Open(prog, tl.calls, Len(tl.calls), tl.code, to, Isolates))
    BY <2>5, <2>8, <2>9 DEF Open
  <2>12. /\ Counted(Len((tl').loops), Around(c, to, Limited))
         /\ Around(c, to, Speculates) = Around(c, tl.pc, Speculates)
    BY <2>5, <2>8, <2>9
  <2> QED BY <2>5, <2>8, <2>9, <2>10, <2>11, <2>12, Landed
<1> QED BY <1>5, <1>6
-----------------------------------------------------------------------------
(* Calls, returns and rewinds                                              *)

(* A frame holds whatever the calls above it are.                          *)
LEMMA HeldPrefix ==
  ASSUME NEW p, NEW calls, NEW other, NEW n, \A k \in 1 .. n : other[k] = calls[k],
         NEW code, NEW pc, NEW loops, NEW flat, NEW manifests,
         Held(p, calls, n, code, pc, loops, flat, manifests)
  PROVE  Held(p, other, n, code, pc, loops, flat, manifests)
<1>1. Open(p, other, n, code, pc, Isolates) = Open(p, calls, n, code, pc, Isolates)
  BY OpenPrefix
<1> QED BY <1>1 DEF Held, Tallied

(* A routine begins with a frame for its caller.                           *)
LEMMA CallGoesOn ==
  ASSUME Ran, status' = "running", Call
  PROVE  Fine(prog, tl', speculation_stack)
<1> DEFINE f == Frame(Fetched)
           n == Len(tl.calls)
           deeper == Append(tl.calls, f)
           r == Instr.routine
           s == speculation_stack
<1>1. /\ Executes("call")
      /\ tl' = [Fetched EXCEPT !.calls = Append(@, f), !.code = r, !.pc = 1, !.depth = 0,
                  !.loops = <<>>, !.flat = <<>>, !.regs = Empty, !.entered = <<>>]
  BY DEF Call, Only, Becomes, Inserted, Ok, Error
<1>2. /\ DOMAIN Fetched = Fields /\ Fetched.pc = tl.pc + 1 /\ Carries(tl, Fetched)
      /\ WellFormed(prog, Instr) /\ Instr.op = "call"
  BY <1>1, HereIs DEF Ran
<1>3. /\ Fetched.calls = tl.calls /\ Fetched.code = tl.code /\ Fetched.loops = tl.loops
      /\ Fetched.flat = tl.flat /\ Fetched.manifests = tl.manifests
      /\ Fetched.anchors = tl.anchors
  BY <1>2 DEF Carries
<1>4. Fine(prog, Fetched, s) BY <1>1, <1>2, GoesNext, PlainOps
<1>5. /\ Held(prog, tl.calls, n, tl.code, tl.pc + 1, tl.loops, tl.flat, tl.manifests)
      /\ Speculated(prog, tl.calls, n, tl.code, tl.pc + 1, s)
      /\ HeldFrames(prog, tl.calls) /\ HeldAnchors(prog, tl.anchors) /\ HeldContexts(prog, s)
  BY <1>2, <1>3, <1>4 DEF Fine, HeldHere, Alongside
<1>6. /\ f.code = tl.code /\ f.pc = tl.pc + 1 /\ f.loops = tl.loops /\ f.flat = tl.flat
      /\ f.manifests = tl.manifests
  BY <1>2, <1>3 DEF Frame
<1>7. /\ (tl').calls = deeper /\ (tl').code = r /\ (tl').pc = 1 /\ (tl').loops = <<>>
      /\ (tl').flat = <<>> /\ (tl').manifests = tl.manifests /\ (tl').anchors = tl.anchors
  BY <1>1, <1>2, <1>3 DEF Fields
<1>8. Built(prog[r])
  <2>1. r \in DOMAIN prog /\ prog \in Programs BY <1>2 DEF WellFormed, Ran, Ready
  <2> QED BY <2>1, BuiltIs
<1>9. Lands(prog[r], 1) /\ \A ops : Around(prog[r], 1, ops) = {} BY <1>8, FirstIs
<1> HIDE DEF f, n
<1>10. /\ DOMAIN deeper = 1 .. n + 1 /\ deeper[n + 1] = f /\ n \in Nat /\ Len(deeper) = n + 1
       /\ \A k \in DOMAIN deeper : k = n + 1 \/ (k \in DOMAIN tl.calls /\ deeper[k] = tl.calls[k])
  BY RanIs, AppendIs, LenIs DEF n
<1>11. \A k \in 1 .. n : deeper[k] = tl.calls[k]
  <2>1. \A k \in 1 .. n : k \in 1 .. n + 1 /\ k # n + 1 BY <1>10, SMT
  <2> QED BY <1>10, <2>1
<1> HIDE DEF deeper
<1>12. Open(prog, deeper, n + 1, r, 1, Isolates) = Open(prog, tl.calls, n, tl.code, tl.pc + 1, Isolates)
  <2>0. n \in Nat /\ Around(prog[r], 1, Isolates) = {} BY <1>9, <1>10
  <2>1. Open(prog, deeper, n + 1, r, 1, Isolates)
          = Open(prog, tl.calls, n, deeper[n + 1].code, deeper[n + 1].pc, Isolates)
    BY <1>11, <2>0, OpenCall
  <2> QED BY <1>6, <1>10, <2>1
<1>13. HeldHere(prog, tl')
  <2>1. Len(<<>>) = 0 /\ Ordered(<<>>) /\ Heads(<<>>) = {} BY DEF Ordered, Heads
  <2>2. Tallied(prog, deeper, n + 1, r, 1, <<>>, tl.manifests)
    BY <1>5, <1>9, <1>12, <2>1, CountedNone DEF Held, Tallied
  <2> QED BY <1>7, <1>9, <1>10, <2>1, <2>2 DEF HeldHere, Held
<1>14. Speculated(prog, deeper, n + 1, r, 1, s)
  <2>1. deeper[n + 1].code = tl.code /\ deeper[n + 1].pc = tl.pc + 1 BY <1>6, <1>10
  <2> QED BY <1>5, <1>9, <1>10, <1>11, <2>1, RanIs, SpeculatedCall
<1>15. HeldFrames(prog, deeper)
  <2> SUFFICES ASSUME NEW k \in DOMAIN deeper
               PROVE  Held(prog, deeper, k - 1, deeper[k].code, deeper[k].pc, deeper[k].loops,
                           deeper[k].flat, deeper[k].manifests)
    BY DEF HeldFrames
  <2>1. CASE k = n + 1
    <3>1. k - 1 = n BY <1>10, <2>1, SMT
    <3>2. Held(prog, deeper, n, tl.code, tl.pc + 1, tl.loops, tl.flat, tl.manifests)
      BY <1>5, <1>11, HeldPrefix
    <3> QED BY <1>6, <1>10, <2>1, <3>1, <3>2
  <2>2. CASE k # n + 1
    <3>1. k \in DOMAIN tl.calls /\ deeper[k] = tl.calls[k] BY <1>10, <2>2
    <3> DEFINE g == tl.calls[k]
    <3>2. Held(prog, tl.calls, k - 1, g.code, g.pc, g.loops, g.flat, g.manifests)
      BY <1>5, <3>1 DEF HeldFrames
    <3>3. \A j \in 1 .. k - 1 : j \in 1 .. n BY <1>10, <2>2, SMT
    <3> HIDE DEF g
    <3>4. Held(prog, deeper, k - 1, g.code, g.pc, g.loops, g.flat, g.manifests)
      BY <1>11, <3>2, <3>3, HeldPrefix
    <3> QED BY <3>1, <3>4 DEF g
  <2> QED BY <2>1, <2>2
<1> QED BY <1>5, <1>7, <1>10, <1>13, <1>14, <1>15 DEF Fine, Alongside

(* A return from outside every speculation of the routine takes the frame. *)
LEMMA ReturnGoesOn ==
  ASSUME Ran, status' = "running", astray' = {}, Return
  PROVE  Fine(prog, tl', speculation_stack)
<1> DEFINE f == Last(tl.calls)
           n == Len(tl.calls) - 1
           outer == Front(tl.calls)
           s == speculation_stack
<1>1. /\ Executes("return") /\ tl.calls # <<>> /\ ~SpeculatesHere
      /\ tl' = Returned(Fetched, f)
  BY DEF Return, Becomes, Inserted, Ok, Error, Strays
<1>2. /\ DOMAIN Fetched = Fields /\ Carries(tl, Fetched)
      /\ Built(prog[tl.code]) /\ tl.pc \in DOMAIN prog[tl.code]
      /\ prog[tl.code][tl.pc].op = "return"
  BY <1>1, HereIs DEF Ran
<1>3. Fetched.calls = tl.calls /\ Fetched.anchors = tl.anchors BY <1>2 DEF Carries
<1>4. Fine(prog, tl, s) BY <1>2, CalmFine, PlainOps DEF Ran
<1>5. /\ (tl').calls = outer /\ (tl').code = f.code /\ (tl').pc = f.pc /\ (tl').loops = f.loops
      /\ (tl').flat = f.flat /\ (tl').manifests = f.manifests /\ (tl').anchors = tl.anchors
  BY <1>1, <1>2, <1>3 DEF Returned, Fields
<1>6. /\ Speculated(prog, tl.calls, Len(tl.calls), tl.code, tl.pc, s)
      /\ HeldFrames(prog, tl.calls) /\ HeldAnchors(prog, tl.anchors) /\ HeldContexts(prog, s)
  BY <1>4 DEF Fine, Alongside
<1>7. Around(prog[tl.code], tl.pc, Speculates) = {}
  BY <1>1 DEF SpeculatesHere, Speculates, Code
<1>8. /\ Len(tl.calls) \in DOMAIN tl.calls /\ f = tl.calls[Len(tl.calls)]
      /\ \A k \in DOMAIN outer : k \in DOMAIN tl.calls /\ outer[k] = tl.calls[k]
  BY <1>1, RanIs, FrontIs
<1>9. /\ n \in Nat /\ n + 1 = Len(tl.calls) /\ Len(outer) = n /\ DOMAIN outer = 1 .. n
      /\ Len(tl.calls) - 1 = n
  <2>1. Len(tl.calls) \in Nat /\ Len(tl.calls) # 0 /\ Len(outer) = Len(tl.calls) - 1
        /\ DOMAIN outer = 1 .. Len(tl.calls) - 1
    BY <1>1, RanIs, LenIs
  <2> QED BY <2>1, SMT
<1> HIDE DEF n, outer, f
<1>10. \A k \in 1 .. n : tl.calls[k] = outer[k] BY <1>8, <1>9
<1>11. Held(prog, tl.calls, n, f.code, f.pc, f.loops, f.flat, f.manifests)
  <2>1. Held(prog, tl.calls, Len(tl.calls) - 1, f.code, f.pc, f.loops, f.flat, f.manifests)
    BY <1>6, <1>8 DEF HeldFrames
  <2> QED BY <1>9, <2>1
<1>12. Held(prog, outer, n, f.code, f.pc, f.loops, f.flat, f.manifests)
  BY <1>10, <1>11, HeldPrefix
<1>13. Speculated(prog, outer, n, f.code, f.pc, s)
  <2>1. Speculated(prog, tl.calls, n + 1, tl.code, tl.pc, s) BY <1>6, <1>9
  <2>2. Speculated(prog, outer, n, tl.calls[n + 1].code, tl.calls[n + 1].pc, s)
    BY <1>7, <1>9, <1>10, <2>1, RanIs, SpeculatedReturn
  <2>3. tl.calls[n + 1] = f BY <1>8, <1>9
  <2> QED BY <2>2, <2>3
<1>14. HeldFrames(prog, outer)
  <2> SUFFICES ASSUME NEW k \in DOMAIN outer
               PROVE  Held(prog, outer, k - 1, outer[k].code, outer[k].pc, outer[k].loops,
                           outer[k].flat, outer[k].manifests)
    BY DEF HeldFrames
  <2> DEFINE g == tl.calls[k]
  <2>1. k \in DOMAIN tl.calls /\ outer[k] = g BY <1>8
  <2>2. Held(prog, tl.calls, k - 1, g.code, g.pc, g.loops, g.flat, g.manifests)
    BY <1>6, <2>1 DEF HeldFrames
  <2>3. \A j \in 1 .. k - 1 : j \in 1 .. n BY <1>9, SMT
  <2> HIDE DEF g
  <2>4. Held(prog, outer, k - 1, g.code, g.pc, g.loops, g.flat, g.manifests)
    BY <1>10, <2>2, <2>3, HeldPrefix
  <2> QED BY <2>1, <2>4
<1> QED BY <1>5, <1>6, <1>9, <1>12, <1>13, <1>14 DEF Fine, HeldHere, Alongside

(* A rewind to an anchor set with the same calls and the same stacks.      *)
LEMMA RewindGoesOn ==
  ASSUME Ran, status' = "running", astray' = {}, Rewind
  PROVE  Fine(prog, tl', speculation_stack)
<1> DEFINE a == tl.anchors[Instr.name]
           s == speculation_stack
<1>1. /\ Executes("rewind") /\ Instr.name \in DOMAIN tl.anchors /\ tl' = Rewound(Fetched, a)
      /\ a.calls = tl.calls /\ a.stacks = Stacks(tl)
  BY DEF Rewind, Becomes, Ok, Error, Strays
<1>2. /\ DOMAIN Fetched = Fields /\ Carries(tl, Fetched)
      /\ Built(prog[tl.code]) /\ tl.pc \in DOMAIN prog[tl.code]
      /\ prog[tl.code][tl.pc].op = "rewind"
  BY <1>1, HereIs DEF Ran
<1>3. Fine(prog, tl, s) BY <1>2, CalmFine, PlainOps DEF Ran
<1>4. /\ a.stacks[1] = tl.loops /\ a.stacks[2] = tl.flat /\ a.stacks[4] = tl.manifests
      /\ a.stacks[5] = s
  BY <1>1 DEF Stacks
<1>5. /\ Held(prog, a.calls, Len(a.calls), a.code, a.pc, a.stacks[1], a.stacks[2], a.stacks[4])
      /\ Speculated(prog, a.calls, Len(a.calls), a.code, a.pc, a.stacks[5])
      /\ HeldFrames(prog, tl.calls) /\ HeldAnchors(prog, tl.anchors) /\ HeldContexts(prog, s)
  BY <1>1, <1>3 DEF Fine, Alongside, HeldAnchors
<1> HIDE DEF a
<1>6. /\ (tl').calls = tl.calls /\ (tl').code = a.code /\ (tl').pc = a.pc
      /\ (tl').loops = tl.loops /\ (tl').flat = tl.flat /\ (tl').manifests = tl.manifests
      /\ (tl').anchors = tl.anchors
  BY <1>1, <1>2 DEF Rewound, Carries, Fields
<1> QED BY <1>1, <1>4, <1>5, <1>6 DEF Fine, HeldHere, Alongside
-----------------------------------------------------------------------------
(* break: the scan counts the loops                                        *)

(* Which blocks are loops.                                                 *)
LEMMA LoopOps ==
  /\ \A op : op \in Opens <=> op \in Limited \/ op \in Iterates
  /\ Opens \subseteq Begins /\ Closes \subseteq EndOps
  /\ \A b, e : <<b, e>> \in BeginEnd => (b \in Opens <=> e \in Closes)
  /\ \A op : op \in Speculates \/ op \in Isolates => op \notin Opens
<1>1. \A b, e : <<b, e>> \in BeginEnd => (b \in Opens <=> e \in Closes)
  <2> SUFFICES ASSUME NEW b, NEW e, <<b, e>> \in BeginEnd PROVE b \in Opens <=> e \in Closes
    OBVIOUS
  <2>1. \/ b = "loop" /\ e = "endLoop"
        \/ b = "while" /\ e = "endWhile"
        \/ b = "tick" /\ e = "endTick"
        \/ b = "for" /\ e = "endFor"
        \/ b = "speculate" /\ e = "endSpeculate"
        \/ b = "isolate" /\ e = "endIsolate"
        \/ b = "lease" /\ e = "endLease"
    BY DEF BeginEnd
  <2> QED BY <2>1 DEF Opens, Closes
<1> QED BY <1>1, OpsAre DEF Opens, Closes, Limited, Iterates, Speculates, Isolates

(* What a set of heads counts.                                             *)
LEMMA DepthIs ==
  ASSUME NEW c, Built(c)
  PROVE  \A i : Counted(Depth(c, i), Around(c, i, Opens)) /\ Depth(c, i) \in Nat
<1> SUFFICES ASSUME NEW i
             PROVE  Counted(Depth(c, i), Around(c, i, Opens)) /\ Depth(c, i) \in Nat
  OBVIOUS
<1>1. IsFiniteSet(Around(c, i, Opens)) BY AroundIs
<1> QED BY <1>1, FS_CardinalityType DEF Counted, Depth

(* Past each instruction the number of loops around changes as the scan    *)
(* counts.                                                                 *)
LEMMA DepthNext ==
  ASSUME NEW c, Built(c), NEW i \in DOMAIN c
  PROVE  Depth(c, i + 1) = IF c[i].op \in Opens THEN Depth(c, i) + 1
                           ELSE IF c[i].op \in Closes THEN Monus(Depth(c, i), 1)
                           ELSE Depth(c, i)
<1> DEFINE A == Around(c, i, Opens)
           B == Around(c, i + 1, Opens)
<1>1. Counted(Depth(c, i), A) /\ Depth(c, i) \in Nat BY DepthIs
<1>2. Opens \subseteq Begins /\ Closes \subseteq EndOps /\ Begins \cap EndOps = {}
  BY LoopOps, OpsAre
<1>3. CASE c[i].op \in Opens
  <2>1. c[i].op \in Begins BY <1>2, <1>3
  <2>2. Gains(B, A, i) BY <1>3, <2>1, BeginSame
  <2> HIDE DEF A, B
  <2>3. Counted(Depth(c, i) + 1, B) BY <1>1, <2>2, CountedIs
  <2> QED BY <1>3, <2>3 DEF Counted, Depth, B
<1>4. CASE c[i].op \in Closes
  <2>1. c[i].op \in EndOps /\ c[i].op \notin Opens BY <1>2, <1>4
  <2>2. <<c[c[i].head].op, c[i].op>> \in BeginEnd BY <2>1, EndSame
  <2>3. c[c[i].head].op \in Opens BY <1>4, <2>2, LoopOps
  <2>4. \A ops : c[c[i].head].op \in ops => Loses(Around(c, i + 1, ops), Around(c, i, ops), c[i].head)
    BY <2>1, EndSame
  <2>5. Loses(B, A, c[i].head) BY <2>3, <2>4
  <2> HIDE DEF A, B
  <2>6. Counted(Depth(c, i) - 1, B) /\ Depth(c, i) - 1 \in Nat BY <1>1, <2>5, CountedIs
  <2>7. Monus(Depth(c, i), 1) = Depth(c, i) - 1 BY <1>1, <2>6, SMT DEF Monus
  <2> QED BY <1>4, <2>1, <2>6, <2>7 DEF Counted, Depth, B
<1>5. CASE c[i].op \notin Opens /\ c[i].op \notin Closes
  <2>1. A = B
    <3>1. CASE c[i].op \in Begins BY <1>5, <3>1, BeginSame
    <3>2. CASE c[i].op \in EndOps
      <4>1. <<c[c[i].head].op, c[i].op>> \in BeginEnd BY <3>2, EndSame
      <4>2. c[c[i].head].op \notin Opens BY <1>5, <4>1, LoopOps
      <4>3. \A ops : c[c[i].head].op \notin ops => Around(c, i + 1, ops) = Around(c, i, ops)
        BY <3>2, EndSame
      <4> QED BY <4>2, <4>3
    <3>3. CASE c[i].op \notin Begins /\ c[i].op \notin EndOps BY <3>3, PastPlain
    <3> QED BY <3>1, <3>2, <3>3
  <2> QED BY <1>5, <2>1 DEF Depth
<1> QED BY <1>3, <1>4, <1>5

(* The scan counts the loops around every instruction it passes.           *)
LEMMA DepthsAre ==
  ASSUME NEW c, Built(c), NEW from \in Nat \ {0}
  PROVE  \A i \in from .. Len(c) + 1 : Depths(c, from, Depth(c, from))[i] = Depth(c, i)
<1> DEFINE D == Depth(c, from)
           S == from .. Len(c) + 1
           w == [i \in S |-> Depth(c, i)]
           d == Depths(c, from, D)
           Step(i, n) == IF c[i].op \in Opens THEN n + 1
                         ELSE IF c[i].op \in Closes THEN Monus(n, 1) ELSE n
<1>1. \A f : Scanned(c, from, D, f) <=> f = [i \in S |-> IF i = from THEN D ELSE Step(i - 1, f[i - 1])]
  BY DEF Scanned
<1>2. \A i \in S : i # from => /\ i - 1 \in S /\ i - 1 \in DOMAIN c /\ (i - 1) + 1 = i
                               /\ i - 1 \in Nat /\ ~(i <= i - 1)
  <2>1. Len(c) \in Nat /\ DOMAIN c = 1 .. Len(c) BY EndIs
  <2> QED BY <2>1, SMT
<1>3. \A i \in S : i # from => Depth(c, i) = Step(i - 1, Depth(c, i - 1))
  <2> SUFFICES ASSUME NEW i \in S, i # from PROVE Depth(c, i) = Step(i - 1, Depth(c, i - 1))
    OBVIOUS
  <2> DEFINE j == i - 1
  <2>1. j \in DOMAIN c /\ j + 1 = i BY <1>2
  <2> HIDE DEF j
  <2>2. Depth(c, j + 1) = Step(j, Depth(c, j)) BY <2>1, DepthNext
  <2> QED BY <2>1, <2>2 DEF j
<1> HIDE DEF Step
<1>4. \A i \in S : w[i] = IF i = from THEN D ELSE Step(i - 1, w[i - 1])
  <2> SUFFICES ASSUME NEW i \in S PROVE w[i] = IF i = from THEN D ELSE Step(i - 1, w[i - 1])
    OBVIOUS
  <2>1. CASE i = from BY <2>1
  <2>2. CASE i # from BY <1>2, <1>3, <2>2
  <2> QED BY <2>1, <2>2
<1>5. w = [i \in S |-> w[i]]
  OBVIOUS
<1>6. \A i \in S : w[i] = Depth(c, i)
  OBVIOUS
<1>7. d = CHOOSE f : Scanned(c, from, D, f) BY DEF Depths, Scanned
<1> HIDE DEF w, D, S, d
<1>8. Scanned(c, from, D, w) BY <1>1, <1>4, <1>5
<1>9. Scanned(c, from, D, d) BY <1>7, <1>8
<1>10. \A i \in S : d[i] = IF i = from THEN D ELSE Step(i - 1, d[i - 1]) BY <1>1, <1>9
<1> DEFINE T == {i \in S : d[i] # w[i]}
<1>11. S \subseteq Nat BY SMT DEF S
<1>12. T = {}
  <2> SUFFICES ASSUME T # {} PROVE FALSE
    OBVIOUS
  <2>1. PICK i \in T : \A j \in T : i <= j BY <1>11, Least
  <2>2. i \in S /\ d[i] # w[i] BY <2>1
  <2>3. i # from BY <1>4, <1>10, <2>2
  <2>4. i - 1 \in S /\ ~(i <= i - 1) BY <1>2, <2>2, <2>3
  <2>5. d[i - 1] = w[i - 1] BY <2>1, <2>4
  <2> QED BY <1>4, <1>10, <2>2, <2>3, <2>5
<1>13. \A i \in S : d[i] = Depth(c, i) BY <1>6, <1>12
<1> QED BY <1>13 DEF S, d, D
-----------------------------------------------------------------------------
(* break: it leaves the innermost loop                                     *)

(* The innermost loop around a break has its end after the break.          *)
LEMMA LeftExists ==
  ASSUME NEW c, Built(c), NEW pc \in DOMAIN c, c[pc].op = "break",
         NEW h, Highest(h, Around(c, pc, Opens))
  PROVE  \E e : Left(c, pc, h, e)
<1>1. h \in Around(c, pc, Opens) BY DEF Highest
<1>2. PICK e \in Ends(c) : c[e].head = h /\ h < pc /\ pc <= e /\ c[h].op \in Opens
  BY <1>1, AroundIs
<1>3. /\ e \in DOMAIN c /\ h \in DOMAIN c /\ e \in Int /\ h \in Int /\ pc \in Int
      /\ <<c[h].op, c[e].op>> \in BeginEnd /\ c[e].op \in EndOps /\ DOMAIN c = 1 .. Len(c)
      /\ Len(c) \in Nat
  BY <1>2, EndIs
<1>4. c[e].op \in Closes BY <1>2, <1>3, LoopOps
<1>5. e # pc
  <2>1. "break" \notin EndOps BY OpsAre
  <2> QED BY <1>3, <2>1
<1>6. pc < e /\ e <= Len(c) BY <1>2, <1>3, <1>5, SMT
<1> QED BY <1>2, <1>3, <1>4, <1>6 DEF Left

(* What is around the end of that loop and after it.                       *)
LEMMA LeftAround ==
  ASSUME NEW c, Built(c), NEW pc, NEW h, NEW e, Left(c, pc, h, e)
  PROVE  /\ \A ops : Around(c, e + 1, ops) = {k \in Around(c, pc, ops) : k < h}
         /\ Around(c, e, Opens) = Around(c, pc, Opens)
<1>1. /\ e \in Ends(c) /\ c[e].head = h /\ h \in DOMAIN c /\ c[h].op \in Opens
      /\ h < pc /\ pc < e /\ h \in Int /\ pc \in Int /\ e \in Int
      /\ Highest(h, Around(c, pc, Opens))
  BY DEF Left
<1>2. h \in Around(c, pc, Opens) /\ \A k \in Around(c, pc, Opens) : k <= h
  BY <1>1 DEF Highest
<1>3. \A ops : Around(c, h, ops) = {k \in Around(c, pc, ops) : k < h}
  BY <1>1, <1>2, Outside
<1> DEFINE A(n, ops) == Around(c, n, ops)
<1>4. ASSUME NEW ops
      PROVE  /\ A(e + 1, ops) = A(e, ops) \ {h}
             /\ (h \in A(e, ops)) <=> (c[h].op \in ops)
             /\ \A k \in A(e, ops) : k <= h
  BY <1>1, PastEnd
<1>5. h \in A(e, Opens) BY <1>1, <1>4
<1>11. \A ops : A(h, ops) = {k \in A(e, ops) : k < h} BY <1>1, <1>5, Outside
<1> HIDE DEF A
<1>6. \A n, ops : \A k \in A(n, ops) : k \in Int BY AroundIs, SMT DEF A
<1>7. \A k \in Int : k <= h => ((k < h) <=> (k # h)) BY <1>1, SMT
<1>8. ASSUME NEW ops PROVE A(e, ops) \ {h} = {k \in A(e, ops) : k < h}
  <2>1. \A k \in A(e, ops) : k \in Int /\ k <= h BY <1>4, <1>6
  <2>2. \A k \in A(e, ops) : (k < h) <=> (k # h) BY <1>7, <2>1
  <2> QED BY <2>2
<1>9. ASSUME NEW ops PROVE A(e + 1, ops) = {k \in A(pc, ops) : k < h}
  <2>1. A(e + 1, ops) = {k \in A(e, ops) : k < h} BY <1>4, <1>8
  <2>2. A(h, ops) = {k \in A(e, ops) : k < h} BY <1>11
  <2>3. A(h, ops) = {k \in A(pc, ops) : k < h} BY <1>3 DEF A
  <2> QED BY <2>1, <2>2, <2>3
<1>10. A(e, Opens) = A(pc, Opens)
  <2>1. h \in A(e, Opens) /\ h \in A(pc, Opens) BY <1>2, <1>5 DEF A
  <2>2. {k \in A(e, Opens) : k < h} = {k \in A(pc, Opens) : k < h}
    <3>1. A(h, Opens) = {k \in A(pc, Opens) : k < h} BY <1>3 DEF A
    <3> QED BY <1>11, <3>1
  <2>3. \A k \in A(e, Opens) : k = h \/ k < h BY <1>4, <1>6, <1>7
  <2>4. \A k \in A(pc, Opens) : k = h \/ k < h BY <1>2, <1>6, <1>7 DEF A
  <2> QED BY <2>1, <2>2, <2>3, <2>4
<1> QED BY <1>9, <1>10 DEF A

(* More of a finite set counts more.                                       *)
LEMMA CountedMore ==
  ASSUME NEW n, NEW A, Counted(n, A), NEW m, NEW B, Counted(m, B), A \subseteq B, NEW x \in B, x \notin A
  PROVE  n < m
<1>1. IsFiniteSet(B) /\ Cardinality(B) = m /\ Cardinality(A) = n BY DEF Counted
<1>2. A \subseteq B \ {x}
  OBVIOUS
<1>3. IsFiniteSet(B \ {x}) /\ Cardinality(B \ {x}) = m - 1 BY <1>1, FS_RemoveElement
<1>4. n <= m - 1 BY <1>1, <1>2, <1>3, FS_Subset
<1>5. n \in Nat /\ m \in Nat BY <1>1, CountedIs
<1> QED BY <1>4, <1>5, SMT

(* No loop that ends on the way is the one that is left.                   *)
LEMMA LeftFirst ==
  ASSUME NEW c, Built(c), NEW pc \in DOMAIN c, c[pc].op = "break", NEW h, NEW e, Left(c, pc, h, e),
         NEW depth, depth = Depth(c, pc)
  PROVE  /\ e \in Stops(c, pc + 1, depth)
         /\ \A i \in Stops(c, pc + 1, depth) : e <= i /\ i \in Int
         /\ depth # 0
<1> DEFINE from == pc + 1
           d == Depths(c, from, depth)
<1>1. /\ e \in Ends(c) /\ c[e].head = h /\ h \in DOMAIN c /\ c[h].op \in Opens
      /\ c[e].op \in Closes /\ h < pc /\ pc < e /\ e <= Len(c)
      /\ h \in Int /\ pc \in Int /\ e \in Int
      /\ h \in Around(c, pc, Opens) /\ \A k \in Around(c, pc, Opens) : k <= h
  BY DEF Left, Highest
<1>2. DOMAIN c = 1 .. Len(c) /\ Len(c) \in Nat BY EndIs
<1>3. from \in Nat \ {0} BY <1>2, SMT
<1>4. Around(c, from, Opens) = Around(c, pc, Opens)
  <2>1. "break" \notin Begins /\ "break" \notin EndOps BY OpsAre
  <2> QED BY <2>1, PastPlain
<1>5. depth = Depth(c, from) BY <1>4 DEF Depth
<1>6. \A i \in from .. Len(c) + 1 : d[i] = Depth(c, i) BY <1>3, <1>5, DepthsAre
<1>7. Counted(depth, Around(c, pc, Opens)) /\ depth \in Nat BY DepthIs
<1>8. depth # 0 BY <1>1, <1>7, CountedIs
<1> HIDE DEF d
<1>9. \A i : i \in Stops(c, from, depth) <=>
              i \in from .. Len(c) /\ c[i].op \in Closes /\ Monus(d[i], 1) <= Monus(depth, 1)
  BY DEF Stops, d
<1>10. e \in Stops(c, from, depth)
  <2>1. e \in from .. Len(c) /\ e \in from .. Len(c) + 1 BY <1>1, <1>2, SMT
  <2>2. d[e] = depth
    <3>1. Around(c, e, Opens) = Around(c, pc, Opens) BY LeftAround
    <3> QED BY <1>6, <2>1, <3>1 DEF Depth
  <2>3. Monus(depth, 1) <= Monus(depth, 1) BY <1>7, SMT DEF Monus
  <2> QED BY <1>1, <1>9, <2>1, <2>2, <2>3
<1>11. ASSUME NEW i \in Stops(c, from, depth) PROVE e <= i /\ i \in Int
  <2>1. i \in from .. Len(c) /\ c[i].op \in Closes /\ Monus(d[i], 1) <= Monus(depth, 1)
    BY <1>9, <1>11
  <2>2. i \in Int /\ pc < i /\ i \in DOMAIN c /\ i \in from .. Len(c) + 1
    BY <1>1, <1>2, <2>1, SMT
  <2> SUFFICES ASSUME ~(e <= i) PROVE FALSE
    BY <2>2
  <2>3. i < e BY <1>1, <2>2, SMT
  <2> DEFINE g == c[i].head
  <2>4. i \in Ends(c) /\ <<c[g].op, c[i].op>> \in BeginEnd /\ g \in Int /\ g < i
    BY <2>1, <2>2, LoopOps, EndIs
  <2>5. c[g].op \in Opens BY <2>1, <2>4, LoopOps
  <2>6. h < g
    <3>1. g <= h => i < h \/ e <= i BY <1>1, <2>4, EndIs
    <3> HIDE DEF g
    <3> QED BY <1>1, <2>2, <2>3, <2>4, <3>1, SMT
  <2>7. g \in Around(c, i, Opens) BY <2>4, <2>5, PastEnd
  <2>8. g \notin Around(c, pc, Opens)
    <3>1. ~(g <= h) BY <1>1, <2>4, <2>6, SMT
    <3> QED BY <1>1, <3>1
  <2>9. h \in Around(c, i, Opens)
    <3>1. h < i /\ i <= e BY <1>1, <2>2, <2>3, SMT
    <3> QED BY <1>1, <3>1, AroundIs
  <2>10. Around(c, pc, Opens) \subseteq Around(c, i, Opens)
    <3>1. Around(c, h, Opens) = {k \in Around(c, pc, Opens) : k < h} BY <1>1, Outside
    <3>2. Around(c, h, Opens) = {k \in Around(c, i, Opens) : k < h}
      BY <2>2, <2>9, Outside
    <3>3. \A k \in Around(c, pc, Opens) : k \in Int BY AroundIs, SMT
    <3>4. \A k \in Around(c, pc, Opens) : k = h \/ k < h BY <1>1, <3>3, SMT
    <3> QED BY <2>9, <3>1, <3>2, <3>4
  <2>11. Counted(Depth(c, i), Around(c, i, Opens)) /\ Depth(c, i) \in Nat BY DepthIs
  <2>12. depth < Depth(c, i) BY <1>7, <2>7, <2>8, <2>10, <2>11, CountedMore
  <2>13. d[i] = Depth(c, i) BY <1>6, <2>2
  <2>14. Monus(Depth(c, i), 1) <= Monus(depth, 1) BY <2>1, <2>13
  <2> HIDE DEF g
  <2> QED BY <1>7, <1>8, <2>11, <2>12, <2>14, SMT DEF Monus
<1> QED BY <1>8, <1>10, <1>11

(* The place after the loop.                                               *)
LEMMA AfterIs ==
  ASSUME NEW c, Built(c), NEW e \in Ends(c), c[e].op \in Closes
  PROVE  /\ Lands(c, After(c, e))
         /\ \A ops : Around(c, After(c, e), ops) = Around(c, e + 1, ops)
<1>1. e \in DOMAIN c /\ e \in Int /\ DOMAIN c = 1 .. Len(c) /\ Len(c) \in Nat BY EndIs
<1>2. CASE e < Len(c) /\ c[e + 1].op = "jump"
  <2>1. After(c, e) = (e + 1) + 1 /\ e + 1 \in DOMAIN c BY <1>1, <1>2, SMT DEF After
  <2>2. "jump" \notin Begins /\ "jump" \notin EndOps /\ "jump" \notin {"for", "endFor"}
    BY OpsAre
  <2>3. Lands(c, (e + 1) + 1) BY <1>2, <2>1, <2>2, NextLands
  <2>4. \A ops : Around(c, (e + 1) + 1, ops) = Around(c, e + 1, ops)
    BY <1>2, <2>1, <2>2, PastPlain
  <2> QED BY <2>1, <2>3, <2>4
<1>3. CASE ~(e < Len(c) /\ c[e + 1].op = "jump")
  <2>1. After(c, e) = e + 1 BY <1>3 DEF After
  <2>2. c[e].op \notin {"for", "endFor"}
    <3>1. c[e].op # "for" BY DEF Closes
    <3>2. ASSUME c[e].op = "endFor" PROVE FALSE
      <4>1. At(c, e + 1, {"jump"}) BY <1>1, <3>2 DEF Built, Jumps
      <4>2. e + 1 \in DOMAIN c /\ c[e + 1].op = "jump" BY <4>1 DEF At
      <4>3. e < Len(c) BY <1>1, <4>2, SMT
      <4> QED BY <1>3, <4>2, <4>3
    <3> QED BY <3>1, <3>2
  <2>3. Lands(c, e + 1) BY <1>1, <2>2, NextLands
  <2> QED BY <2>1, <2>3
<1> QED BY <1>2, <1>3

(* After that loop only it is no longer around.                            *)
LEMMA LeftSame ==
  ASSUME NEW c, Built(c), NEW pc, NEW h, NEW e, Left(c, pc, h, e),
         NEW ops, \A k \in Around(c, pc, ops) : k <= h
  PROVE  IF c[h].op \in ops THEN Loses(Around(c, After(c, e), ops), Around(c, pc, ops), h)
         ELSE Around(c, After(c, e), ops) = Around(c, pc, ops)
<1> DEFINE A == Around(c, pc, ops)
           B == Around(c, After(c, e), ops)
<1>1. e \in Ends(c) /\ c[e].op \in Closes /\ h \in Int /\ h \in Around(c, pc, Opens)
  BY DEF Left, Highest
<1>2. B = {k \in A : k < h}
  <2>1. Around(c, After(c, e), ops) = Around(c, e + 1, ops) BY <1>1, AfterIs
  <2> QED BY <2>1, LeftAround
<1>3. h \in A <=> c[h].op \in ops
  <2>1. PICK f \in Ends(c) : c[f].head = h /\ h < pc /\ pc <= f BY <1>1, AroundIs
  <2> QED BY <2>1, AroundIs
<1>4. \A k \in A : k \in Int BY AroundIs, SMT
<1> HIDE DEF A, B
<1>5. \A k \in A : (k < h) <=> (k # h)
  <2>1. \A k \in A : k <= h BY DEF A
  <2> QED BY <1>1, <1>4, <2>1, SMT
<1>6. B = A \ {h} BY <1>2, <1>5
<1>7. IF c[h].op \in ops THEN Loses(B, A, h) ELSE B = A BY <1>3, <1>6 DEF Loses
<1> QED BY <1>7 DEF A, B

(* Where a break that does not stray goes, and what it takes off.          *)
LEMMA BreakIs ==
  ASSUME Ran, status' = "running", astray' = {}, Break
  PROVE  LET c == prog[tl.code]
         IN \E h, e :
              /\ Left(c, tl.pc, h, e)
              /\ \A k \in Around(c, tl.pc, Speculates) : k <= h
              /\ \A k \in Around(c, tl.pc, Isolates) : k <= h
              /\ \A k \in Around(c, tl.pc, Leases) : k <= h
              /\ \/ /\ c[e].op = "endFor"
                    /\ tl' = [[Fetched EXCEPT !.depth = Monus(Fetched.depth, 1),
                                 !.flat = IF @ = <<>> THEN @ ELSE Front(@)] EXCEPT !.pc = After(c, e)]
                 \/ /\ c[e].op # "endFor"
                    /\ \E n : \E l \in LoopLeft([Fetched EXCEPT !.depth = n], c[e].op) :
                         l.err = "running" /\ tl' = [l.t EXCEPT !.pc = After(c, e)]
<1> DEFINE c == prog[tl.code]
           pc == tl.pc
           loop == Around(c, pc, Opens)
           blocks == Around(c, pc, {"speculate", "isolate", "lease"})
           depth == Fetched.depth
           stops == Stops(c, pc + 1, depth)
           d == Depths(c, pc + 1, depth)
           i == CHOOSE i \in stops : \A j \in stops : i <= j
           out(u) == [u EXCEPT !.pc = After(c, i)]
<1>1. Executes("break") /\ \E o \in Broken(Fetched) : tl' = o.t /\ o.err = "running"
  BY DEF Break, Becomes
<1>2. PICK o \in Broken(Fetched) : tl' = o.t /\ o.err = "running" BY <1>1
<1>3. /\ Fetched.pc = pc + 1 /\ Code(Fetched) = c /\ Built(c) /\ pc \in DOMAIN c
      /\ c[pc].op = "break" /\ Code(tl) = c /\ depth = tl.depth
  <2>1. Fetched.code = tl.code BY <1>1, HereIs DEF Ran, Carries
  <2> QED BY <1>1, <2>1, HereIs DEF Ran, Code
<1>4. tl.depth = Depth(c, pc) /\ loop # {} /\ \A h \in blocks : ~(h > Innermost(loop))
  <2>1. Strays(IF tl.depth # Count(tl, Opens) \/ Around(Code(tl), tl.pc, Opens) = {}
                  \/ \E h \in Around(Code(tl), tl.pc, {"speculate", "isolate", "lease"}) :
                       h > Innermost(Around(Code(tl), tl.pc, Opens))
               THEN {"break"} ELSE {})
    BY DEF Break
  <2>2. ~(tl.depth # Count(tl, Opens) \/ Around(Code(tl), tl.pc, Opens) = {}
            \/ \E h \in Around(Code(tl), tl.pc, {"speculate", "isolate", "lease"}) :
                 h > Innermost(Around(Code(tl), tl.pc, Opens)))
    BY <2>1 DEF Strays
  <2> QED BY <1>3, <2>2 DEF Count, Depth
<1>5. pc \in Int /\ Len(c) \in Nat /\ DOMAIN c = 1 .. Len(c) BY <1>3, EndIs
<1>6. PICK h : Highest(h, loop)
  <2>1. loop \subseteq 1 .. Len(c) BY <1>3, AroundIs
  <2> HIDE DEF loop
  <2> QED BY <1>4, <1>5, <2>1, HighestExists
<1>7. Innermost(loop) = h
  <2>1. h \in loop /\ \A k \in loop : k <= h BY <1>6 DEF Highest
  <2>2. \A k \in loop : k \in Int BY <1>3, AroundIs, SMT
  <2> HIDE DEF loop
  <2>3. \A g \in loop : (\A k \in loop : k <= g) => g = h BY <2>1, <2>2, SMT
  <2> QED BY <2>1, <2>3 DEF Innermost
<1>8. PICK e : Left(c, pc, h, e) BY <1>3, <1>6, LeftExists
<1>9. h \in Int BY <1>8 DEF Left
<1>10. \A k \in blocks : k <= h
  <2>1. \A k \in blocks : k \in Int BY <1>3, AroundIs, SMT
  <2>2. \A k \in blocks : ~(k > h) BY <1>4, <1>7
  <2> HIDE DEF blocks
  <2> QED BY <1>9, <2>1, <2>2, SMT
<1>11. Around(c, pc, Speculates) \subseteq blocks /\ Around(c, pc, Isolates) \subseteq blocks
       /\ Around(c, pc, Leases) \subseteq blocks
  BY DEF Around, Speculates, Isolates, Leases
<1>12. /\ e \in stops /\ \A j \in stops : e <= j /\ j \in Int
  <2>1. depth = Depth(c, pc) BY <1>3, <1>4
  <2> HIDE DEF depth
  <2> QED BY <1>3, <1>8, <2>1, LeftFirst
<1>13. i = e
  <2> HIDE DEF stops
  <2>1. \A g \in stops : (\A k \in stops : g <= k) => g = e BY <1>12, SMT
  <2> QED BY <1>12, <2>1
<1>14. Broken(Fetched) =
         IF c[i].op = "endFor"
         THEN {Ok(out([Fetched EXCEPT !.depth = Monus(depth, 1),
                         !.flat = IF @ = <<>> THEN @ ELSE Front(@)]))}
         ELSE {Then(l, out) : l \in LoopLeft([Fetched EXCEPT !.depth = Monus(d[i], 1)], c[i].op)}
  <2> DEFINE B(code, from, n) ==
               LET ends == Stops(code, from, n)
                   at == Depths(code, from, n)
               IN IF ends = {} THEN {Ok([Fetched EXCEPT !.pc = Len(code) + 1, !.depth = at[Len(code) + 1]])}
                  ELSE LET k == CHOOSE k \in ends : \A j \in ends : k <= j
                           to(u) == [u EXCEPT !.pc = After(code, k)]
                       IN IF code[k].op = "endFor"
                          THEN {Ok(to([Fetched EXCEPT !.depth = Monus(n, 1),
                                         !.flat = IF @ = <<>> THEN @ ELSE Front(@)]))}
                          ELSE {Then(l, to) : l \in LoopLeft([Fetched EXCEPT !.depth = Monus(at[k], 1)],
                                                             code[k].op)}
  <2>1. Broken(Fetched) = B(Code(Fetched), Fetched.pc, Fetched.depth) BY DEF Broken
  <2> HIDE DEF B
  <2>2. Broken(Fetched) = B(c, pc + 1, depth) BY <1>3, <2>1
  <2> USE DEF B
  <2>3. stops # {} BY <1>12
  <2>4. B(c, pc + 1, depth) =
          IF c[i].op = "endFor"
          THEN {Ok(out([Fetched EXCEPT !.depth = Monus(depth, 1),
                          !.flat = IF @ = <<>> THEN @ ELSE Front(@)]))}
          ELSE {Then(l, out) : l \in LoopLeft([Fetched EXCEPT !.depth = Monus(d[i], 1)], c[i].op)}
    BY <2>3
  <2> HIDE DEF B
  <2> QED BY <2>2, <2>4
<1> HIDE DEF i, d, stops, depth
<1>15. CASE c[e].op = "endFor"
  <2>1. o = Ok(out([Fetched EXCEPT !.depth = Monus(depth, 1), !.flat = IF @ = <<>> THEN @ ELSE Front(@)]))
    BY <1>2, <1>13, <1>14, <1>15
  <2>2. tl' = [[Fetched EXCEPT !.depth = Monus(Fetched.depth, 1),
                  !.flat = IF @ = <<>> THEN @ ELSE Front(@)] EXCEPT !.pc = After(c, e)]
    BY <1>2, <1>13, <2>1 DEF Ok, depth
  <2> QED BY <1>8, <1>10, <1>11, <1>15, <2>2
<1>16. CASE c[e].op # "endFor"
  <2>1. PICK l \in LoopLeft([Fetched EXCEPT !.depth = Monus(d[i], 1)], c[i].op) : o = Then(l, out)
    BY <1>2, <1>13, <1>14, <1>16
  <2>2. l.err = "running" /\ tl' = [l.t EXCEPT !.pc = After(c, e)]
    BY <1>2, <1>13, <2>1 DEF Then, Ok
  <2> DEFINE n == Monus(d[i], 1)
  <2>3. l \in LoopLeft([Fetched EXCEPT !.depth = n], c[e].op) BY <1>13, <2>1
  <2> HIDE DEF n
  <2> QED BY <1>8, <1>10, <1>11, <1>16, <2>2, <2>3
<1> QED BY <1>15, <1>16

(* A break takes the loop it leaves off its stack and no other.            *)
LEMMA BreakGoesOn ==
  ASSUME Ran, status' = "running", astray' = {}, Break
  PROVE  Fine(prog, tl', speculation_stack)
<1> DEFINE c == prog[tl.code]
<1>1. Executes("break") BY DEF Break
<1>2. /\ DOMAIN Fetched = Fields /\ Carries(tl, Fetched) /\ Built(c) /\ tl.pc \in DOMAIN c
      /\ c[tl.pc].op = "break"
  BY <1>1, HereIs DEF Ran
<1>3. Fine(prog, tl, speculation_stack) BY <1>2, CalmFine, PlainOps DEF Ran
<1>4. PICK h, e :
        /\ Left(c, tl.pc, h, e)
        /\ \A k \in Around(c, tl.pc, Speculates) : k <= h
        /\ \A k \in Around(c, tl.pc, Isolates) : k <= h
        /\ \A k \in Around(c, tl.pc, Leases) : k <= h
        /\ \/ /\ c[e].op = "endFor"
              /\ tl' = [[Fetched EXCEPT !.depth = Monus(Fetched.depth, 1),
                           !.flat = IF @ = <<>> THEN @ ELSE Front(@)] EXCEPT !.pc = After(c, e)]
           \/ /\ c[e].op # "endFor"
              /\ \E n : \E l \in LoopLeft([Fetched EXCEPT !.depth = n], c[e].op) :
                   l.err = "running" /\ tl' = [l.t EXCEPT !.pc = After(c, e)]
  BY BreakIs
<1> DEFINE to == After(c, e)
<1>5. /\ e \in Ends(c) /\ c[e].op \in Closes /\ c[h].op \in Opens /\ c[e].head = h
      /\ Highest(h, Around(c, tl.pc, Opens))
  BY <1>4 DEF Left
<1>6. Lands(c, to) BY <1>2, <1>5, AfterIs
<1>7. <<c[h].op, c[e].op>> \in BeginEnd BY <1>2, <1>5, EndIs
<1>8. (\A k \in Around(c, tl.pc, Limited) : k <= h) /\ (\A k \in Around(c, tl.pc, Iterates) : k <= h)
  <2>1. Around(c, tl.pc, Limited) \subseteq Around(c, tl.pc, Opens)
    BY LoopOps DEF Around
  <2>2. Around(c, tl.pc, Iterates) \subseteq Around(c, tl.pc, Opens)
    BY LoopOps DEF Around
  <2> QED BY <1>5, <2>1, <2>2 DEF Highest
<1>9. /\ IF c[h].op \in Limited THEN Loses(Around(c, to, Limited), Around(c, tl.pc, Limited), h)
         ELSE Around(c, to, Limited) = Around(c, tl.pc, Limited)
      /\ IF c[h].op \in Iterates THEN Loses(Around(c, to, Iterates), Around(c, tl.pc, Iterates), h)
         ELSE Around(c, to, Iterates) = Around(c, tl.pc, Iterates)
      /\ Around(c, to, Speculates) = Around(c, tl.pc, Speculates)
      /\ Around(c, to, Isolates) = Around(c, tl.pc, Isolates)
  <2>1. c[h].op \notin Speculates /\ c[h].op \notin Isolates BY <1>5, LoopOps
  <2>2. ASSUME NEW ops, \A k \in Around(c, tl.pc, ops) : k <= h
        PROVE  IF c[h].op \in ops THEN Loses(Around(c, to, ops), Around(c, tl.pc, ops), h)
               ELSE Around(c, to, ops) = Around(c, tl.pc, ops)
    BY <1>2, <1>4, <2>2, LeftSame
  <2> HIDE DEF to, c
  <2> QED BY <1>4, <1>8, <2>1, <2>2
<1>10. /\ Counted(Len(tl.loops), Around(c, tl.pc, Limited))
       /\ Counted(tl.manifests, Open(prog, tl.calls, Len(tl.calls), tl.code, to, Isolates))
       /\ Ordered(tl.flat) /\ Heads(tl.flat) = Around(c, tl.pc, Iterates)
  <2>1. Open(prog, tl.calls, Len(tl.calls), tl.code, to, Isolates)
          = Open(prog, tl.calls, Len(tl.calls), tl.code, tl.pc, Isolates)
    BY <1>9 DEF Open
  <2> QED BY <1>3, <2>1, FineIs
<1>11. /\ Fetched.calls = tl.calls /\ Fetched.code = tl.code /\ Fetched.loops = tl.loops
       /\ Fetched.flat = tl.flat /\ Fetched.manifests = tl.manifests
       /\ Fetched.anchors = tl.anchors
  BY <1>2 DEF Carries
<1> HIDE DEF to
<1>12. CASE /\ c[e].op = "endFor"
            /\ tl' = [[Fetched EXCEPT !.depth = Monus(Fetched.depth, 1),
                         !.flat = IF @ = <<>> THEN @ ELSE Front(@)] EXCEPT !.pc = to]
  <2>1. c[h].op = "for" BY <1>7, <1>12, OpsAre
  <2>2. c[h].op \in Iterates /\ c[h].op \notin Limited BY <2>1, KindsAre
  <2>3. /\ (tl').calls = tl.calls /\ (tl').code = tl.code /\ (tl').anchors = tl.anchors
        /\ (tl').loops = tl.loops /\ (tl').manifests = tl.manifests /\ (tl').pc = to
        /\ (tl').flat = IF tl.flat = <<>> THEN tl.flat ELSE Front(tl.flat)
    BY <1>2, <1>11, <1>12 DEF Fields
  <2>4. Loses(Around(c, to, Iterates), Around(c, tl.pc, Iterates), h) BY <1>9, <2>2
  <2>5. h \in Heads(tl.flat) /\ tl.flat # <<>>
    <3>1. h \in Heads(tl.flat) BY <1>10, <2>4 DEF Loses
    <3>2. PICK i \in DOMAIN tl.flat : tl.flat[i].head = h BY <3>1 DEF Heads
    <3> QED BY <3>1, <3>2
  <2>6. tl.flat \in Seq(Iterations) BY DEF Ran, Ready, Typed, StacksTyped
  <2>7. /\ Ordered(Front(tl.flat)) /\ Heads(Front(tl.flat)) = Heads(tl.flat) \ {Last(tl.flat).head}
        /\ Highest(Last(tl.flat).head, Heads(tl.flat))
    BY <1>10, <2>5, <2>6, FlatFront
  <2>8. Last(tl.flat).head = h
    <3> DEFINE g == Last(tl.flat).head
               A == Around(c, tl.pc, Iterates)
    <3>1. g \in A /\ h <= g BY <1>10, <2>5, <2>7 DEF Highest
    <3>2. g <= h BY <1>8, <3>1
    <3>3. g \in Int /\ h \in Int
      <4>1. \A k \in A : k \in Int BY <1>2, AroundIs, SMT
      <4> QED BY <1>10, <2>5, <3>1, <4>1
    <3> HIDE DEF g
    <3>4. g = h BY <3>1, <3>2, <3>3, SMT
    <3> QED BY <3>4 DEF g
  <2>9. Ordered((tl').flat) /\ Heads((tl').flat) = Around(c, to, Iterates)
    BY <1>10, <2>3, <2>4, <2>5, <2>7, <2>8 DEF Loses
  <2>10. Counted(Len((tl').loops), Around(c, to, Limited)) BY <1>9, <1>10, <2>2, <2>3
  <2> QED BY <1>3, <1>6, <1>9, <1>10, <2>3, <2>9, <2>10, Refit DEF to
<1>13. CASE /\ c[e].op # "endFor"
            /\ \E n : \E l \in LoopLeft([Fetched EXCEPT !.depth = n], c[e].op) :
                 l.err = "running" /\ tl' = [l.t EXCEPT !.pc = to]
  <2>1. PICK n : \E l \in LoopLeft([Fetched EXCEPT !.depth = n], c[e].op) :
                          l.err = "running" /\ tl' = [l.t EXCEPT !.pc = to]
    BY <1>13
  <2>2. PICK l \in LoopLeft([Fetched EXCEPT !.depth = n], c[e].op) :
               l.err = "running" /\ tl' = [l.t EXCEPT !.pc = to]
    BY <2>1
  <2> DEFINE s == [Fetched EXCEPT !.depth = n]
  <2>3. /\ DOMAIN s = Fields /\ s.calls = tl.calls /\ s.code = tl.code /\ s.anchors = tl.anchors
        /\ s.flat = tl.flat /\ s.manifests = tl.manifests /\ s.loops = tl.loops
    BY <1>2, <1>11 DEF Fields
  <2>4. l \in LoopLeft(s, c[e].op) /\ l.err = "running" BY <2>2
  <2> HIDE DEF s
  <2>5. /\ s.loops # <<>> /\ DOMAIN l.t = Fields /\ l.t.loops = Front(s.loops)
        /\ l.t.calls = s.calls /\ l.t.code = s.code /\ l.t.anchors = s.anchors
        /\ l.t.flat = s.flat /\ l.t.manifests = s.manifests
    BY <2>3, <2>4, LoopLeftIs
  <2>6. /\ (tl').calls = tl.calls /\ (tl').code = tl.code /\ (tl').anchors = tl.anchors
        /\ (tl').flat = tl.flat /\ (tl').manifests = tl.manifests /\ (tl').pc = to
        /\ (tl').loops = Front(tl.loops) /\ tl.loops # <<>>
    BY <2>2, <2>3, <2>5 DEF Fields
  <2>7. c[h].op # "for" BY <1>7, <1>13, OpsAre
  <2>8. c[h].op \in Limited /\ c[h].op \notin Iterates
    BY <1>5, <2>7, LoopOps DEF Iterates
  <2>9. Loses(Around(c, to, Limited), Around(c, tl.pc, Limited), h) BY <1>9, <2>8
  <2>10. Counted(Len((tl').loops), Around(c, to, Limited))
    <3>1. Len((tl').loops) = Len(tl.loops) - 1
      BY <2>6, LenIs DEF Ran, Ready, Typed, StacksTyped, IsSeq
    <3>2. Counted(Len(tl.loops) - 1, Around(c, to, Limited)) BY <1>10, <2>9, CountedIs
    <3> QED BY <3>1, <3>2
  <2>11. Ordered((tl').flat) /\ Heads((tl').flat) = Around(c, to, Iterates)
    BY <1>9, <1>10, <2>6, <2>8
  <2> QED BY <1>3, <1>6, <1>9, <1>10, <2>6, <2>10, <2>11, Refit DEF to
<1> QED BY <1>4, <1>12, <1>13 DEF to
-----------------------------------------------------------------------------
(* All steps                                                               *)

(* A program begins outside all blocks, with nothing on its stacks.        *)
LEMMA InitStacks == Init => StacksInv
<1> SUFFICES ASSUME Init PROVE Stacked(prog, tl, speculation_stack)
  BY DEF StacksInv
<1> DEFINE c == prog["main"]
<1>1. /\ prog \in Programs /\ tl.code = "main" /\ tl.pc = 1 /\ tl.loops = <<>>
      /\ tl.flat = <<>> /\ tl.calls = <<>> /\ tl.anchors = <<>> /\ tl.manifests = 0
      /\ speculation_stack = <<>>
  BY DEF Init
<1>2. Built(c) BY <1>1, ProgramAssumption, BuiltIs
<1>3. Lands(c, 1) /\ \A ops : Around(c, 1, ops) = {} BY <1>2, FirstIs
<1>4. \A ops : Open(prog, <<>>, 0, "main", 1, ops) = {}
  <2>1. 0 \in Nat /\ 1 .. 0 = {} BY SMT
  <2> QED BY <1>3, <2>1, OpenIs
<1>5. Len(<<>>) = 0 /\ DOMAIN <<>> = {} BY SMT
<1>6. Held(prog, <<>>, 0, "main", 1, <<>>, <<>>, 0)
  <2>1. Tallied(prog, <<>>, 0, "main", 1, <<>>, 0)
    BY <1>3, <1>4, <1>5, CountedNone DEF Tallied
  <2>2. Ordered(<<>>) /\ Heads(<<>>) = {} BY <1>5 DEF Ordered, Heads
  <2> QED BY <1>3, <2>1, <2>2 DEF Held
<1>7. Speculated(prog, <<>>, 0, "main", 1, <<>>)
  BY <1>4, <1>5, CountedNone DEF Speculated
<1>8. HeldFrames(prog, <<>>) /\ HeldAnchors(prog, <<>>) /\ HeldContexts(prog, <<>>)
  BY <1>5 DEF HeldFrames, HeldAnchors, HeldContexts
<1>9. Fine(prog, tl, speculation_stack)
  BY <1>1, <1>5, <1>6, <1>7, <1>8 DEF Fine, HeldHere, Alongside
<1> QED BY <1>9, FineStacked

(* They keep the stacks with the blocks.                                   *)
LEMMA SteadyGoesOn ==
  ASSUME Ran, status' = "running", astray' = {}, Steady
  PROVE  Stacked(prog, tl', speculation_stack)
<1>1. CASE Other \/ Clone \/ SetSaturationPolicy \/ Slice \/ Capability \/ Defer
  BY <1>1, SimpleGoOn, FineStacked
<1>18. CASE Foreign BY <1>18, ForeignGoesOn, FineStacked
<1>2. CASE Await \/ EndLease \/ EndPeriodicEpoch BY <1>2, PayingGoOn, FineStacked
<1>3. CASE Jump BY <1>3, JumpGoesOn
<1>4. CASE JumpIfNot BY <1>4, JumpIfNotGoesOn, FineStacked
<1>5. CASE Select BY <1>5, SelectGoesOn, FineStacked
<1>6. CASE Call BY <1>6, CallGoesOn, FineStacked
<1>7. CASE Return BY <1>7, ReturnGoesOn, FineStacked
<1>8. CASE Loop BY <1>8, LoopGoesOn, FineStacked
<1>9. CASE EndLoop BY <1>9, EndLoopGoesOn, FineStacked
<1>10. CASE For BY <1>10, ForGoesOn
<1>11. CASE EndFor BY <1>11, EndForGoesOn
<1>12. CASE Break BY <1>12, BreakGoesOn, FineStacked
<1>13. CASE Anchor BY <1>13, AnchorGoesOn, FineStacked
<1>14. CASE Rewind BY <1>14, RewindGoesOn, FineStacked
<1>15. CASE Isolate BY <1>15, IsolateGoesOn, FineStacked
<1>16. CASE EndIsolate BY <1>16, EndIsolateGoesOn, FineStacked
<1>17. CASE Lease BY <1>17, LeaseGoOn, FineStacked
<1> QED
  BY <1>1, <1>2, <1>3, <1>4, <1>5, <1>6, <1>7, <1>8, <1>9, <1>10, <1>11, <1>12, <1>13, <1>14,
     <1>15, <1>16, <1>17, <1>18 DEF Steady

(* Every step does.                                                        *)
LEMMA NextStacks == ControlInv /\ StacksInv /\ [Next]_vars => StacksInv'
<1> SUFFICES ASSUME ControlInv, StacksInv, [Next]_vars PROVE StacksInv'
  OBVIOUS
<1>1. CASE UNCHANGED vars BY <1>1 DEF vars, StacksInv
<1>2. CASE Next
  <2> SUFFICES ASSUME status' = "running", astray' = {}
               PROVE  Stacked(prog', tl', speculation_stack')
    BY DEF StacksInv
  <2>1. prog' = prog /\ astray = {} /\ status = "running" BY <1>2, StepKeeps
  <2>2. Ran BY <2>1 DEF Ran, Ready, ControlInv, StacksInv
  <2>3. Stacked(prog, tl', speculation_stack')
    <3>1. CASE Speculate BY <2>2, <3>1, SpeculateGoesOn, FineStacked
    <3>2. CASE EndSpeculate BY <2>2, <3>2, EndSpeculateGoesOn, FineStacked
    <3>3. CASE Collapse BY <2>2, <3>3, CollapseGoesOn, FineStacked
    <3>4. CASE Commit BY <2>2, <3>4, CommitGoesOn, FineStacked
    <3>5. CASE ~(Speculate \/ EndSpeculate \/ Collapse \/ Commit)
      <4>1. Steady
        <5>1. ~WatchdogBite /\ ~End /\ ~CannotPay BY DEF WatchdogBite, End, CannotPay
        <5> QED BY <1>2, <3>5, <5>1 DEF Next, Steady
      <4>2. speculation_stack' = speculation_stack BY <1>2, <3>5, StackKept
      <4>3. Stacked(prog, tl', speculation_stack) BY <2>2, <4>1, SteadyGoesOn
      <4> QED BY <4>2, <4>3
    <3> QED BY <3>1, <3>2, <3>3, <3>4, <3>5
  <2> QED BY <2>1, <2>3
<1> QED BY <1>1, <1>2

(* The blocks of all levels are those of Open.                             *)
LEMMA StandingIs ==
  ASSUME Len(tl.calls) \in Nat
  PROVE  \A ops : Standing(tl, ops) = Open(prog, tl.calls, Len(tl.calls), tl.code, tl.pc, ops)
<1> TAKE ops
<1> DEFINE n == Len(tl.calls)
           level == [k \in 1..n + 1 |-> IF k <= n THEN <<tl.calls[k].code, tl.calls[k].pc>>
                                        ELSE <<tl.code, tl.pc>>]
           A(k) == Around(prog[level[k][1]], level[k][2], ops)
<1>1. Standing(tl, ops) = UNION {{k} \X A(k) : k \in 1..n + 1} BY DEF Standing
<1>2. \A k \in 1..n : A(k) = Around(prog[tl.calls[k].code], tl.calls[k].pc, ops)
  <2>1. \A k \in 1..n : k \in 1..n + 1 /\ k <= n BY SMT
  <2> QED BY <2>1
<1>3. A(n + 1) = Around(prog[tl.code], tl.pc, ops)
  <2>1. n + 1 \in 1..n + 1 /\ ~(n + 1 <= n) BY SMT
  <2> QED BY <2>1
<1>4. \A k : k \in 1..n + 1 <=> k \in 1..n \/ k = n + 1 BY SMT
<1> HIDE DEF A
<1>5. \A x : x \in Standing(tl, ops) <=> \E k \in 1..n + 1 : x \in {k} \X A(k) BY <1>1
<1>6. \A x : x \in Standing(tl, ops) <=> (\E k \in 1..n : x \in {k} \X A(k)) \/ x \in {n + 1} \X A(n + 1)
  BY <1>4, <1>5
<1>7. \A x : x \in Waiting(prog, tl.calls, n, ops) <=> \E k \in 1..n : x \in {k} \X A(k)
  BY <1>2 DEF Waiting
<1>8. \A x : x \in Standing(tl, ops) <=>
              x \in Waiting(prog, tl.calls, n, ops) \/ x \in {n + 1} \X A(n + 1)
  BY <1>6, <1>7
<1>9. Standing(tl, ops) = Waiting(prog, tl.calls, n, ops) \cup ({n + 1} \X A(n + 1))
  BY <1>8
<1> QED BY <1>3, <1>9 DEF Open

(* As long as no step has gone astray, the loops, for loops, speculations  *)
(* and isolates entered and not left are the blocks around the counter and *)
(* around the calls that wait (every handler; Vm::handle_break).           *)
THEOREM StacksFollow == Spec => []StacksFollowTheProgram
<1>1. ControlInv /\ StacksInv => StacksFollowTheProgram
  <2> SUFFICES ASSUME ControlInv, StacksInv, astray = {}, status = "running", Settled(tl)
               PROVE  /\ Len(tl.loops) = Count(tl, {"loop", "while", "tick"})
                      /\ {tl.flat[i].head : i \in DOMAIN tl.flat} = Around(Code(tl), tl.pc, {"for"})
                      /\ \A i, j \in DOMAIN tl.flat : i < j => tl.flat[i].head < tl.flat[j].head
                      /\ Len(speculation_stack) = Cardinality(Standing(tl, {"speculate"}))
                      /\ tl.manifests = Cardinality(Standing(tl, {"isolate"}))
    BY DEF StacksFollowTheProgram
  <2> DEFINE n == Len(tl.calls)
  <2>1. Stacked(prog, tl, speculation_stack) /\ Typed(prog, tl)
    BY DEF StacksInv, ControlInv
  <2>2. n \in Nat BY <2>1, LenIs DEF Typed, Framed
  <2>3. Lands(prog[tl.code], tl.pc) /\ ~At(prog[tl.code], tl.pc, {"for"})
    BY DEF Settled, Code
  <2>4. Fine(prog, tl, speculation_stack) BY <2>1, <2>3, StackedFine
  <2>5. /\ Counted(Len(tl.loops), Around(prog[tl.code], tl.pc, Limited))
        /\ Counted(tl.manifests, Open(prog, tl.calls, n, tl.code, tl.pc, Isolates))
        /\ Ordered(tl.flat) /\ Heads(tl.flat) = Around(prog[tl.code], tl.pc, Iterates)
    BY <2>4, FineIs
  <2>6. Counted(Len(speculation_stack), Open(prog, tl.calls, n, tl.code, tl.pc, Speculates))
    BY <2>4 DEF Fine, Alongside, Speculated
  <2>7. Len(tl.loops) = Count(tl, {"loop", "while", "tick"})
    BY <2>5 DEF Counted, Count, Code, Limited
  <2>8. Len(speculation_stack) = Cardinality(Standing(tl, {"speculate"}))
    BY <2>2, <2>6, StandingIs DEF Counted, Speculates
  <2>9. tl.manifests = Cardinality(Standing(tl, {"isolate"}))
    BY <2>2, <2>5, StandingIs DEF Counted, Isolates
  <2> QED BY <2>5, <2>7, <2>8, <2>9 DEF Ordered, Heads, Code, Iterates
<1> QED BY <1>1, InitStacks, NextStacks, Invariance, PTL DEF Spec
-----------------------------------------------------------------------------
(* The blocks and the clock                                                *)

(* A block that begins inside the others is the last, and they keep their  *)
(* places.                                                                 *)
LEMMA RankGains ==
  ASSUME NEW n, NEW S, Counted(n, S), NEW x, Later(x, S), NEW A, Gains(A, S, x)
  PROVE  /\ Rank(x, A) = n + 1 /\ n \in Nat
         /\ \A k \in S : Rank(k, A) = Rank(k, S) /\ Rank(k, S) \in 1 .. n
<1>1. A = S \cup {x} /\ x \notin S BY DEF Gains
<1>0. S \subseteq Int /\ x \in Int /\ \A k \in S : k < x BY DEF Later
<1>2. n \in Nat /\ Counted(n + 1, A) /\ IsFiniteSet(S) /\ Cardinality(S) = n
  BY CountedIs DEF Counted
<1>3. {g \in A : g <= x} = A
  <2>1. \A g \in A : g <= x BY <1>0, <1>1, SMT
  <2> QED BY <2>1
<1>4. Rank(x, A) = n + 1 BY <1>2, <1>3 DEF Rank, Counted
<1>5. ASSUME NEW k \in S PROVE Rank(k, A) = Rank(k, S) /\ Rank(k, S) \in 1 .. n
  <2> DEFINE B == {g \in S : g <= k}
  <2>1. {g \in A : g <= k} = B
    <3>1. k < x /\ k \in Int BY <1>0
    <3>2. ~(x <= k) BY <1>0, <3>1, SMT
    <3> QED BY <1>1, <3>2
  <2>2. B \subseteq S /\ k \in B
    <3>1. k \in Int BY <1>0
    <3>2. k <= k BY <3>1, SMT
    <3> QED BY <3>2
  <2> HIDE DEF B
  <2>3. IsFiniteSet(B) /\ Cardinality(B) <= Cardinality(S) /\ Cardinality(B) \in Nat
    BY <1>2, <2>2, FS_Subset, FS_CardinalityType
  <2>4. Cardinality(B) # 0 BY <2>2, <2>3, FS_EmptySet
  <2>5. Cardinality(B) \in 1 .. n BY <1>2, <2>3, <2>4, SMT
  <2> QED BY <2>1, <2>5 DEF Rank, B
<1> QED BY <1>2, <1>4, <1>5

(* The innermost is the last, and without it the others keep their places. *)
LEMMA RankLoses ==
  ASSUME NEW n, NEW S, Counted(n, S), S \subseteq Int, NEW x, Highest(x, S), NEW A, Loses(A, S, x)
  PROVE  /\ Rank(x, S) = n /\ n \in Nat
         /\ \A k \in A : k \in S /\ Rank(k, A) = Rank(k, S) /\ Rank(k, S) \in 1 .. n - 1
<1>1. A = S \ {x} /\ x \in S /\ x \in Int /\ \A k \in S : k <= x BY DEF Loses, Highest
<1>2. n \in Nat /\ Counted(n - 1, A) /\ n - 1 \in Nat /\ (n - 1) + 1 = n
  <2>1. n \in Nat /\ Counted(n - 1, A) /\ n - 1 \in Nat BY CountedIs
  <2> QED BY <2>1, SMT
<1>3. \A k \in A : k < x BY <1>1, SMT
<1>4. Gains(S, A, x) BY <1>1 DEF Gains
<1>5. Later(x, A) BY <1>1, <1>3 DEF Later
<1>6. /\ Rank(x, S) = (n - 1) + 1
      /\ \A k \in A : Rank(k, S) = Rank(k, A) /\ Rank(k, A) \in 1 .. n - 1
  <2> DEFINE m == n - 1
  <2>1. Counted(m, A) BY <1>2
  <2> HIDE DEF m
  <2>2. /\ Rank(x, S) = m + 1
        /\ \A k \in A : Rank(k, S) = Rank(k, A) /\ Rank(k, A) \in 1 .. m
    BY <1>4, <1>5, <2>1, RankGains
  <2> QED BY <2>2 DEF m
<1> QED BY <1>1, <1>2, <1>6

(* A binding replaces one value.                                           *)
LEMMA BindWrites == \A f, b, v : Writes(Bind(f, b, v), f, b, v)
BY DEF Bind, Writes

(* A block that is entered leaves what is said of the others.              *)
LEMMA EnterTied ==
  ASSUME NEW entered, NEW code, NEW x, NEW v, NEW later, Writes(later, entered, <<code, x>>, v)
  PROVE  /\ \A S, loops : LoopsTied(entered, code, S, loops) /\ x \notin S
                            => LoopsTied(later, code, S, loops)
         /\ \A S, due : LeaseTied(entered, code, S, due) /\ x \notin S => LeaseTied(later, code, S, due)
         /\ \A p, flat : FlatTied(entered, p, code, flat) /\ x \notin Heads(flat)
                           => FlatTied(later, p, code, flat)
<1>1. \A h : h # x /\ <<code, h>> \in DOMAIN entered =>
        <<code, h>> \in DOMAIN later /\ later[<<code, h>>] = entered[<<code, h>>]
  <2>1. \A h : h # x => <<code, h>> # <<code, x>>
    OBVIOUS
  <2> QED BY <2>1 DEF Writes
<1>2. ASSUME NEW S, NEW loops, LoopsTied(entered, code, S, loops), x \notin S
      PROVE  LoopsTied(later, code, S, loops)
  BY <1>1, <1>2 DEF LoopsTied
<1>3. ASSUME NEW S, NEW due, LeaseTied(entered, code, S, due), x \notin S
      PROVE  LeaseTied(later, code, S, due)
  BY <1>1, <1>3 DEF LeaseTied
<1>4. ASSUME NEW p, NEW flat, FlatTied(entered, p, code, flat), x \notin Heads(flat)
      PROVE  FlatTied(later, p, code, flat)
  BY <1>1, <1>4 DEF FlatTied, Heads
<1> QED BY <1>2, <1>3, <1>4

(* A loop begins.                                                          *)
LEMMA LoopsPush ==
  ASSUME NEW entered, NEW code, NEW S, NEW loops \in Seq(Loops), LoopsTied(entered, code, S, loops),
         Counted(Len(loops), S), NEW x, Later(x, S), NEW A, Gains(A, S, x),
         NEW v, NEW l, v.clock = l.start, v.ms = l.limit,
         NEW later, Writes(later, entered, <<code, x>>, v)
  PROVE  LoopsTied(later, code, A, Append(loops, l))
<1> DEFINE n == Len(loops)
           longer == Append(loops, l)
<1>1. A = S \cup {x} /\ x \notin S BY DEF Gains
<1>2. /\ Rank(x, A) = n + 1
      /\ \A k \in S : Rank(k, A) = Rank(k, S) /\ Rank(k, S) \in 1 .. n
  <2>1. Counted(n, S)
    OBVIOUS
  <2> HIDE DEF n
  <2> QED BY <2>1, RankGains
<1>3. longer[n + 1] = l /\ \A i \in 1 .. n : longer[i] = loops[i]
  <2>1. IsSeq(loops) BY DEF IsSeq
  <2>2. /\ DOMAIN longer = 1 .. n + 1 /\ longer[n + 1] = l /\ n \in Nat
        /\ \A i \in DOMAIN longer : i = n + 1 \/ longer[i] = loops[i]
    BY <2>1, AppendIs
  <2>3. \A i \in 1 .. n : i \in 1 .. n + 1 /\ i # n + 1 BY <2>2, SMT
  <2> QED BY <2>2, <2>3
<1>4. LoopsTied(later, code, S, loops) BY <1>1, EnterTied
<1>5. <<code, x>> \in DOMAIN later /\ later[<<code, x>>] = v BY DEF Writes
<1> HIDE DEF n, longer
<1>6. ASSUME NEW h \in A
      PROVE  /\ <<code, h>> \in DOMAIN later
             /\ later[<<code, h>>].clock = longer[Rank(h, A)].start
             /\ later[<<code, h>>].ms = longer[Rank(h, A)].limit
  <2>1. CASE h = x BY <1>2, <1>3, <1>5, <2>1
  <2>2. CASE h \in S
    <3>1. longer[Rank(h, A)] = loops[Rank(h, S)] BY <1>2, <1>3, <2>2
    <3> QED BY <1>4, <2>2, <3>1 DEF LoopsTied
  <2> QED BY <1>1, <2>1, <2>2
<1>7. LoopsTied(later, code, A, longer) BY <1>6 DEF LoopsTied
<1> QED BY <1>7 DEF longer

(* The innermost is left.                                                  *)
LEMMA LoopsPop ==
  ASSUME NEW entered, NEW code, NEW S, NEW loops \in Seq(Loops), LoopsTied(entered, code, S, loops),
         Counted(Len(loops), S), S \subseteq Int, NEW x, Highest(x, S), NEW A, Loses(A, S, x)
  PROVE  /\ LoopsTied(entered, code, A, Front(loops)) /\ loops # <<>>
         /\ entered[<<code, x>>].clock = Last(loops).start
         /\ entered[<<code, x>>].ms = Last(loops).limit
<1> DEFINE n == Len(loops)
<1>1. x \in S BY DEF Highest
<1>2. /\ Rank(x, S) = n /\ n \in Nat
      /\ \A k \in A : k \in S /\ Rank(k, A) = Rank(k, S) /\ Rank(k, S) \in 1 .. n - 1
  BY RankLoses
<1>3. loops # <<>>
  <2>1. n # 0 BY <1>1, CountedIs
  <2> QED BY <2>1, SMT
<1>4. Last(loops) = loops[n] /\ \A i \in 1 .. n - 1 : Front(loops)[i] = loops[i]
  <2>1. IsSeq(loops) BY DEF IsSeq
  <2>2. DOMAIN Front(loops) = 1 .. n - 1 BY <1>3, <2>1, LenIs
  <2>3. Last(loops) = loops[n] /\ \A i \in DOMAIN Front(loops) : Front(loops)[i] = loops[i]
    BY <1>3, <2>1, FrontIs
  <2> QED BY <2>2, <2>3
<1> HIDE DEF n
<1>5. LoopsTied(entered, code, A, Front(loops))
  <2> SUFFICES ASSUME NEW h \in A
               PROVE  /\ <<code, h>> \in DOMAIN entered
                      /\ entered[<<code, h>>].clock = Front(loops)[Rank(h, A)].start
                      /\ entered[<<code, h>>].ms = Front(loops)[Rank(h, A)].limit
    BY DEF LoopsTied
  <2>1. Front(loops)[Rank(h, A)] = loops[Rank(h, S)] /\ h \in S BY <1>2, <1>4
  <2> QED BY <2>1 DEF LoopsTied
<1>6. entered[<<code, x>>].clock = loops[n].start /\ entered[<<code, x>>].ms = loops[n].limit
  BY <1>1, <1>2 DEF LoopsTied
<1> QED BY <1>3, <1>4, <1>5, <1>6

-----------------------------------------------------------------------------
(* Moments that pass                                                       *)

(* What has begun by a moment has begun by a later one.                    *)
LEMMA LaterOn ==
  ASSUME NEW p, NEW a \in Nat, NEW b \in Nat, a <= b
  PROVE  /\ \A loops : Passed(loops, a) => Passed(loops, b)
         /\ \A calls : FramesOnTime(p, calls, a) => FramesOnTime(p, calls, b)
<1>1. ASSUME NEW loops, Passed(loops, a) PROVE Passed(loops, b)
  <2> SUFFICES ASSUME NEW i \in DOMAIN loops
               PROVE  loops[i].start \in Int /\ loops[i].start <= b
    BY DEF Passed
  <2>1. loops[i].start \in Int /\ loops[i].start <= a BY <1>1 DEF Passed
  <2> QED BY <2>1, SMT
<1>2. ASSUME NEW calls, FramesOnTime(p, calls, a) PROVE FramesOnTime(p, calls, b)
  <2> SUFFICES ASSUME NEW k \in DOMAIN calls
               PROVE  LET f == calls[k]
                      IN /\ OnTime(p, f.code, f.pc, f.loops, f.flat, f.regs.lease, f.entered, f.start)
                         /\ f.start <= b
    BY DEF FramesOnTime
  <2> DEFINE f == calls[k]
  <2>1. /\ OnTime(p, f.code, f.pc, f.loops, f.flat, f.regs.lease, f.entered, f.start)
        /\ f.start <= a
    BY <1>2 DEF FramesOnTime
  <2>2. f.start \in Nat BY <2>1 DEF OnTime, Passed
  <2>3. f.start <= b BY <2>1, <2>2, SMT
  <2> QED BY <2>1, <2>3
<1> QED BY <1>1, <1>2

(* Frames and anchors stay as they are when time passes.                   *)
LEMMA Rests ==
  ASSUME NEW p, NEW s, Punctual(p, s), NEW u, OnTimeHere(p, u),
         u.calls = s.calls, u.anchors = s.anchors, s.clock <= u.clock
  PROVE  Punctual(p, u)
<1>1. s.clock \in Nat /\ u.clock \in Nat BY DEF Punctual, OnTimeHere, OnTime, Passed
<1>2. FramesOnTime(p, s.calls, u.clock) BY <1>1, LaterOn DEF Punctual
<1> QED BY <1>2 DEF Punctual

(* In the same blocks with the same stacks nothing but time passes.        *)
LEMMA Moves ==
  ASSUME NEW p, NEW s, Punctual(p, s), NEW u, Goes(s, u), Quiet(p[s.code], u.pc, s.pc)
  PROVE  Punctual(p, u)
<1>1. /\ u.code = s.code /\ u.calls = s.calls /\ u.anchors = s.anchors /\ u.loops = s.loops
      /\ u.flat = s.flat /\ u.entered = s.entered /\ u.regs.lease = s.regs.lease
      /\ u.clock \in Nat /\ s.clock <= u.clock
  BY DEF Goes
<1>2. OnTime(p, s.code, s.pc, s.loops, s.flat, s.regs.lease, s.entered, s.clock)
  BY DEF Punctual, OnTimeHere
<1>3. s.clock \in Nat BY <1>2 DEF OnTime, Passed
<1>4. Passed(s.loops, u.clock) BY <1>1, <1>2, <1>3, LaterOn DEF OnTime
<1>5. OnTime(p, s.code, u.pc, s.loops, s.flat, s.regs.lease, s.entered, u.clock)
  BY <1>2, <1>4 DEF OnTime, Quiet
<1>6. OnTimeHere(p, u) BY <1>1, <1>5 DEF OnTimeHere
<1> QED BY <1>1, <1>6, Rests

(* Going on twice.                                                         *)
LEMMA GoesTwice ==
  ASSUME NEW s, NEW t, NEW u, s.clock \in Nat, Goes(s, t), Goes(t, u)
  PROVE  Goes(s, u)
<1>1. t.clock \in Nat /\ u.clock \in Nat /\ s.clock <= t.clock /\ t.clock <= u.clock
  BY DEF Goes
<1>2. s.clock <= u.clock BY <1>1, SMT
<1> QED BY <1>1, <1>2 DEF Goes

(* Fetching takes a millisecond and paying what is paid.                   *)
LEMMA GoesFetched ==
  ASSUME Ready, NEW op, Executes(op), tl.clock \in Nat
  PROVE  Goes(tl, Fetched) /\ Fetched.clock = tl.clock + 1 /\ Fetched.clock \in Nat
<1>1. /\ Fetched.clock = tl.clock + 1 /\ Fetched.code = tl.code
      /\ Fetched.regs = tl.regs /\ Fetched.loops = tl.loops /\ Fetched.flat = tl.flat
      /\ Fetched.calls = tl.calls /\ Fetched.anchors = tl.anchors
      /\ Fetched.entered = tl.entered
  BY Fetch
<1>2. tl.clock + 1 \in Nat /\ tl.clock <= tl.clock + 1 BY SMT
<1> QED BY <1>1, <1>2 DEF Goes

(* Writing registers takes the time that full arenas add, and nothing else. *)
LEMMA GoesWritten ==
  ASSUME NEW out, NEW n \in Nat, NEW w \in Written(out, n), w.err = "running",
         DOMAIN out.t = Fields, out.t.clock \in Nat
  PROVE  /\ out.err = "running" /\ Goes(out.t, w.t) /\ w.t.clock \in Nat
         /\ w.t.pc = out.t.pc /\ w.t.regs = out.t.regs /\ DOMAIN w.t = Fields
         /\ \E d \in Nat : w.t.clock = out.t.clock + d /\ w.t.unpaid = out.t.unpaid + d
<1>1. out.err = "running" BY DEF Written
<1> DEFINE late == IF Throttles(out.t) THEN 0..n ELSE {0}
<1>2. PICK k \in late : w = Ok(Throttled(out.t, k)) \/ w = Error(Throttled(out.t, k), "MemoryFault")
  BY <1>1 DEF Written
<1>3. w.t = Throttled(out.t, k) BY <1>2 DEF Ok, Error
<1>4. k \in Nat BY SMT
<1> HIDE DEF late
<1> DEFINE u == out.t
<1>5. DOMAIN u = Fields /\ u.clock \in Nat
  OBVIOUS
<1> HIDE DEF u
<1>6. /\ DOMAIN w.t = Fields /\ \A f \in Fields \ {"clock", "unpaid"} : w.t[f] = u[f]
      /\ w.t.clock = u.clock + 10 * k /\ w.t.unpaid = u.unpaid + 10 * k
  BY <1>3, <1>5 DEF Throttled, Fields, u
<1>7. u.clock + 10 * k \in Nat /\ u.clock <= u.clock + 10 * k /\ 10 * k \in Nat
  BY <1>4, <1>5, SMT
<1>8. Goes(u, w.t) /\ w.t.clock \in Nat /\ w.t.pc = u.pc /\ w.t.regs = u.regs
  BY <1>6, <1>7 DEF Goes, Fields
<1> QED BY <1>1, <1>6, <1>7, <1>8 DEF u

(* Paying takes the time that is paid for.                                *)
LEMMA GoesPaid ==
  ASSUME NEW s, DOMAIN s = Fields, s.clock \in Nat, NEW ms \in Nat, Paid(s, ms).err = "running"
  PROVE  LET u == Paid(s, ms).t
         IN /\ Goes(s, u) /\ u.clock = s.clock + ms /\ DOMAIN u = Fields /\ u.pc = s.pc /\ u.regs = s.regs
            /\ u.unpaid = s.unpaid
<1> DEFINE u == Paid(s, ms).t
<1>1. u = [s EXCEPT !.clock = @ + ms, !.budget = @ - ms] BY DEF Paid, Ok, Error
<1> HIDE DEF u
<1>2. /\ DOMAIN u = Fields /\ u.code = s.code /\ u.calls = s.calls /\ u.anchors = s.anchors
      /\ u.loops = s.loops /\ u.flat = s.flat /\ u.entered = s.entered /\ u.regs = s.regs
      /\ u.pc = s.pc /\ u.clock = s.clock + ms /\ u.unpaid = s.unpaid
  BY <1>1 DEF Fields
<1>3. s.clock + ms \in Nat /\ s.clock <= s.clock + ms BY SMT
<1>4. Goes(s, u) BY <1>2, <1>3 DEF Goes
<1> QED BY <1>2, <1>4 DEF u
-----------------------------------------------------------------------------

(* What is neither a loop nor a lease begins none and ends none.           *)
LEMMA QuietNext ==
  ASSUME NEW c, Built(c), NEW pc \in DOMAIN c,
         c[pc].op \notin {"loop", "while", "tick", "lease", "endLoop", "endWhile", "endTick", "endLease"}
  PROVE  Quiet(c, pc + 1, pc)
<1>1. CASE Plain(c[pc].op) BY <1>1, PastPlain DEF Plain, Quiet
<1>2. CASE c[pc].op \in Begins
  <2>1. c[pc].op \notin Limited /\ c[pc].op \notin Leases BY DEF Limited, Leases
  <2> QED BY <1>2, <2>1, BeginSame DEF Quiet
<1>3. CASE c[pc].op \in EndOps
  <2>1. <<c[c[pc].head].op, c[pc].op>> \in BeginEnd BY <1>3, EndSame
  <2>2. c[c[pc].head].op \notin Limited /\ c[c[pc].head].op # "lease" BY <2>1, OpsAre
  <2>3. c[c[pc].head].op \notin Leases BY <2>2 DEF Leases
  <2> QED BY <1>3, <2>2, <2>3, EndSame DEF Quiet
<1> QED BY <1>1, <1>2, <1>3 DEF Plain

(* A jump enters and leaves none of them.                                  *)
LEMMA QuietTarget ==
  ASSUME NEW c, Built(c), NEW pc \in DOMAIN c, NEW to \in Targets(c[pc])
  PROVE  Quiet(c, to, pc)
<1>1. Within(c, to) = IF At(c, pc - 1, {"for"})
                      THEN {e \in Within(c, pc) : c[e].head # pc - 1}
                      ELSE Within(c, pc)
  BY DEF Built, Jumps
<1>2. CASE ~At(c, pc - 1, {"for"}) BY <1>1, <1>2 DEF Quiet, Around
<1>3. CASE At(c, pc - 1, {"for"})
  <2>1. c[pc - 1].op = "for" /\ "for" \notin Limited /\ "for" \notin Leases
    BY <1>3 DEF At, Limited, Leases
  <2>2. ASSUME NEW ops, "for" \notin ops PROVE Around(c, to, ops) = Around(c, pc, ops)
    <3>1. \A e : e \in Within(c, to) <=> e \in Within(c, pc) /\ c[e].head # pc - 1
      BY <1>1, <1>3
    <3>2. \A e : e \in Within(c, pc) /\ c[c[e].head].op \in ops
                   <=> e \in Within(c, to) /\ c[c[e].head].op \in ops
      BY <2>1, <2>2, <3>1
    <3>3. {e \in Within(c, to) : c[c[e].head].op \in ops} = {e \in Within(c, pc) : c[c[e].head].op \in ops}
      BY <3>2
    <3> QED BY <3>3 DEF Around
  <2> QED BY <2>1, <2>2 DEF Quiet
<1> QED BY <1>2, <1>3

(* At the start of a statement nothing is awaited.                         *)
LEMMA FineAwaits ==
  ASSUME NEW p, NEW t, NEW stack, Fine(p, t, stack), Built(p[t.code]), IsSeq(t.flat)
  PROVE  Awaited(p, t)
<1> DEFINE c == p[t.code]
<1>1. Heads(t.flat) = Around(c, t.pc, Iterates) /\ Lands(c, t.pc) BY FineIs
<1>2. ~At(c, t.pc - 1, {"endFor"}) BY <1>1 DEF Lands, At
<1>3. ASSUME At(c, t.pc, {"for"}), t.flat # <<>>, Last(t.flat).head = t.pc PROVE FALSE
  <2>1. Last(t.flat).head \in Heads(t.flat) BY <1>3, FrontIs DEF Heads
  <2>2. t.pc \in Around(c, t.pc, Iterates) BY <1>1, <1>3, <2>1
  <2>3. t.pc < t.pc /\ t.pc \in Int BY <1>3, <2>2, AroundIs, EndIs DEF At
  <2> QED BY <2>3, SMT
<1> QED BY <1>2, <1>3 DEF Awaited

(* What is known where an instruction runs.                                *)
LEMMA NowIs ==
  ASSUME Timely, NEW op, Executes(op)
  PROVE  /\ tl.clock \in Nat /\ Goes(tl, Fetched) /\ Fetched.clock = tl.clock + 1
         /\ Fetched.clock \in Nat /\ DOMAIN Fetched = Fields /\ Fetched.pc = tl.pc + 1
         /\ Fetched.regs = tl.regs /\ tl.regs \in Registers
         /\ Fetched.unpaid = tl.unpaid /\ tl.unpaid \in Nat
         /\ tl.loops \in Seq(Loops) /\ tl.flat \in Seq(Iterations)
         /\ Built(prog[tl.code]) /\ tl.pc \in DOMAIN prog[tl.code] /\ Code(tl) = prog[tl.code]
         /\ Instr = prog[tl.code][tl.pc] /\ prog[tl.code][tl.pc].op = op
         /\ WellFormed(prog, Instr) /\ Instr.op = op
<1>1. tl.clock \in Nat /\ Ready BY DEF Timely, Ran, Punctual, OnTimeHere, OnTime, Passed
<1>2. Goes(tl, Fetched) /\ Fetched.clock = tl.clock + 1 /\ Fetched.clock \in Nat
  BY <1>1, GoesFetched
<1>3. tl.regs \in Registers /\ tl.loops \in Seq(Loops) /\ tl.flat \in Seq(Iterations)
  BY <1>1 DEF Ready, Typed, Placed, StacksTyped
<1>4. /\ DOMAIN Fetched = Fields /\ Fetched.pc = tl.pc + 1 /\ Fetched.regs = tl.regs
      /\ Built(prog[tl.code]) /\ tl.pc \in DOMAIN prog[tl.code] /\ Code(tl) = prog[tl.code]
      /\ Instr = prog[tl.code][tl.pc] /\ prog[tl.code][tl.pc].op = op
      /\ WellFormed(prog, Instr) /\ Instr.op = op
  BY <1>1, HereIs
<1>5. Fetched.unpaid = tl.unpaid /\ tl.unpaid \in Nat
  BY <1>1, Fetch DEF Ready, Typed, Timed
<1> QED BY <1>1, <1>2, <1>3, <1>4, <1>5

(* Going on to the next instruction, or where it says.                     *)
LEMMA TimeGoesOn ==
  ASSUME Timely, NEW op, Executes(op), NEW s, Goes(tl, s),
         \/ s.pc \in Targets(Instr)
         \/ /\ s.pc = tl.pc + 1
            /\ op \notin {"loop", "while", "tick", "lease", "endLoop", "endWhile", "endTick", "endLease"}
  PROVE  Punctual(prog, s)
<1>1. /\ Built(prog[tl.code]) /\ tl.pc \in DOMAIN prog[tl.code]
      /\ Instr = prog[tl.code][tl.pc] /\ prog[tl.code][tl.pc].op = op
  BY NowIs
<1>2. Quiet(prog[tl.code], s.pc, tl.pc)
  <2>1. CASE s.pc \in Targets(Instr) BY <1>1, <2>1, QuietTarget
  <2>2. CASE s.pc = tl.pc + 1 /\ op \notin {"loop", "while", "tick", "lease", "endLoop", "endWhile", "endTick", "endLease"}
    BY <1>1, <2>2, QuietNext
  <2> QED BY <2>1, <2>2
<1> QED BY <1>2, Moves DEF Timely

(* Such a write moves no time and no stack.                               *)
LEMMA GoesSet ==
  ASSUME NEW s, DOMAIN s = Fields, s.regs \in Registers, s.clock \in Nat, NEW u, Sets(s, u)
  PROVE  Goes(s, u)
<1>0. s.clock <= s.clock BY SMT
<1>1. DOMAIN s.regs = {"more", "promise", "lease"} BY DEF Registers
<1>2. \A x : [s.regs EXCEPT !.promise = x].lease = s.regs.lease BY <1>1
<1>3. ASSUME NEW x, u = [s EXCEPT !.regs.promise = x] PROVE Goes(s, u)
  BY <1>0, <1>2, <1>3 DEF Goes, Fields
<1>4. ASSUME NEW x, NEW y, u = [[s EXCEPT !.regs.promise = x] EXCEPT !.uses = y] PROVE Goes(s, u)
  <2> DEFINE v == [s EXCEPT !.regs.promise = x]
  <2>1. /\ DOMAIN v = Fields /\ v.code = s.code /\ v.calls = s.calls /\ v.anchors = s.anchors
        /\ v.loops = s.loops /\ v.flat = s.flat /\ v.entered = s.entered /\ v.clock = s.clock
        /\ v.regs.lease = s.regs.lease
    BY <1>2 DEF Fields
  <2>2. u = [v EXCEPT !.uses = y] BY <1>4
  <2> HIDE DEF v
  <2> QED BY <1>0, <2>1, <2>2 DEF Goes, Fields
<1>5. CASE u = s BY <1>0, <1>5 DEF Goes
<1>6. ASSUME NEW x,
             \/ u = [s EXCEPT !.slice = x] \/ u = [s EXCEPT !.uses = x]
             \/ u = [s EXCEPT !.policies = x] \/ u = [s EXCEPT !.budget = x]
             \/ u = [s EXCEPT !.manifests = x] \/ u = [s EXCEPT !.pc = x]
      PROVE  Goes(s, u)
  BY <1>0, <1>6 DEF Goes, Fields
<1> QED BY <1>3, <1>4, <1>5, <1>6 DEF Sets
-----------------------------------------------------------------------------

(* A handler that writes no more than that keeps time.                    *)
LEMMA SetOnTime ==
  ASSUME Timely, NEW op, Executes(op), NEW u, Sets(Fetched, u),
         u.pc \in Targets(Instr) \/ (u.pc = tl.pc + 1 /\ op \notin Bounds)
  PROVE  Punctual(prog, u)
<1>1. /\ tl.clock \in Nat /\ Goes(tl, Fetched) /\ Fetched.clock \in Nat
      /\ DOMAIN Fetched = Fields /\ Fetched.regs \in Registers
  BY NowIs
<1>2. Goes(Fetched, u) BY <1>1, GoesSet
<1>3. Goes(tl, u) BY <1>1, <1>2, GoesTwice
<1> QED BY <1>3, TimeGoesOn DEF Bounds

(* So does one that pays first.                                           *)
LEMMA PaidOnTime ==
  ASSUME Timely, NEW op, Executes(op), NEW ms \in Nat, Paid(Fetched, ms).err = "running",
         NEW u, Sets(Paid(Fetched, ms).t, u),
         u.pc \in Targets(Instr) \/ (u.pc = tl.pc + 1 /\ op \notin Bounds)
  PROVE  Punctual(prog, u)
<1>1. /\ tl.clock \in Nat /\ Goes(tl, Fetched) /\ Fetched.clock \in Nat
      /\ DOMAIN Fetched = Fields /\ Fetched.regs \in Registers
  BY NowIs
<1> DEFINE s == Paid(Fetched, ms).t
<1>2. Goes(Fetched, s) /\ DOMAIN s = Fields /\ s.regs = Fetched.regs BY <1>1, GoesPaid
<1>3. s.clock \in Nat BY <1>2 DEF Goes
<1> HIDE DEF s
<1>4. Goes(s, u) BY <1>1, <1>2, <1>3, GoesSet DEF s
<1>5. Goes(tl, s) BY <1>1, <1>2, GoesTwice
<1>6. Goes(tl, u) BY <1>1, <1>4, <1>5, GoesTwice
<1> QED BY <1>6, TimeGoesOn DEF Bounds

(* Registers may be written after that.                                    *)
LEMMA WrittenOnTime ==
  ASSUME Timely, NEW op, Executes(op), NEW out, Goes(tl, out.t), DOMAIN out.t = Fields, NEW n \in Nat,
         NEW w \in Written(out, n), w.err = "running",
         out.t.pc \in Targets(Instr) \/ (out.t.pc = tl.pc + 1 /\ op \notin Bounds)
  PROVE  Punctual(prog, w.t)
<1>1. out.t.clock \in Nat BY DEF Goes
<1>2. Goes(out.t, w.t) /\ w.t.pc = out.t.pc BY <1>1, GoesWritten
<1>3. tl.clock \in Nat BY NowIs
<1>4. Goes(tl, w.t) BY <1>2, <1>3, GoesTwice
<1> QED BY <1>2, <1>4, TimeGoesOn DEF Bounds

(* The handlers that do no more than that.                                 *)
LEMMA SimpleOnTime ==
  ASSUME Timely, status' = "running",
         \/ Other \/ Clone \/ SetSaturationPolicy \/ Slice \/ Capability \/ Defer \/ EndIsolate \/ Speculate
         \/ Commit
  PROVE  Punctual(prog, tl')
<1> DEFINE Ops == {"other", "clone", "policy", "slice", "capability", "defer", "endIsolate", "speculate", "commit"}
           Shape(u) == \/ u = Fetched \/ \E x : u = [Fetched EXCEPT !.slice = x]
                       \/ \E x : u = [Fetched EXCEPT !.budget = x]
                       \/ \E x : u = [Fetched EXCEPT !.policies = x]
                       \/ \E x : u = [Fetched EXCEPT !.uses = x]
                       \/ \E x : u = [Fetched EXCEPT !.manifests = x]
                       \/ \E x : u = [Fetched EXCEPT !.regs.promise = x]
<1>0. /\ \A u : Shape(u) => Sets(Fetched, u)
      /\ \A u : DOMAIN Fetched = Fields /\ Shape(u) => DOMAIN u = Fields /\ u.pc = Fetched.pc
      /\ \A op \in Ops : op \notin Bounds
  BY DEF Sets, Fields, Bounds
<1> HIDE DEF Ops
<1>1. ASSUME NEW op \in Ops, Executes(op), NEW u, Shape(u)
      PROVE  /\ Punctual(prog, u)
             /\ \A w \in Written(Ok(u), 1) : w.err = "running" => Punctual(prog, w.t)
  <2>1. /\ tl.clock \in Nat /\ Goes(tl, Fetched) /\ Fetched.clock \in Nat
        /\ DOMAIN Fetched = Fields /\ Fetched.regs \in Registers /\ Fetched.pc = tl.pc + 1
    BY <1>1, NowIs
  <2>2. Sets(Fetched, u) /\ DOMAIN u = Fields /\ u.pc = tl.pc + 1 /\ op \notin Bounds
    BY <1>0, <1>1, <2>1
  <2> HIDE DEF Shape
  <2>3. Punctual(prog, u) BY <1>1, <2>2, SetOnTime
  <2>4. Goes(Fetched, u) BY <2>1, <2>2, GoesSet
  <2>5. Goes(tl, u) BY <2>1, <2>4, GoesTwice
  <2> DEFINE out == Ok(u)
  <2>6. out.t = u BY DEF Ok
  <2> HIDE DEF out
  <2>7. ASSUME NEW w \in Written(out, 1), w.err = "running" PROVE Punctual(prog, w.t)
    BY <1>1, <2>2, <2>5, <2>6, <2>7, WrittenOnTime
  <2> QED BY <2>3, <2>7 DEF out
<1>2. \E op \in Ops : \E u :
        /\ Executes(op) /\ Shape(u)
        /\ tl' = u \/ \E w \in Written(Ok(u), 1) : Becomes(w)
  <2>1. CASE Other
    <3>1. Executes("other") /\ \E w \in Written(Ok(Fetched), 1) : Becomes(w)
      BY <2>1 DEF Other, Only
    <3>2. Shape(Fetched)
      OBVIOUS
    <3> HIDE DEF Shape
    <3> QED BY <3>1, <3>2 DEF Ops
  <2>2. CASE Slice
    <3>1. Executes("slice") /\ Shape(tl') BY <2>2 DEF Slice, Only, Becomes, Ok
    <3> HIDE DEF Shape
    <3> QED BY <3>1 DEF Ops
  <2>3. CASE Capability
    <3>1. Executes("capability") /\ \E n : tl' = [Fetched EXCEPT !.uses = n]
      BY <2>3 DEF Capability, Only, Becomes, Ok, Error
    <3>2. Shape(tl') BY <3>1
    <3> HIDE DEF Shape
    <3> QED BY <3>1, <3>2 DEF Ops
  <2>4. CASE Defer
    <3> DEFINE u == [Fetched EXCEPT !.regs.promise = <<[ready |-> Fetched.clock + Instr.latency,
                                                       deadline |-> Fetched.clock + Instr.ms]>>]
    <3>1. Executes("defer") /\ \E out \in Written(Ok(u), 1) : Becomes(out)
      BY <2>4 DEF Defer, Only
    <3>2. Shape(u)
      OBVIOUS
    <3> HIDE DEF Shape, u
    <3> QED BY <3>1, <3>2 DEF Ops
  <2>5. CASE EndIsolate
    <3>1. Executes("endIsolate") /\ \E n : tl' = [Fetched EXCEPT !.manifests = n]
      BY <2>5 DEF EndIsolate, Only, Becomes, Ok
    <3>2. Shape(tl') BY <3>1
    <3> HIDE DEF Shape
    <3> QED BY <3>1, <3>2 DEF Ops
  <2>6. CASE Speculate \/ Commit
    <3>1. (Executes("speculate") \/ Executes("commit")) /\ tl' = Fetched
      BY <2>6 DEF Speculate, Commit, Becomes, Ok
    <3>2. Shape(tl') BY <3>1
    <3> HIDE DEF Shape
    <3> QED BY <3>1, <3>2 DEF Ops
  <2>8. CASE Clone
    <3>1. Executes("clone") /\ \E n : tl' = [Fetched EXCEPT !.budget = n]
      BY <2>8 DEF Clone, Only, Becomes, Inserted, Ok, Error
    <3>2. Shape(tl') BY <3>1
    <3> HIDE DEF Shape
    <3> QED BY <3>1, <3>2 DEF Ops
  <2>7. CASE SetSaturationPolicy
    <3>1. Executes("policy") /\ \E n : tl' = [Fetched EXCEPT !.policies = n]
      BY <2>7 DEF SetSaturationPolicy, Only, Becomes, Ok
    <3>2. Shape(tl') BY <3>1
    <3> HIDE DEF Shape
    <3> QED BY <3>1, <3>2 DEF Ops
  <2> QED BY <2>1, <2>2, <2>3, <2>4, <2>5, <2>6, <2>7, <2>8
<1> HIDE DEF Shape
<1>3. PICK op \in Ops : \E u :
        /\ Executes(op) /\ Shape(u)
        /\ tl' = u \/ \E w \in Written(Ok(u), 1) : Becomes(w)
  BY <1>2
<1>6. PICK u : /\ Executes(op) /\ Shape(u)
               /\ tl' = u \/ \E w \in Written(Ok(u), 1) : Becomes(w)
  BY <1>3
<1>4. CASE tl' = u BY <1>1, <1>6, <1>4
<1>5. CASE \E w \in Written(Ok(u), 1) : Becomes(w)
  <2>1. PICK w \in Written(Ok(u), 1) : w.err = "running" /\ tl' = w.t
    BY <1>5 DEF Becomes
  <2> QED BY <1>1, <1>6, <2>1
<1> QED BY <1>6, <1>4, <1>5

(* The jumps.                                                              *)
LEMMA JumpOnTime ==
  ASSUME Timely, status' = "running", Jump \/ JumpIfNot
  PROVE  Punctual(prog, tl')
<1>1. \E op \in {"jump", "jumpIfNot"} :
        Executes(op) /\ ((tl' = Fetched /\ op = "jumpIfNot") \/ tl' = [Fetched EXCEPT !.pc = Instr.to])
  <2>1. CASE Jump BY <2>1 DEF Jump, Only, Becomes, Ok
  <2>2. CASE JumpIfNot BY <2>2 DEF JumpIfNot, Only, Becomes, Ok
  <2> QED BY <2>1, <2>2
<1>2. PICK op \in {"jump", "jumpIfNot"} :
        Executes(op) /\ ((tl' = Fetched /\ op = "jumpIfNot") \/ tl' = [Fetched EXCEPT !.pc = Instr.to])
  BY <1>1
<1>3. DOMAIN Fetched = Fields /\ Fetched.pc = tl.pc + 1 /\ Instr.op = op BY <1>2, NowIs
<1>4. Sets(Fetched, tl') BY <1>2 DEF Sets
<1>5. op \notin Bounds /\ Instr.to \in Targets(Instr) BY <1>3 DEF Bounds, Targets
<1>6. (tl').pc = tl.pc + 1 \/ (tl').pc = Instr.to BY <1>2, <1>3 DEF Fields
<1> QED BY <1>2, <1>4, <1>5, <1>6, SetOnTime

(* A select pays, writes and goes to a case, to its timeout or on.         *)
LEMMA SelectOnTime ==
  ASSUME Timely, status' = "running", Select
  PROVE  Punctual(prog, tl')
<1> DEFINE dest == IF Instr.timeout = None THEN tl.pc + 1 ELSE Instr.timeout
           paid == Paid(Fetched, Instr.ms)
           goes(out, to) == Only(Then(out, LAMBDA t : [t EXCEPT !.pc = to]))
<1>1. Executes("select") /\ \/ \E to \in Instr.cases : \E out \in Written(paid, 1) : goes(out, to)
                            \/ goes(paid, dest)
  BY DEF Select
<1>2. ASSUME NEW out, NEW to, goes(out, to)
      PROVE  out.err = "running" /\ tl' = [out.t EXCEPT !.pc = to]
  BY <1>2 DEF Only, Becomes, Then, Ok
<1>3. /\ tl.clock \in Nat /\ Goes(tl, Fetched) /\ Fetched.clock \in Nat /\ DOMAIN Fetched = Fields
      /\ Fetched.regs \in Registers /\ Instr.ms \in Nat /\ Instr.op = "select"
  BY <1>1, NowIs DEF WellFormed
<1>4. paid.err = "running" => /\ DOMAIN paid.t = Fields /\ Goes(Fetched, paid.t) /\ paid.t.regs = Fetched.regs
                              /\ paid.t.clock \in Nat
  <2>1. paid.err = "running" => DOMAIN paid.t = Fields /\ Goes(Fetched, paid.t) /\ paid.t.regs = Fetched.regs
    BY <1>3, GoesPaid
  <2> QED BY <2>1 DEF Goes
<1> HIDE DEF paid, goes
<1>5. \E to \in Instr.cases \cup {dest} : \E out :
        goes(out, to) /\ DOMAIN out.t = Fields /\ Goes(Fetched, out.t) /\ out.t.regs \in Registers
  <2>1. CASE goes(paid, dest) BY <1>2, <1>3, <1>4, <2>1
  <2>2. CASE \E to \in Instr.cases : \E out \in Written(paid, 1) : goes(out, to)
    <3>1. PICK to \in Instr.cases, out \in Written(paid, 1) : goes(out, to) BY <2>2
    <3>2. out.err = "running" /\ paid.err = "running" BY <1>2, <3>1 DEF Written
    <3>3. Goes(paid.t, out.t) /\ out.t.regs = paid.t.regs /\ DOMAIN out.t = Fields
      BY <1>4, <3>1, <3>2, GoesWritten
    <3>4. Goes(Fetched, out.t) BY <1>3, <1>4, <3>2, <3>3, GoesTwice
    <3>5. out.t.regs \in Registers BY <1>3, <1>4, <3>2, <3>3
    <3> HIDE DEF dest
    <3> QED BY <3>1, <3>3, <3>4, <3>5
  <2> QED BY <1>1, <2>1, <2>2
<1>15. PICK to \in Instr.cases \cup {dest} : \E out :
        goes(out, to) /\ DOMAIN out.t = Fields /\ Goes(Fetched, out.t) /\ out.t.regs \in Registers
  BY <1>5
<1>6. PICK out : goes(out, to) /\ DOMAIN out.t = Fields /\ Goes(Fetched, out.t) /\ out.t.regs \in Registers
  BY <1>15
<1>7. tl' = [out.t EXCEPT !.pc = to] /\ out.t.clock \in Nat BY <1>2, <1>6 DEF Goes
<1> DEFINE u == out.t
<1>8. DOMAIN u = Fields /\ Goes(Fetched, u) /\ u.regs \in Registers /\ u.clock \in Nat
  BY <1>6, <1>7
<1>9. tl' = [u EXCEPT !.pc = to] BY <1>7
<1> HIDE DEF u
<1>10. Sets(u, tl') /\ (tl').pc = to BY <1>8, <1>9 DEF Sets, Fields
<1>11. Goes(u, tl') BY <1>8, <1>10, GoesSet
<1>12. Goes(tl, u) BY <1>3, <1>8, GoesTwice
<1>13. Goes(tl, tl') BY <1>3, <1>11, <1>12, GoesTwice
<1>14. (tl').pc = tl.pc + 1 \/ (tl').pc \in Targets(Instr)
  BY <1>3, <1>15, <1>10 DEF Targets
<1> QED BY <1>1, <1>13, <1>14, TimeGoesOn

(* A foreign routine writes, pays and writes.                              *)
LEMMA ForeignOnTime ==
  ASSUME Timely, status' = "running", Foreign
  PROVE  Punctual(prog, tl')
<1>1. Executes("foreign") BY DEF Foreign
<1>2. PICK back \in Written(Ok(Fetched), Instr.args) :
        LET took == IF back.err = "running" THEN Paid(back.t, Instr.ms) ELSE back
        IN \E out \in Written(took, 1) : Only(out)
  BY DEF Foreign
<1> DEFINE took == IF back.err = "running" THEN Paid(back.t, Instr.ms) ELSE back
<1>3. PICK out \in Written(took, 1) : out.err = "running" /\ tl' = out.t
  BY <1>2 DEF Only, Becomes
<1>4. took.err = "running" => back.err = "running" /\ took = Paid(back.t, Instr.ms)
  OBVIOUS
<1> HIDE DEF took
<1>5. took.err = "running" BY <1>3 DEF Written
<1>6. /\ tl.clock \in Nat /\ Goes(tl, Fetched) /\ Fetched.clock \in Nat /\ DOMAIN Fetched = Fields
      /\ Fetched.pc = tl.pc + 1 /\ Instr.ms \in Nat /\ Instr.args \in Nat
  BY <1>1, NowIs DEF WellFormed
<1> DEFINE fetched == Ok(Fetched)
<1>7. fetched.t = Fetched BY DEF Ok
<1>8. back \in Written(fetched, Instr.args) BY <1>2
<1> HIDE DEF fetched
<1>9. /\ Goes(Fetched, back.t) /\ back.t.pc = tl.pc + 1 /\ DOMAIN back.t = Fields
      /\ back.t.clock \in Nat
  BY <1>4, <1>5, <1>6, <1>7, <1>8, GoesWritten
<1>10. Goes(back.t, took.t) /\ DOMAIN took.t = Fields /\ took.t.pc = tl.pc + 1
  BY <1>4, <1>5, <1>6, <1>9, GoesPaid
<1>11. Goes(tl, back.t) BY <1>6, <1>9, GoesTwice
<1>12. Goes(tl, took.t) BY <1>6, <1>10, <1>11, GoesTwice
<1>13. "foreign" \notin Bounds BY DEF Bounds
<1>14. Punctual(prog, out.t) BY <1>1, <1>3, <1>10, <1>12, <1>13, WrittenOnTime
<1> QED BY <1>3, <1>14

(* The handlers that pay.                                                  *)
LEMMA PayingOnTime ==
  ASSUME Timely, status' = "running", Select \/ Foreign \/ Await \/ EndPeriodicEpoch
  PROVE  Punctual(prog, tl')
<1>2. CASE Await
  <2> DEFINE p == Head(tl.regs.promise)
             ms == Monus(p.ready, Fetched.clock)
             waited == Paid(Fetched, ms)
             S(t) == [t EXCEPT !.regs.promise = <<>>]
             A(t) == [S(t) EXCEPT !.uses = IF @ > 0 THEN @ - 1 ELSE @]
             x1 == Then(waited, S)
             x2 == Then(waited, A)
  <2>1. /\ Executes("await") /\ tl.regs.promise # <<>>
        /\ (\E out \in Inserted(x1) : Becomes(out)) \/ (\E out \in Written(x2, 1) : Becomes(out))
    <3>1. Executes("await") /\ tl.regs.promise # <<>>
      BY <1>2 DEF Await, Only, Becomes, Error
    <3> QED BY <1>2, <3>1 DEF Await, Only
  <2> DEFINE u == waited.t
             Set(v) == \/ v = [u EXCEPT !.regs.promise = <<>>]
                       \/ \E n : v = [[u EXCEPT !.regs.promise = <<>>] EXCEPT !.uses = n]
  <2>2. x1.err = "running" => waited.err = "running" /\ Set(x1.t) BY DEF Then, Ok
  <2>3. x2.err = "running" => waited.err = "running" /\ Set(x2.t) BY DEF Then, Ok
  <2> HIDE DEF x1, x2
  <2>4. p.ready \in Int
    <3> DEFINE P == [ready : Int, deadline : Int]
    <3>1. tl.regs.promise \in Seq(P) BY DEF Timely, Ran, Ready, Typed, Placed, Registers
    <3> HIDE DEF P
    <3>2. Head(tl.regs.promise) \in P BY <2>1, <3>1, SMT
    <3> QED BY <3>2 DEF P
  <2>5. /\ tl.clock \in Nat /\ Goes(tl, Fetched) /\ Fetched.clock \in Nat /\ DOMAIN Fetched = Fields
        /\ Fetched.pc = tl.pc + 1 /\ Fetched.regs \in Registers
    BY <2>1, NowIs
  <2> HIDE DEF p
  <2>6. ms \in Nat
    <3>1. Fetched.clock \in Int BY <2>5
    <3> QED BY <2>4, <3>1, MonusType
  <2> HIDE DEF ms
  <2>7. ASSUME NEW v, waited.err = "running", Set(v)
        PROVE  Goes(tl, v) /\ DOMAIN v = Fields /\ v.pc = tl.pc + 1 /\ Punctual(prog, v)
    <3>1. Goes(Fetched, u) /\ DOMAIN u = Fields /\ u.pc = tl.pc + 1 /\ u.regs \in Registers
      BY <2>5, <2>6, <2>7, GoesPaid
    <3>2. u.clock \in Nat BY <3>1 DEF Goes
    <3>3. Set(v) BY <2>7
    <3> HIDE DEF waited, u
    <3>4. Sets(u, v) /\ DOMAIN v = Fields /\ v.pc = tl.pc + 1
      BY <3>1, <3>3 DEF Sets, Fields
    <3>5. Goes(u, v) BY <3>1, <3>2, <3>4, GoesSet
    <3>6. Goes(tl, u) BY <2>5, <3>1, GoesTwice
    <3>7. Goes(tl, v) BY <2>5, <3>5, <3>6, GoesTwice
    <3>8. "await" \notin Bounds BY DEF Bounds
    <3>9. Punctual(prog, v) BY <2>1, <3>4, <3>7, <3>8, TimeGoesOn DEF Bounds
    <3> QED BY <3>4, <3>7, <3>9
  <2> HIDE DEF waited, Set
  <2>8. CASE \E out \in Inserted(x1) : Becomes(out)
    <3>1. x1.err = "running" /\ tl' = x1.t BY <2>8, InsertedIs DEF Becomes
    <3> QED BY <2>2, <2>7, <3>1
  <2>9. CASE \E out \in Written(x2, 1) : Becomes(out)
    <3>1. PICK w \in Written(x2, 1) : w.err = "running" /\ tl' = w.t BY <2>9 DEF Becomes
    <3>2. x2.err = "running" BY <3>1 DEF Written
    <3>3. Goes(tl, x2.t) /\ DOMAIN x2.t = Fields /\ x2.t.pc = tl.pc + 1
      BY <2>3, <2>7, <3>2
    <3>4. "await" \notin Bounds BY DEF Bounds
    <3>5. Punctual(prog, w.t) BY <2>1, <3>1, <3>3, <3>4, WrittenOnTime
    <3> QED BY <3>1, <3>5
  <2> QED BY <2>1, <2>8, <2>9
<1>3. CASE EndPeriodicEpoch
  <2> DEFINE ms == Monus(Instr.ms, Fetched.clock)
             u == Paid(Fetched, ms).t
  <2>1. Executes("endEpoch") /\ Paid(Fetched, ms).err = "running" /\ tl' = u
    BY <1>3 DEF EndPeriodicEpoch, Only, Becomes
  <2>2. /\ Instr.ms \in Nat /\ DOMAIN Fetched = Fields /\ Fetched.clock \in Nat
        /\ Fetched.pc = tl.pc + 1
    BY <2>1, NowIs DEF WellFormed
  <2>3. ms \in Nat
    <3>1. Fetched.clock \in Int /\ Instr.ms \in Int BY <2>2
    <3> QED BY <3>1, MonusType
  <2> HIDE DEF ms
  <2>4. u.pc = tl.pc + 1 BY <2>1, <2>2, <2>3, GoesPaid
  <2>5. Sets(u, u) BY DEF Sets
  <2>6. "endEpoch" \notin Bounds BY DEF Bounds
  <2> HIDE DEF u
  <2> QED BY <2>1, <2>3, <2>4, <2>5, <2>6, PaidOnTime DEF u
<1> QED BY <1>2, <1>3, SelectOnTime, ForeignOnTime
-----------------------------------------------------------------------------
(* What is kept at a moment                                                *)

(* A call frames the caller as it is.                                      *)
LEMMA CallOnTime ==
  ASSUME Timely, status' = "running", Call
  PROVE  Punctual(prog, tl')
<1> DEFINE f == Frame(Fetched)
           n == Len(tl.calls)
           deeper == Append(tl.calls, f)
           r == Instr.routine
<1>1. /\ Executes("call")
      /\ tl' = [Fetched EXCEPT !.calls = Append(@, f), !.code = r, !.pc = 1, !.depth = 0,
                  !.loops = <<>>, !.flat = <<>>, !.regs = Empty, !.entered = <<>>]
  BY DEF Call, Only, Becomes, Inserted, Ok, Error
<1>2. /\ DOMAIN Fetched = Fields /\ Fetched.pc = tl.pc + 1 /\ Goes(tl, Fetched)
      /\ Fetched.clock \in Nat /\ WellFormed(prog, Instr) /\ Instr.op = "call"
  BY <1>1, NowIs
<1>3. Fetched.calls = tl.calls /\ Fetched.anchors = tl.anchors BY <1>2 DEF Goes
<1>4. Punctual(prog, Fetched)
  <2>1. "call" \notin Bounds /\ Sets(Fetched, Fetched) BY DEF Bounds, Sets
  <2> QED BY <1>1, <1>2, <2>1, SetOnTime
<1>5. /\ f.code = Fetched.code /\ f.pc = Fetched.pc /\ f.loops = Fetched.loops
      /\ f.flat = Fetched.flat /\ f.regs = Fetched.regs /\ f.entered = Fetched.entered
      /\ f.start = Fetched.clock
  BY DEF Frame
<1>6. /\ (tl').calls = deeper /\ (tl').code = r /\ (tl').pc = 1 /\ (tl').loops = <<>>
      /\ (tl').flat = <<>> /\ (tl').anchors = tl.anchors /\ (tl').clock = Fetched.clock
  BY <1>1, <1>2, <1>3 DEF Fields
<1>7. \A ops : Around(prog[r], 1, ops) = {}
  <2>1. r \in DOMAIN prog /\ prog \in Programs
    BY <1>2 DEF WellFormed, Timely, Ran, Ready
  <2> QED BY <2>1, BuiltIs, FirstIs
<1> HIDE DEF f
<1>8. \A k \in DOMAIN deeper : deeper[k] = f \/ (k \in DOMAIN tl.calls /\ deeper[k] = tl.calls[k])
  <2>1. IsSeq(tl.calls) BY RanIs DEF Timely
  <2>2. deeper[n + 1] = f
        /\ \A k \in DOMAIN deeper : k = n + 1 \/ (k \in DOMAIN tl.calls /\ deeper[k] = tl.calls[k])
    BY <2>1, AppendIs
  <2> QED BY <2>2
<1> HIDE DEF deeper
<1>9. FramesOnTime(prog, deeper, Fetched.clock)
  <2>1. /\ OnTime(prog, f.code, f.pc, f.loops, f.flat, f.regs.lease, f.entered, f.start)
        /\ f.start <= Fetched.clock
    <3>1. Fetched.clock <= Fetched.clock BY <1>2, SMT
    <3> QED BY <1>4, <1>5, <3>1 DEF Punctual, OnTimeHere
  <2>2. FramesOnTime(prog, tl.calls, Fetched.clock) BY <1>3, <1>4 DEF Punctual
  <2> QED BY <1>8, <2>1, <2>2 DEF FramesOnTime
<1>10. OnTimeHere(prog, tl')
  <2>1. Passed(<<>>, Fetched.clock) BY <1>2 DEF Passed
  <2>2. /\ \A e : LoopsTied(e, r, {}, <<>>) /\ FlatTied(e, prog, r, <<>>)
        /\ \A e, due : LeaseTied(e, r, {}, due)
    BY DEF LoopsTied, FlatTied, LeaseTied
  <2> QED BY <1>6, <1>7, <2>1, <2>2 DEF OnTimeHere, OnTime
<1>11. AnchorsOnTime(prog, tl.anchors) BY <1>3, <1>4 DEF Punctual
<1> QED BY <1>6, <1>9, <1>10, <1>11 DEF Punctual

(* A return gives the caller its blocks back, later.                       *)
LEMMA ReturnOnTime ==
  ASSUME Timely, status' = "running", astray' = {}, Return
  PROVE  Punctual(prog, tl')
<1> DEFINE f == Last(tl.calls)
           outer == Front(tl.calls)
<1>1. Executes("return") /\ tl.calls # <<>> /\ tl' = Returned(Fetched, f)
  BY DEF Return, Becomes, Inserted, Ok, Error, Strays
<1>2. /\ DOMAIN Fetched = Fields /\ Goes(tl, Fetched) /\ Fetched.clock \in Nat /\ tl.clock \in Nat
  BY <1>1, NowIs
<1>3. Fetched.calls = tl.calls /\ Fetched.anchors = tl.anchors /\ tl.clock <= Fetched.clock
  BY <1>2 DEF Goes
<1>4. /\ (tl').calls = outer /\ (tl').code = f.code /\ (tl').pc = f.pc /\ (tl').loops = f.loops
      /\ (tl').flat = f.flat /\ (tl').regs = f.regs /\ (tl').entered = f.entered
      /\ (tl').anchors = tl.anchors /\ (tl').clock = Fetched.clock
  BY <1>1, <1>2, <1>3 DEF Returned, Fields
<1>5. /\ \E k \in DOMAIN tl.calls : f = tl.calls[k]
      /\ \A k \in DOMAIN outer : k \in DOMAIN tl.calls /\ outer[k] = tl.calls[k]
  BY <1>1, RanIs, FrontIs DEF Timely
<1>6. FramesOnTime(prog, tl.calls, Fetched.clock)
  BY <1>2, <1>3, LaterOn DEF Timely, Punctual
<1> HIDE DEF f, outer
<1>7. FramesOnTime(prog, outer, Fetched.clock) BY <1>5, <1>6 DEF FramesOnTime
<1>8. /\ OnTime(prog, f.code, f.pc, f.loops, f.flat, f.regs.lease, f.entered, f.start)
      /\ f.start <= Fetched.clock
  BY <1>5, <1>6 DEF FramesOnTime
<1>9. Passed(f.loops, Fetched.clock)
  <2>1. f.start \in Nat /\ Passed(f.loops, f.start) BY <1>8 DEF OnTime, Passed
  <2> QED BY <1>2, <1>8, <2>1, LaterOn
<1>10. OnTimeHere(prog, tl') BY <1>4, <1>8, <1>9 DEF OnTimeHere, OnTime
<1>11. AnchorsOnTime(prog, tl.anchors) BY DEF Timely, Punctual
<1> QED BY <1>4, <1>7, <1>10, <1>11 DEF Punctual

(* An anchor keeps the moment it is set.                                   *)
LEMMA AnchorOnTime ==
  ASSUME Timely, status' = "running", Anchor
  PROVE  Punctual(prog, tl')
<1> DEFINE t == Fetched
           point == [clock |-> t.clock, regs |-> t.regs, budget |-> t.budget, uses |-> t.uses,
                     pc |-> t.pc, code |-> t.code, unpaid |-> t.unpaid,
                     entered |-> t.entered, calls |-> t.calls, stacks |-> Stacks(t)]
           u == [t EXCEPT !.anchors = Bind(@, Instr.name, point)]
<1>1. Executes("anchor") /\ tl' = u BY DEF Anchor, Only, Becomes, Ok
<1>2. DOMAIN t = Fields /\ t.pc = tl.pc + 1 BY <1>1, NowIs
<1>3. Punctual(prog, t)
  <2>1. "anchor" \notin Bounds /\ Sets(t, t) BY DEF Bounds, Sets
  <2> QED BY <1>1, <1>2, <2>1, SetOnTime
<1>4. /\ point.calls = t.calls /\ point.code = t.code /\ point.pc = t.pc /\ point.regs = t.regs
      /\ point.entered = t.entered /\ point.clock = t.clock
      /\ point.stacks[1] = t.loops /\ point.stacks[2] = t.flat
  BY DEF Stacks
<1>5. /\ u.calls = t.calls /\ u.code = t.code /\ u.pc = t.pc /\ u.loops = t.loops
      /\ u.flat = t.flat /\ u.regs = t.regs /\ u.entered = t.entered /\ u.clock = t.clock
      /\ u.anchors = Bind(t.anchors, Instr.name, point)
  BY <1>2 DEF Fields
<1> HIDE DEF t, point, u
<1>6. /\ DOMAIN u.anchors = DOMAIN t.anchors \cup {Instr.name} /\ u.anchors[Instr.name] = point
      /\ \A x \in DOMAIN t.anchors : x # Instr.name => u.anchors[x] = t.anchors[x]
  BY <1>5 DEF Bind
<1>7. /\ OnTime(prog, point.code, point.pc, point.stacks[1], point.stacks[2], point.regs.lease,
                point.entered, point.clock)
      /\ FramesOnTime(prog, point.calls, point.clock)
  BY <1>3, <1>4 DEF Punctual, OnTimeHere
<1>8. AnchorsOnTime(prog, u.anchors) BY <1>3, <1>6, <1>7 DEF Punctual, AnchorsOnTime
<1> QED BY <1>1, <1>3, <1>5, <1>8 DEF Punctual, OnTimeHere

(* A rewind goes back to it, with the calls and the stacks it had.         *)
LEMMA RewindOnTime ==
  ASSUME Timely, status' = "running", astray' = {}, Rewind
  PROVE  Punctual(prog, tl')
<1> DEFINE a == tl.anchors[Instr.name]
<1>1. /\ Executes("rewind") /\ Instr.name \in DOMAIN tl.anchors /\ tl' = Rewound(Fetched, a)
      /\ a.calls = tl.calls /\ a.stacks = Stacks(tl)
  BY DEF Rewind, Becomes, Ok, Error, Strays
<1>2. DOMAIN Fetched = Fields /\ Goes(tl, Fetched) BY <1>1, NowIs
<1>3. a.stacks[1] = tl.loops /\ a.stacks[2] = tl.flat BY <1>1 DEF Stacks
<1>4. AnchorsOnTime(prog, tl.anchors) BY DEF Timely, Punctual
<1>5. /\ OnTime(prog, a.code, a.pc, a.stacks[1], a.stacks[2], a.regs.lease, a.entered, a.clock)
      /\ FramesOnTime(prog, a.calls, a.clock)
  BY <1>1, <1>4 DEF AnchorsOnTime
<1> HIDE DEF a
<1>6. /\ (tl').calls = tl.calls /\ (tl').code = a.code /\ (tl').pc = a.pc /\ (tl').loops = tl.loops
      /\ (tl').flat = tl.flat /\ (tl').regs = a.regs /\ (tl').entered = a.entered
      /\ (tl').clock = a.clock /\ (tl').anchors = tl.anchors
  BY <1>1, <1>2 DEF Rewound, Goes, Fields
<1> QED BY <1>1, <1>3, <1>4, <1>5, <1>6 DEF Punctual, OnTimeHere

(* What is restored from a context was on time when it was kept.          *)
LEMMA BackOnTime ==
  ASSUME Timely, NEW x, x = Last(speculation_stack), speculation_stack # <<>>,
         x.start.code = tl.code, DOMAIN x.start = Fields, NEW u,
         Quiet(prog[tl.code], u.pc, x.start.pc),
         Restored(x.start, u)
  PROVE  Punctual(prog, u) /\ ContextsOnTime(prog, Front(speculation_stack))
<1> DEFINE s == speculation_stack
<1>1. /\ x = s[Len(s)] /\ Len(s) \in DOMAIN s
      /\ \A i \in DOMAIN Front(s) : i \in DOMAIN s /\ Front(s)[i] = s[i]
  BY RanIs, FrontIs DEF Timely
<1>2. Punctual(prog, x.start) BY <1>1 DEF Timely, ContextsOnTime
<1>3. x.start.clock \in Nat BY <1>2 DEF Punctual, OnTimeHere, OnTime, Passed
<1> DEFINE Same == /\ u.code = x.start.code /\ u.calls = x.start.calls
                   /\ u.anchors = x.start.anchors /\ u.loops = x.start.loops
                   /\ u.flat = x.start.flat /\ u.entered = x.start.entered
                   /\ u.regs = x.start.regs /\ u.clock = x.start.clock
<1>4. Same
  <2>1. ASSUME NEW pc, u = [x.start EXCEPT !.pc = pc, !.code = tl.code, !.depth = tl.depth]
        PROVE  Same
    BY <2>1 DEF Fields
  <2>2. ASSUME NEW pc, u = [x.start EXCEPT !.code = tl.code, !.pc = pc] PROVE Same
    BY <2>2 DEF Fields
  <2> HIDE DEF Same
  <2> QED BY <2>1, <2>2 DEF Restored
<1>5. x.start.clock <= x.start.clock BY <1>3, SMT
<1>6. Goes(x.start, u) BY <1>3, <1>4, <1>5 DEF Goes
<1>7. Punctual(prog, u) BY <1>2, <1>6, Moves
<1> HIDE DEF s
<1>8. ContextsOnTime(prog, Front(s)) BY <1>1 DEF Timely, ContextsOnTime, s
<1> QED BY <1>7, <1>8 DEF s

(* The end of a speculation.                                              *)
LEMMA EndSpeculateOnTime ==
  ASSUME Timely, status' = "running", EndSpeculate
  PROVE  Punctual(prog, tl') /\ ContextsOnTime(prog, speculation_stack')
<1> DEFINE c == prog[tl.code]
           s == speculation_stack
           x == Last(s)
           g == c[tl.pc].head
<1>1. /\ s # <<>> /\ speculation_stack' = Front(s)
      /\ \/ tl' = Fetched
         \/ tl' = [x.start EXCEPT !.pc = Fetched.pc, !.code = tl.code, !.depth = tl.depth]
      /\ DOMAIN Fetched = Fields /\ Fetched.pc = tl.pc + 1
      /\ \A ops : "speculate" \notin ops => /\ Around(c, tl.pc + 1, ops) = Around(c, tl.pc, ops)
                                            /\ Around(c, g + 1, ops) = Around(c, tl.pc, ops)
      /\ DOMAIN x.start = Fields /\ x.start.code = tl.code /\ x.start.pc = g + 1
  <2>1. Ran BY DEF Timely
  <2> QED BY <2>1, EndSpeculateIs
<1>2. Executes("endSpeculate") BY DEF EndSpeculate
<1>3. "speculate" \notin Limited /\ "speculate" \notin Leases BY DEF Limited, Leases
<1>4. Quiet(c, tl.pc + 1, g + 1) BY <1>1, <1>3 DEF Quiet
<1> DEFINE u == [x.start EXCEPT !.pc = Fetched.pc, !.code = tl.code, !.depth = tl.depth]
<1>5. u.pc = tl.pc + 1 BY <1>1 DEF Fields
<1>6. Punctual(prog, u) /\ ContextsOnTime(prog, Front(s))
  <2>1. Quiet(c, u.pc, x.start.pc) BY <1>1, <1>4, <1>5
  <2>2. Restored(x.start, u) BY DEF Restored
  <2> HIDE DEF u
  <2> QED BY <1>1, <2>1, <2>2, BackOnTime
<1>7. Punctual(prog, Fetched)
  <2>1. "endSpeculate" \notin Bounds /\ Sets(Fetched, Fetched) BY DEF Bounds, Sets
  <2> QED BY <1>1, <1>2, <2>1, SetOnTime
<1> HIDE DEF u
<1> QED BY <1>1, <1>6, <1>7 DEF u

(* A collapse.                                                            *)
LEMMA CollapseOnTime ==
  ASSUME Timely, status' = "running", astray' = {}, Collapse
  PROVE  Punctual(prog, tl') /\ ContextsOnTime(prog, speculation_stack')
<1> DEFINE c == prog[tl.code]
           s == speculation_stack
           x == Last(s)
<1>1. \E h :
        /\ s # <<>> /\ speculation_stack' = Front(s)
        /\ tl' = [x.start EXCEPT !.code = tl.code, !.pc = x.fallback]
        /\ \A ops : "speculate" \notin ops => Around(c, c[h].fallback, ops) = Around(c, h + 1, ops)
        /\ DOMAIN x.start = Fields /\ x.start.code = tl.code
        /\ x.start.pc = h + 1 /\ x.fallback = c[h].fallback
  <2>1. Ran BY DEF Timely
  <2> QED BY <2>1, CollapseIs
<1>2. PICK h :
        /\ s # <<>> /\ speculation_stack' = Front(s)
        /\ tl' = [x.start EXCEPT !.code = tl.code, !.pc = x.fallback]
        /\ \A ops : "speculate" \notin ops => Around(c, c[h].fallback, ops) = Around(c, h + 1, ops)
        /\ DOMAIN x.start = Fields /\ x.start.code = tl.code
        /\ x.start.pc = h + 1 /\ x.fallback = c[h].fallback
  BY <1>1
<1>3. "speculate" \notin Limited /\ "speculate" \notin Leases BY DEF Limited, Leases
<1>4. (tl').pc = x.fallback BY <1>2 DEF Fields
<1>5. Quiet(c, (tl').pc, x.start.pc) BY <1>2, <1>3, <1>4 DEF Quiet
<1>6. Restored(x.start, tl') BY <1>2 DEF Restored
<1> QED BY <1>2, <1>5, <1>6, BackOnTime

(* The speculations otherwise.                                             *)
LEMMA ContextsGoOn ==
  ASSUME Timely, status' = "running", Speculate \/ Commit
  PROVE  ContextsOnTime(prog, speculation_stack')
<1> DEFINE s == speculation_stack
<1>1. IsSeq(s) /\ ContextsOnTime(prog, s) BY RanIs DEF Timely
<1>2. CASE Speculate
  <2> DEFINE x == [start |-> Fetched, fallback |-> Instr.fallback, committed |-> FALSE]
  <2>1. speculation_stack' = Append(s, x) /\ tl' = Fetched
    BY <1>2 DEF Speculate, Becomes, Ok
  <2>2. x.start = tl' /\ Punctual(prog, tl') BY <1>2, <2>1, SimpleOnTime
  <2> HIDE DEF s, x
  <2>3. \A i \in DOMAIN Append(s, x) :
          Append(s, x)[i] = x \/ (i \in DOMAIN s /\ Append(s, x)[i] = s[i])
    BY <1>1, AppendIs
  <2>4. ContextsOnTime(prog, Append(s, x)) BY <1>1, <2>2, <2>3 DEF ContextsOnTime
  <2> QED BY <2>1, <2>4
<1>3. CASE Commit
  <2> DEFINE u == speculation_stack'
  <2>1. \/ u = s
        \/ s # <<>> /\ u = [s EXCEPT ![Len(s)].committed = TRUE]
    BY <1>3 DEF Commit
  <2>2. \A i \in DOMAIN s : DOMAIN s[i] = {"start", "fallback", "committed"}
    BY DEF Timely, Ran, Contexts
  <2>3. CASE u = s BY <1>1, <2>3
  <2>4. CASE s # <<>> /\ u = [s EXCEPT ![Len(s)].committed = TRUE]
    <3> DEFINE e == [s[Len(s)] EXCEPT !.committed = TRUE]
    <3>2. Len(s) \in DOMAIN s BY <1>1, <2>4, FrontIs
    <3>3. e.start = s[Len(s)].start BY <2>2, <3>2
    <3> HIDE DEF e
    <3>4. u = [s EXCEPT ![Len(s)] = e] BY <2>4 DEF e
    <3> HIDE DEF s, u
    <3>5. DOMAIN u = DOMAIN s /\ \A i \in DOMAIN s : u[i] = IF i = Len(s) THEN e ELSE s[i]
      BY <3>4
    <3>6. ContextsOnTime(prog, u) BY <1>1, <3>3, <3>5 DEF ContextsOnTime
    <3> QED BY <3>6 DEF u
  <2> QED BY <2>1, <2>3, <2>4
<1> QED BY <1>2, <1>3
-----------------------------------------------------------------------------
(* Blocks that begin                                                       *)

(* What begins a block is inside none of it yet.                           *)
LEMMA BeginsHere ==
  ASSUME Timely, NEW op \in {"loop", "while", "tick", "isolate", "lease"}, Executes(op)
  PROVE  LET c == prog[tl.code]
         IN /\ Built(c) /\ tl.pc \in DOMAIN c /\ c[tl.pc].op = op /\ op \in Begins /\ op # "for"
            /\ Fine(prog, tl, speculation_stack)
            /\ \A ops : tl.pc \notin Around(c, tl.pc, ops) /\ Later(tl.pc, Around(c, tl.pc, ops))
            /\ tl.pc \notin Heads(tl.flat)
<1> DEFINE c == prog[tl.code]
<1>1. Built(c) /\ tl.pc \in DOMAIN c /\ c[tl.pc].op = op BY NowIs
<1>2. op \in Begins /\ op # "for" /\ Calm(op) BY OpsAre DEF Calm
<1>3. Fine(prog, tl, speculation_stack) BY <1>1, <1>2, CalmFine DEF Timely, Ran
<1>4. ASSUME NEW ops
      PROVE  tl.pc \notin Around(c, tl.pc, ops) /\ Later(tl.pc, Around(c, tl.pc, ops))
  <2> HIDE DEF c
  <2>1. tl.pc \notin Around(c, tl.pc, ops) BY <1>1, <1>2, PastBegin
  <2>2. tl.pc \in Int /\ DOMAIN c = 1 .. Len(c) /\ DOMAIN c \subseteq Int BY <1>1, EndIs
  <2>3. \A k \in Around(c, tl.pc, ops) : k < tl.pc BY <1>1, AroundIs
  <2>4. Around(c, tl.pc, ops) \subseteq Int BY <1>1, <2>2, AroundIs
  <2> QED BY <2>1, <2>2, <2>3, <2>4 DEF Later
<1>5. tl.pc \notin Heads(tl.flat) BY <1>3, <1>4, FineIs
<1> QED BY <1>1, <1>2, <1>3, <1>4, <1>5

(* What is written of the block says nothing of the others.                *)
LEMMA EnteredTied ==
  ASSUME Timely, NEW op \in {"loop", "while", "tick", "isolate", "lease"}, Executes(op),
         NEW later, NEW v, Writes(later, tl.entered, <<tl.code, tl.pc>>, v)
  PROVE  LET c == prog[tl.code]
         IN /\ LoopsTied(later, tl.code, Around(c, tl.pc, Limited), tl.loops)
            /\ LeaseTied(later, tl.code, Around(c, tl.pc, Leases), tl.regs.lease)
            /\ FlatTied(later, prog, tl.code, tl.flat)
<1> DEFINE c == prog[tl.code]
<1>1. (\A ops : tl.pc \notin Around(c, tl.pc, ops)) /\ tl.pc \notin Heads(tl.flat)
  BY BeginsHere
<1>2. /\ LoopsTied(tl.entered, tl.code, Around(c, tl.pc, Limited), tl.loops)
      /\ LeaseTied(tl.entered, tl.code, Around(c, tl.pc, Leases), tl.regs.lease)
      /\ FlatTied(tl.entered, prog, tl.code, tl.flat)
  BY DEF Timely, Punctual, OnTimeHere, OnTime
<1> HIDE DEF c
<1>3. LoopsTied(later, tl.code, Around(c, tl.pc, Limited), tl.loops)
  BY <1>1, <1>2, EnterTied
<1>4. LeaseTied(later, tl.code, Around(c, tl.pc, Leases), tl.regs.lease)
  BY <1>1, <1>2, EnterTied
<1>5. FlatTied(later, prog, tl.code, tl.flat) BY <1>1, <1>2, EnterTied
<1> QED BY <1>3, <1>4, <1>5 DEF c

(* Entering writes the clock and the milliseconds of the block.            *)
LEMMA EnterIs ==
  ASSUME NEW u, DOMAIN u = Fields, NEW ms, NEW t, t = Enter(u, ms)
  PROVE  /\ DOMAIN t = Fields /\ t.code = u.code /\ t.pc = u.pc /\ t.clock = u.clock
         /\ t.loops = u.loops /\ t.flat = u.flat /\ t.calls = u.calls /\ t.regs = u.regs
         /\ t.anchors = u.anchors
         /\ Writes(t.entered, u.entered, <<tl.code, tl.pc>>,
                   [clock |-> u.clock, ms |-> ms, unpaid |-> u.unpaid])
<1>1. /\ DOMAIN t = Fields /\ t.code = u.code /\ t.pc = u.pc /\ t.clock = u.clock
      /\ t.loops = u.loops /\ t.flat = u.flat /\ t.calls = u.calls /\ t.regs = u.regs
      /\ t.anchors = u.anchors
      /\ t.entered = Bind(u.entered, <<tl.code, tl.pc>>,
                          [clock |-> u.clock, ms |-> ms, unpaid |-> u.unpaid])
  BY DEF Enter, Fields
<1> QED BY <1>1, BindWrites

(* The blocks past the beginning of one.                                   *)
LEMMA BeginsQuiet ==
  ASSUME Timely, NEW op \in {"loop", "while", "tick", "isolate", "lease"}, Executes(op)
  PROVE  LET c == prog[tl.code]
         IN /\ op \in {"loop", "while", "tick"} =>
                 /\ Gains(Around(c, tl.pc + 1, Limited), Around(c, tl.pc, Limited), tl.pc)
                 /\ Around(c, tl.pc + 1, Leases) = Around(c, tl.pc, Leases)
            /\ op = "lease" =>
                 /\ Gains(Around(c, tl.pc + 1, Leases), Around(c, tl.pc, Leases), tl.pc)
                 /\ Around(c, tl.pc + 1, Limited) = Around(c, tl.pc, Limited)
            /\ op = "isolate" =>
                 /\ Around(c, tl.pc + 1, Leases) = Around(c, tl.pc, Leases)
                 /\ Around(c, tl.pc + 1, Limited) = Around(c, tl.pc, Limited)
<1> DEFINE c == prog[tl.code]
<1>1. Built(c) /\ tl.pc \in DOMAIN c /\ c[tl.pc].op = op /\ op \in Begins BY BeginsHere
<1>2. /\ op \in {"loop", "while", "tick"} <=> op \in Limited
      /\ op = "lease" <=> op \in Leases
  BY DEF Limited, Leases
<1>3. \A ops : IF c[tl.pc].op \in ops THEN Gains(Around(c, tl.pc + 1, ops), Around(c, tl.pc, ops), tl.pc)
               ELSE Around(c, tl.pc + 1, ops) = Around(c, tl.pc, ops)
  <2> HIDE DEF c
  <2> QED BY <1>1, BeginSame
<1>4. op = "isolate" => op \notin Limited /\ op \notin Leases BY DEF Limited, Leases
<1>5. op \in {"loop", "while", "tick"} => op \notin Leases BY DEF Leases
<1>6. op = "lease" => op \notin Limited BY DEF Limited
<1> HIDE DEF c
<1> QED BY <1>1, <1>2, <1>3, <1>4, <1>5, <1>6 DEF c

(* An isolate begins.                                                      *)
LEMMA IsolateOnTime ==
  ASSUME Timely, status' = "running", Isolate
  PROVE  Punctual(prog, tl')
<1> DEFINE c == prog[tl.code]
<1>1. /\ Executes("isolate")
      /\ \E u : /\ DOMAIN u = Fields /\ u.manifests = Fetched.manifests + 1
                /\ \A f \in Fields \ {"manifests", "uses", "budget", "slice"} : u[f] = Fetched[f]
                /\ tl' = Enter(u, u.budget)
  BY IsolateIs DEF Timely, Ran
<1>2. PICK u : /\ DOMAIN u = Fields
               /\ \A f \in Fields \ {"manifests", "uses", "budget", "slice"} : u[f] = Fetched[f]
               /\ tl' = Enter(u, u.budget)
  BY <1>1
<1> DEFINE ms == u.budget
           v == [clock |-> u.clock, ms |-> ms, unpaid |-> u.unpaid]
<1>3. DOMAIN Fetched = Fields /\ Goes(tl, Fetched) /\ Fetched.regs = tl.regs /\ Fetched.pc = tl.pc + 1
  BY <1>1, NowIs
<1>4. /\ DOMAIN u = Fields /\ u.code = tl.code /\ u.calls = tl.calls /\ u.anchors = tl.anchors
      /\ u.loops = tl.loops /\ u.flat = tl.flat /\ u.entered = tl.entered /\ u.regs = tl.regs
      /\ u.pc = tl.pc + 1 /\ u.clock \in Nat /\ tl.clock <= u.clock
  BY <1>2, <1>3 DEF Fields, Goes
<1>5. tl' = Enter(u, ms) BY <1>2
<1> HIDE DEF ms
<1>6. /\ (tl').code = tl.code /\ (tl').calls = tl.calls /\ (tl').anchors = tl.anchors
      /\ (tl').loops = tl.loops /\ (tl').flat = tl.flat /\ (tl').regs = tl.regs
      /\ (tl').pc = tl.pc + 1 /\ (tl').clock \in Nat /\ tl.clock <= (tl').clock
      /\ Writes((tl').entered, tl.entered, <<tl.code, tl.pc>>, v)
  BY <1>4, <1>5, EnterIs
<1> HIDE DEF v, c
<1>7. /\ LoopsTied((tl').entered, tl.code, Around(c, tl.pc, Limited), tl.loops)
      /\ LeaseTied((tl').entered, tl.code, Around(c, tl.pc, Leases), tl.regs.lease)
      /\ FlatTied((tl').entered, prog, tl.code, tl.flat)
  BY <1>1, <1>6, EnteredTied DEF c
<1>8. /\ Around(c, tl.pc + 1, Leases) = Around(c, tl.pc, Leases)
      /\ Around(c, tl.pc + 1, Limited) = Around(c, tl.pc, Limited)
  BY <1>1, BeginsQuiet DEF c
<1>9. Passed(tl.loops, (tl').clock)
  <2>1. Passed(tl.loops, tl.clock) /\ tl.clock \in Nat
    BY DEF Timely, Punctual, OnTimeHere, OnTime, Passed
  <2> QED BY <1>6, <2>1, LaterOn
<1>10. OnTimeHere(prog, tl') BY <1>6, <1>7, <1>8, <1>9 DEF OnTimeHere, OnTime, c
<1> QED BY <1>6, <1>10, Rests DEF Timely

(* A loop, a while or a tick begins.                                       *)
LEMMA LoopOnTime ==
  ASSUME Timely, status' = "running", Loop
  PROVE  Punctual(prog, tl')
<1> DEFINE c == prog[tl.code]
<1>1. \E op \in {"loop", "while", "tick"} :
        /\ Executes(op)
        /\ \E ms : tl' = Enter([Fetched EXCEPT !.depth = @ + 1,
                          !.loops = Append(@, [start |-> Fetched.clock, limit |-> ms])], ms)
  <2>1. CASE /\ \E op \in {"loop", "while"} : Executes(op)
             /\ Only(Ok(Enter([Fetched EXCEPT !.depth = @ + 1,
                  !.loops = Append(@, [start |-> Fetched.clock, limit |-> Instr.ms])], Instr.ms)))
    <3>1. \E ms : tl' = Enter([Fetched EXCEPT !.depth = @ + 1,
                          !.loops = Append(@, [start |-> Fetched.clock, limit |-> ms])], ms)
      BY <2>1 DEF Only, Becomes, Ok
    <3> QED BY <2>1, <3>1
  <2>2. CASE /\ Executes("tick")
             /\ IF tl.slice = None THEN Only(Error(Fetched, "TickLoopWithoutSlice"))
                ELSE Only(Ok(Enter([Fetched EXCEPT !.depth = @ + 1,
                       !.loops = Append(@, [start |-> Fetched.clock, limit |-> tl.slice])], tl.slice)))
    <3>1. \E ms : tl' = Enter([Fetched EXCEPT !.depth = @ + 1,
                          !.loops = Append(@, [start |-> Fetched.clock, limit |-> ms])], ms)
      BY <2>2 DEF Only, Becomes, Ok, Error
    <3> QED BY <2>2, <3>1
  <2> QED BY <2>1, <2>2 DEF Loop
<1>2. PICK op \in {"loop", "while", "tick"} :
        /\ Executes(op)
        /\ \E ms : tl' = Enter([Fetched EXCEPT !.depth = @ + 1,
                          !.loops = Append(@, [start |-> Fetched.clock, limit |-> ms])], ms)
  BY <1>1
<1>3. PICK ms : tl' = Enter([Fetched EXCEPT !.depth = @ + 1,
                       !.loops = Append(@, [start |-> Fetched.clock, limit |-> ms])], ms)
  BY <1>2
<1> DEFINE l == [start |-> Fetched.clock, limit |-> ms]
           u == [Fetched EXCEPT !.depth = @ + 1, !.loops = Append(@, l)]
           v == [clock |-> u.clock, ms |-> ms, unpaid |-> u.unpaid]
           longer == Append(tl.loops, l)
<1>4. DOMAIN Fetched = Fields /\ Goes(tl, Fetched) /\ Fetched.regs = tl.regs /\ Fetched.pc = tl.pc + 1
      /\ tl.loops \in Seq(Loops)
  BY <1>2, NowIs
<1>5. /\ DOMAIN u = Fields /\ u.code = tl.code /\ u.calls = tl.calls /\ u.anchors = tl.anchors
      /\ u.loops = longer /\ u.flat = tl.flat /\ u.entered = tl.entered /\ u.regs = tl.regs
      /\ u.pc = tl.pc + 1 /\ u.clock \in Nat /\ tl.clock <= u.clock /\ u.clock = Fetched.clock
  BY <1>4 DEF Fields, Goes
<1>6. tl' = Enter(u, ms) BY <1>3
<1> HIDE DEF u
<1>7. v.clock = l.start /\ v.ms = l.limit /\ l.start = u.clock BY <1>5
<1> HIDE DEF l
<1>8. /\ (tl').code = tl.code /\ (tl').calls = tl.calls /\ (tl').anchors = tl.anchors
      /\ (tl').loops = longer /\ (tl').flat = tl.flat /\ (tl').regs = tl.regs
      /\ (tl').pc = tl.pc + 1 /\ (tl').clock \in Nat /\ tl.clock <= (tl').clock /\ (tl').clock = u.clock
      /\ Writes((tl').entered, tl.entered, <<tl.code, tl.pc>>, v)
  BY <1>5, <1>6, EnterIs
<1> HIDE DEF v, c
<1>9. /\ LeaseTied((tl').entered, tl.code, Around(c, tl.pc, Leases), tl.regs.lease)
      /\ FlatTied((tl').entered, prog, tl.code, tl.flat)
  BY <1>2, <1>8, EnteredTied DEF c
<1>10. /\ Around(c, tl.pc + 1, Leases) = Around(c, tl.pc, Leases)
       /\ Gains(Around(c, tl.pc + 1, Limited), Around(c, tl.pc, Limited), tl.pc)
  BY <1>2, BeginsQuiet DEF c
<1>11. Passed(longer, (tl').clock)
  <2>1. Passed(tl.loops, tl.clock) /\ tl.clock \in Nat
    BY DEF Timely, Punctual, OnTimeHere, OnTime, Passed
  <2>2. Passed(tl.loops, (tl').clock) BY <1>8, <2>1, LaterOn
  <2>3. \A i \in DOMAIN longer : longer[i] = l \/ (i \in DOMAIN tl.loops /\ longer[i] = tl.loops[i])
    <3>1. IsSeq(tl.loops) BY <1>4 DEF IsSeq
    <3> QED BY <3>1, AppendIs
  <2>4. l.start \in Int /\ l.start <= (tl').clock BY <1>7, <1>8, SMT
  <2> HIDE DEF longer
  <2> QED BY <1>8, <2>2, <2>3, <2>4 DEF Passed
<1>12. LoopsTied((tl').entered, tl.code, Around(c, tl.pc + 1, Limited), longer)
  <2>1. Fine(prog, tl, speculation_stack) /\ Later(tl.pc, Around(c, tl.pc, Limited))
    BY <1>2, BeginsHere DEF c
  <2>2. Counted(Len(tl.loops), Around(c, tl.pc, Limited)) BY <2>1, FineIs DEF c
  <2>3. LoopsTied(tl.entered, tl.code, Around(c, tl.pc, Limited), tl.loops)
    BY DEF Timely, Punctual, OnTimeHere, OnTime, c
  <2> QED BY <1>4, <1>7, <1>8, <1>10, <2>1, <2>2, <2>3, LoopsPush
<1> HIDE DEF longer
<1>13. OnTimeHere(prog, tl')
  BY <1>8, <1>9, <1>10, <1>11, <1>12 DEF OnTimeHere, OnTime, c
<1> QED BY <1>8, <1>13, Rests DEF Timely

(* A lease begins where none holds.                                        *)
LEMMA LeaseOnTime ==
  ASSUME Timely, status' = "running", Lease
  PROVE  Punctual(prog, tl')
<1> DEFINE c == prog[tl.code]
           ms == Instr.ms
           due == Fetched.clock + ms
           u == [Fetched EXCEPT !.regs.lease = due]
           v == [clock |-> u.clock, ms |-> ms, unpaid |-> u.unpaid]
           leased == Enter(u, ms)
           out == Ok(leased)
<1>1. /\ Executes("lease") /\ tl.regs.lease = None
      /\ \E w \in Written(out, 2) : w.err = "running" /\ tl' = w.t
  BY DEF Lease, Only, Becomes, Error
<1>2. /\ DOMAIN Fetched = Fields /\ Goes(tl, Fetched) /\ Fetched.regs = tl.regs /\ Fetched.pc = tl.pc + 1
      /\ tl.regs \in Registers /\ Fetched.clock \in Nat /\ WellFormed(prog, Instr) /\ Instr.op = "lease"
  BY <1>1, NowIs
<1>3. ms \in Nat BY <1>2 DEF WellFormed
<1>4. /\ DOMAIN u = Fields /\ u.code = tl.code /\ u.calls = tl.calls /\ u.anchors = tl.anchors
      /\ u.loops = tl.loops /\ u.flat = tl.flat /\ u.entered = tl.entered /\ u.regs.lease = due
      /\ u.pc = tl.pc + 1 /\ u.clock \in Nat /\ tl.clock <= u.clock /\ u.clock = Fetched.clock
  <2>1. DOMAIN Fetched.regs = {"more", "promise", "lease"} BY <1>2 DEF Registers
  <2> HIDE DEF due
  <2> QED BY <1>2, <2>1 DEF Fields, Goes
<1>5. v.clock = Fetched.clock /\ v.ms = ms BY <1>4
<1>13. out.t = leased BY DEF Ok
<1> HIDE DEF u, due, out
<1>14. leased = Enter(u, ms)
  OBVIOUS
<1> HIDE DEF leased
<1>15. /\ DOMAIN leased = Fields /\ leased.code = tl.code /\ leased.calls = tl.calls
       /\ leased.anchors = tl.anchors /\ leased.loops = tl.loops /\ leased.flat = tl.flat
       /\ leased.regs.lease = due /\ leased.pc = tl.pc + 1 /\ leased.clock \in Nat
       /\ tl.clock <= leased.clock /\ Writes(leased.entered, tl.entered, <<tl.code, tl.pc>>, v)
  BY <1>4, <1>14, EnterIs
<1>16. Goes(leased, tl') /\ (tl').pc = leased.pc BY <1>1, <1>13, <1>15, GoesWritten
<1>17. tl.clock \in Nat /\ (tl').clock \in Nat /\ leased.clock <= (tl').clock
  BY <1>1, <1>16, NowIs DEF Goes
<1>18. tl.clock <= (tl').clock BY <1>15, <1>17, SMT
<1>6. /\ (tl').code = tl.code /\ (tl').calls = tl.calls /\ (tl').anchors = tl.anchors
      /\ (tl').loops = tl.loops /\ (tl').flat = tl.flat /\ (tl').regs.lease = due
      /\ (tl').pc = tl.pc + 1 /\ (tl').clock \in Nat /\ tl.clock <= (tl').clock
      /\ Writes((tl').entered, tl.entered, <<tl.code, tl.pc>>, v)
  BY <1>15, <1>16, <1>17, <1>18 DEF Goes
<1> HIDE DEF v, c, ms
<1>7. /\ LoopsTied((tl').entered, tl.code, Around(c, tl.pc, Limited), tl.loops)
      /\ FlatTied((tl').entered, prog, tl.code, tl.flat)
  BY <1>1, <1>6, EnteredTied DEF c
<1>8. /\ Gains(Around(c, tl.pc + 1, Leases), Around(c, tl.pc, Leases), tl.pc)
      /\ Around(c, tl.pc + 1, Limited) = Around(c, tl.pc, Limited)
  BY <1>1, BeginsQuiet DEF c
<1>9. Passed(tl.loops, (tl').clock)
  <2>1. Passed(tl.loops, tl.clock) /\ tl.clock \in Nat
    BY DEF Timely, Punctual, OnTimeHere, OnTime, Passed
  <2> QED BY <1>6, <2>1, LaterOn
<1>10. Around(c, tl.pc, Leases) = {}
  <2>1. LeaseTied(tl.entered, tl.code, Around(c, tl.pc, Leases), tl.regs.lease)
    BY DEF Timely, Punctual, OnTimeHere, OnTime, c
  <2>2. ASSUME NEW h \in Around(c, tl.pc, Leases) PROVE FALSE
    <3> DEFINE b == tl.entered[<<tl.code, h>>]
    <3>1. b.clock \in Nat /\ b.ms \in Nat /\ tl.regs.lease = b.clock + b.ms
      BY <2>1, <2>2 DEF LeaseTied
    <3> HIDE DEF b
    <3>2. tl.regs.lease \in Nat BY <3>1, SMT
    <3> QED BY <1>1, <3>2, SMT DEF None
  <2> QED BY <2>2
<1>11. LeaseTied((tl').entered, tl.code, Around(c, tl.pc + 1, Leases), due)
  <2>1. Around(c, tl.pc + 1, Leases) = {tl.pc} BY <1>8, <1>10 DEF Gains
  <2>2. <<tl.code, tl.pc>> \in DOMAIN (tl').entered /\ (tl').entered[<<tl.code, tl.pc>>] = v
    BY <1>6 DEF Writes
  <2> QED BY <1>2, <1>3, <1>5, <2>1, <2>2 DEF LeaseTied, due
<1>12. OnTimeHere(prog, tl') BY <1>6, <1>7, <1>8, <1>9, <1>11 DEF OnTimeHere, OnTime, c
<1> QED BY <1>6, <1>12, Rests DEF Timely
-----------------------------------------------------------------------------
(* Blocks that end                                                         *)

(* A lease ends when it is due.                                            *)
LEMMA EndLeaseOnTime ==
  ASSUME Timely, status' = "running", EndLease
  PROVE  Punctual(prog, tl') /\ Instr.op = "endLease" /\ Kept(Instr.head)
<1> DEFINE c == prog[tl.code]
           g == c[tl.pc].head
           due == tl.regs.lease
           ms == due - Fetched.clock
           s == Paid(Fetched, ms).t
           b == tl.entered[<<tl.code, g>>]
           F(t) == [t EXCEPT !.regs.lease = None]
           ended == Then(Paid(Fetched, ms), F)
           e == ended.t
<1>1. /\ Executes("endLease") /\ due # None /\ ~(Fetched.clock > due)
      /\ \E w \in Written(ended, 1) : w.err = "running" /\ tl' = w.t
  BY DEF EndLease, Only, Becomes, Error
<1>22. ended.err = "running"
  <2> HIDE DEF ended
  <2> QED BY <1>1 DEF Written
<1>23. Paid(Fetched, ms).err = "running" /\ e = [s EXCEPT !.regs.lease = None]
  BY <1>22 DEF Then, Ok
<1>2. /\ DOMAIN Fetched = Fields /\ Goes(tl, Fetched) /\ Fetched.regs = tl.regs /\ Fetched.pc = tl.pc + 1
      /\ tl.regs \in Registers /\ Fetched.clock \in Nat /\ Instr.op = "endLease" /\ Instr = c[tl.pc]
      /\ Built(c) /\ tl.pc \in DOMAIN c /\ c[tl.pc].op = "endLease" /\ tl.clock \in Nat
      /\ Code(tl) = c /\ Fetched.unpaid = tl.unpaid /\ tl.unpaid \in Nat
  BY <1>1, NowIs
<1>3. due \in Int BY <1>2 DEF Registers
<1>4. ms \in Nat
  <2> HIDE DEF due
  <2> QED BY <1>1, <1>2, <1>3, SMT
<1> HIDE DEF ms
<1>5. /\ Goes(Fetched, s) /\ s.clock = Fetched.clock + ms /\ DOMAIN s = Fields /\ s.pc = Fetched.pc
      /\ s.regs = Fetched.regs /\ s.unpaid = tl.unpaid
  BY <1>23, <1>2, <1>4, GoesPaid
<1> HIDE DEF s
<1>6. Goes(tl, s) BY <1>2, <1>5, GoesTwice
<1>7. s.clock = due
  <2> HIDE DEF due
  <2> QED BY <1>2, <1>3, <1>5, SMT DEF ms
<1>8. DOMAIN s.regs = {"more", "promise", "lease"} BY <1>2, <1>5 DEF Registers
<1> HIDE DEF due, e
<1>24. /\ DOMAIN e = Fields /\ e.code = tl.code /\ e.calls = tl.calls /\ e.anchors = tl.anchors
       /\ e.loops = tl.loops /\ e.flat = tl.flat /\ e.entered = tl.entered
       /\ e.pc = tl.pc + 1 /\ e.clock \in Nat /\ tl.clock <= e.clock /\ e.clock = due
       /\ e.regs.lease = None /\ e.unpaid = tl.unpaid
  BY <1>23, <1>2, <1>5, <1>6, <1>7, <1>8 DEF Fields, Goes
<1>25. ended.t = e BY DEF e
<1> HIDE DEF ended
<1>26. /\ Goes(e, tl') /\ (tl').pc = e.pc
       /\ \E d \in Nat : (tl').clock = e.clock + d /\ (tl').unpaid = e.unpaid + d
  BY <1>1, <1>24, <1>25, GoesWritten
<1>27. (tl').clock \in Nat /\ tl.clock <= (tl').clock
  <2>1. (tl').clock \in Nat /\ e.clock <= (tl').clock BY <1>26 DEF Goes
  <2> QED BY <1>2, <1>24, <2>1, SMT
<1>28. PICK d \in Nat : (tl').clock = due + d /\ (tl').unpaid = tl.unpaid + d
  BY <1>24, <1>26
<1>9. /\ (tl').code = tl.code /\ (tl').calls = tl.calls /\ (tl').anchors = tl.anchors
      /\ (tl').loops = tl.loops /\ (tl').flat = tl.flat /\ (tl').entered = tl.entered
      /\ (tl').pc = tl.pc + 1 /\ (tl').clock \in Nat /\ tl.clock <= (tl').clock
      /\ (tl').regs.lease = None
  BY <1>24, <1>26, <1>27 DEF Goes
<1>10. c[g].op = "lease"
  <2>1. "endLease" \in EndOps BY OpsAre
  <2>2. <<c[g].op, c[tl.pc].op>> \in BeginEnd BY <1>2, <2>1, EndSame
  <2> QED BY <1>2, <2>2, OpsAre
<1>11. /\ Loses(Around(c, tl.pc + 1, Leases), Around(c, tl.pc, Leases), g)
       /\ Around(c, tl.pc + 1, Limited) = Around(c, tl.pc, Limited)
  <2>1. "endLease" \in EndOps BY OpsAre
  <2>2. c[g].op \in Leases /\ c[g].op \notin Limited BY <1>10 DEF Leases, Limited
  <2>3. \A ops : IF c[g].op \in ops
                 THEN /\ Loses(Around(c, tl.pc + 1, ops), Around(c, tl.pc, ops), g)
                      /\ Highest(g, Around(c, tl.pc, ops))
                 ELSE Around(c, tl.pc + 1, ops) = Around(c, tl.pc, ops)
    <3> HIDE DEF c
    <3> QED BY <1>2, <2>1, EndSame
  <2> QED BY <2>2, <2>3
<1> HIDE DEF g, b, c
<1>12. /\ LoopsTied(tl.entered, tl.code, Around(c, tl.pc, Limited), tl.loops)
       /\ LeaseTied(tl.entered, tl.code, Around(c, tl.pc, Leases), due)
       /\ FlatTied(tl.entered, prog, tl.code, tl.flat)
       /\ Passed(tl.loops, tl.clock)
  BY DEF Timely, Punctual, OnTimeHere, OnTime, c, due
<1>13. g \in Around(c, tl.pc, Leases) BY <1>11 DEF Loses
<1>14. Around(c, tl.pc + 1, Leases) = {}
  <2>1. Around(c, tl.pc, Leases) = {g} BY <1>12, <1>13 DEF LeaseTied
  <2> QED BY <1>11, <2>1 DEF Loses
<1>15. LeaseTied(tl.entered, tl.code, {}, None) BY DEF LeaseTied
<1>16. Passed(tl.loops, (tl').clock) BY <1>2, <1>9, <1>12, LaterOn
<1>17. OnTimeHere(prog, tl')
  BY <1>9, <1>11, <1>12, <1>14, <1>15, <1>16 DEF OnTimeHere, OnTime, c
<1>18. Punctual(prog, tl') BY <1>9, <1>17, Rests DEF Timely
<1>19. b.clock \in Nat /\ b.ms \in Nat /\ due = b.clock + b.ms
  BY <1>12, <1>13 DEF LeaseTied, b
<1>20. (tl').clock - b.clock - ((tl').unpaid - tl.unpaid) = b.ms
  <2> HIDE DEF b
  <2> QED BY <1>2, <1>19, <1>28, SMT
<1>21. Kept(g) BY <1>2, <1>10, <1>20 DEF Kept, b
<1> QED BY <1>2, <1>18, <1>21 DEF g

(* A loop that is left has taken what it was given.                        *)
LEMMA LoopLeftTime ==
  ASSUME NEW s, DOMAIN s = Fields, s.loops \in Seq(Loops), Passed(s.loops, s.clock),
         NEW kind, NEW o \in LoopLeft(s, kind), o.err = "running"
  PROVE  LET limit == Last(s.loops).limit
             took == o.t.clock - Last(s.loops).start
         IN /\ s.loops # <<>> /\ DOMAIN o.t = Fields /\ o.t.loops = Front(s.loops)
            /\ o.t.calls = s.calls /\ o.t.code = s.code /\ o.t.anchors = s.anchors
            /\ o.t.flat = s.flat /\ o.t.pc = s.pc /\ o.t.entered = s.entered /\ o.t.regs = s.regs
            /\ o.t.unpaid = s.unpaid /\ o.t.clock \in Nat /\ s.clock <= o.t.clock
            /\ limit = Unbounded \/ took >= limit
            /\ kind = "endTick" => limit = Unbounded \/ took = limit
<1> DEFINE u == [s EXCEPT !.loops = Front(@)]
           limit == Last(s.loops).limit
           start == Last(s.loops).start
           elapsed == s.clock - start
           ms == limit - elapsed
           took == o.t.clock - start
<1>1. /\ s.loops # <<>> /\ DOMAIN o.t = Fields /\ o.t.loops = Front(s.loops)
      /\ o.t.calls = s.calls /\ o.t.code = s.code /\ o.t.anchors = s.anchors
      /\ o.t.flat = s.flat /\ o.t.pc = s.pc
  BY LoopLeftIs
<1>2. s.clock \in Nat /\ start \in Int /\ start <= s.clock /\ limit \in Int
  <2>1. Last(s.loops) \in Loops /\ Len(s.loops) \in DOMAIN s.loops /\ Last(s.loops) = s.loops[Len(s.loops)]
    BY <1>1, FrontType
  <2> QED BY <2>1 DEF Passed, Loops
<1> HIDE DEF limit, start
<1>3. elapsed \in Nat BY <1>2, SMT
<1>4. \/ elapsed < limit /\ limit # Unbounded /\ o = Then(Paid(u, ms), Shallower)
      \/ /\ ~(elapsed < limit /\ limit # Unbounded) /\ ~(elapsed > limit /\ kind = "endTick")
         /\ o = Ok(Shallower(u))
  <2> DEFINE A == {Error(u, "panic"),
                   IF kind = "endTick" THEN Error(u, "WatchdogBite") ELSE Ok(Shallower(u))}
             B == {Then(Paid(u, ms), Shallower)}
             C == {Error(u, "WatchdogBite")}
             D == {Ok(Shallower(u))}
  <2>1. LoopLeft(s, kind) =
          CASE elapsed < 0 -> A
            [] elapsed >= 0 /\ elapsed < limit /\ limit # Unbounded -> B
            [] elapsed > limit /\ kind = "endTick" -> C
            [] OTHER -> D
    BY <1>1 DEF LoopLeft, limit, start
  <2>2. ~(elapsed < 0) /\ elapsed >= 0 /\ ~(elapsed < limit /\ elapsed > limit)
    <3> HIDE DEF elapsed
    <3> QED BY <1>2, <1>3, SMT
  <2>3. o \notin C BY DEF Error
  <2> HIDE DEF A, B, C, D, elapsed, u, ms
  <2>4. CASE elapsed < limit /\ limit # Unbounded
    <3>1. LoopLeft(s, kind) = B BY <2>1, <2>2, <2>4
    <3> QED BY <2>4, <3>1 DEF B
  <2>5. CASE ~(elapsed < limit /\ limit # Unbounded) /\ elapsed > limit /\ kind = "endTick"
    <3>1. LoopLeft(s, kind) = C BY <2>1, <2>2, <2>5
    <3> QED BY <2>3, <3>1
  <2>6. CASE ~(elapsed < limit /\ limit # Unbounded) /\ ~(elapsed > limit /\ kind = "endTick")
    <3>1. LoopLeft(s, kind) = D BY <2>1, <2>2, <2>6
    <3> QED BY <2>6, <3>1 DEF D
  <2> QED BY <2>4, <2>5, <2>6
<1>5. /\ DOMAIN u = Fields /\ u.entered = s.entered /\ u.regs = s.regs /\ u.clock = s.clock
      /\ u.unpaid = s.unpaid
  BY DEF Fields
<1>6. \A t : DOMAIN t = Fields => /\ Shallower(t).entered = t.entered /\ Shallower(t).regs = t.regs
                                  /\ Shallower(t).clock = t.clock /\ Shallower(t).unpaid = t.unpaid
  BY DEF Shallower, Fields
<1> HIDE DEF u
<1>7. CASE elapsed < limit /\ limit # Unbounded /\ o = Then(Paid(u, ms), Shallower)
  <2> DEFINE v == Paid(u, ms).t
  <2>1. Paid(u, ms).err = "running" /\ o.t = Shallower(v) BY <1>7 DEF Then, Ok
  <2>2. ms \in Nat
    <3> HIDE DEF elapsed
    <3> QED BY <1>2, <1>3, <1>7, SMT
  <2> HIDE DEF ms
  <2>3. /\ Goes(u, v) /\ v.clock = u.clock + ms /\ DOMAIN v = Fields /\ v.regs = u.regs
        /\ v.unpaid = u.unpaid
    BY <1>2, <1>5, <2>1, <2>2, GoesPaid
  <2> HIDE DEF v
  <2>4. /\ o.t.entered = s.entered /\ o.t.regs = s.regs /\ o.t.clock = s.clock + ms
        /\ o.t.unpaid = s.unpaid
    BY <1>5, <1>6, <2>1, <2>3 DEF Goes
  <2>5. o.t.clock \in Nat /\ s.clock <= o.t.clock /\ took = limit
    BY <1>2, <2>2, <2>4, SMT DEF ms
  <2>6. took >= limit BY <1>2, <2>5, SMT
  <2> QED BY <1>1, <2>4, <2>5, <2>6 DEF limit, start
<1>8. CASE /\ ~(elapsed < limit /\ limit # Unbounded) /\ ~(elapsed > limit /\ kind = "endTick")
           /\ o = Ok(Shallower(u))
  <2>1. /\ o.t.entered = s.entered /\ o.t.regs = s.regs /\ o.t.clock = s.clock
        /\ o.t.unpaid = s.unpaid
    BY <1>5, <1>6, <1>8 DEF Ok
  <2>2. took = elapsed /\ s.clock <= s.clock BY <1>2, <2>1, SMT
  <2>3. limit = Unbounded \/ elapsed >= limit BY <1>2, <1>3, <1>8, SMT
  <2>4. kind = "endTick" => limit = Unbounded \/ elapsed = limit
    BY <1>2, <1>3, <1>8, SMT
  <2> HIDE DEF took, elapsed
  <2>5. /\ limit = Unbounded \/ took >= limit
        /\ kind = "endTick" => limit = Unbounded \/ took = limit
    BY <2>2, <2>3, <2>4
  <2> QED BY <1>1, <1>2, <2>1, <2>2, <2>5 DEF limit, start, took
<1> QED BY <1>4, <1>7, <1>8

(* Leaving the innermost loop of a place in the code.                      *)
LEMMA InnermostPops ==
  ASSUME NEW c, Built(c), NEW pc, NEW to, NEW g, Highest(g, Around(c, pc, Limited)),
         Loses(Around(c, to, Limited), Around(c, pc, Limited), g),
         NEW loops \in Seq(Loops), Counted(Len(loops), Around(c, pc, Limited)),
         NEW entered, NEW code, LoopsTied(entered, code, Around(c, pc, Limited), loops)
  PROVE  /\ LoopsTied(entered, code, Around(c, to, Limited), Front(loops))
         /\ entered[<<code, g>>].clock = Last(loops).start
         /\ entered[<<code, g>>].ms = Last(loops).limit
<1>1. Around(c, pc, Limited) \subseteq Int
  <2>1. Around(c, pc, Limited) \subseteq 1 .. Len(c) /\ DOMAIN c = 1 .. Len(c) /\ DOMAIN c \subseteq Int
    BY AroundIs, EndIs
  <2> QED BY <2>1
<1> QED BY <1>1, LoopsPop

(* A loop that ends, or is broken out of, was there for long enough, and   *)
(* the blocks outside keep theirs.                                         *)
LEMMA LoopEndsOnTime ==
  ASSUME Timely, NEW op, Executes(op), Fine(prog, tl, speculation_stack),
         NEW s, DOMAIN s = Fields, Goes(tl, s), s.unpaid = tl.unpaid,
         NEW kind, NEW o \in LoopLeft(s, kind), o.err = "running",
         NEW g, Highest(g, Around(prog[tl.code], tl.pc, Limited)),
         <<prog[tl.code][g].op, kind>> \in BeginEnd,
         NEW to, Loses(Around(prog[tl.code], to, Limited), Around(prog[tl.code], tl.pc, Limited), g),
         Around(prog[tl.code], to, Leases) = Around(prog[tl.code], tl.pc, Leases),
         Puts(o.t, tl', to)
  PROVE  Punctual(prog, tl') /\ Kept(g)
<1> DEFINE c == prog[tl.code]
           b == tl.entered[<<tl.code, g>>]
           l == Last(tl.loops)
<1>1. /\ Built(c) /\ tl.clock \in Nat /\ tl.loops \in Seq(Loops) /\ Code(tl) = c
      /\ tl.unpaid \in Nat
  BY NowIs
<1>2. /\ s.code = tl.code /\ s.calls = tl.calls /\ s.anchors = tl.anchors /\ s.loops = tl.loops
      /\ s.flat = tl.flat /\ s.entered = tl.entered /\ s.regs.lease = tl.regs.lease
      /\ s.clock \in Nat /\ tl.clock <= s.clock
  BY DEF Goes
<1>3. /\ LoopsTied(tl.entered, tl.code, Around(c, tl.pc, Limited), tl.loops)
      /\ LeaseTied(tl.entered, tl.code, Around(c, tl.pc, Leases), tl.regs.lease)
      /\ FlatTied(tl.entered, prog, tl.code, tl.flat)
      /\ Passed(tl.loops, tl.clock)
  BY DEF Timely, Punctual, OnTimeHere, OnTime
<1>4. Passed(s.loops, s.clock) /\ s.loops \in Seq(Loops) BY <1>1, <1>2, <1>3, LaterOn
<1>5. /\ s.loops # <<>> /\ DOMAIN o.t = Fields /\ o.t.loops = Front(s.loops)
      /\ o.t.calls = s.calls /\ o.t.code = s.code /\ o.t.anchors = s.anchors
      /\ o.t.flat = s.flat /\ o.t.entered = s.entered /\ o.t.regs = s.regs
      /\ o.t.unpaid = s.unpaid /\ o.t.clock \in Nat /\ s.clock <= o.t.clock
      /\ Last(s.loops).limit = Unbounded \/ o.t.clock - Last(s.loops).start >= Last(s.loops).limit
      /\ kind = "endTick" => \/ Last(s.loops).limit = Unbounded
                             \/ o.t.clock - Last(s.loops).start = Last(s.loops).limit
  BY <1>4, LoopLeftTime
<1>6. /\ (tl').calls = tl.calls /\ (tl').code = tl.code /\ (tl').anchors = tl.anchors
      /\ (tl').flat = tl.flat /\ (tl').entered = tl.entered /\ (tl').regs.lease = tl.regs.lease
      /\ (tl').loops = Front(tl.loops) /\ (tl').pc = to /\ (tl').clock = o.t.clock
      /\ (tl').unpaid = tl.unpaid
  BY <1>2, <1>5 DEF Puts
<1>7. (tl').clock \in Nat /\ tl.clock <= (tl').clock BY <1>1, <1>2, <1>5, <1>6, SMT
<1>8. /\ LoopsTied(tl.entered, tl.code, Around(c, to, Limited), Front(tl.loops))
      /\ b.clock = l.start /\ b.ms = l.limit
  <2>1. Counted(Len(tl.loops), Around(c, tl.pc, Limited)) BY FineIs
  <2>2. tl.loops \in Seq(Loops) /\ Built(c) BY <1>1
  <2>3. LoopsTied(tl.entered, tl.code, Around(c, tl.pc, Limited), tl.loops) BY <1>3
  <2> QED BY <2>1, <2>2, <2>3, InnermostPops
<1>9. Passed(Front(tl.loops), (tl').clock)
  <2>1. Passed(tl.loops, (tl').clock) BY <1>1, <1>3, <1>7, LaterOn
  <2>2. IsSeq(tl.loops) /\ tl.loops # <<>> BY <1>1, <1>2, <1>5 DEF IsSeq
  <2>3. \A i \in DOMAIN Front(tl.loops) : i \in DOMAIN tl.loops /\ Front(tl.loops)[i] = tl.loops[i]
    BY <2>2, FrontIs
  <2> QED BY <2>1, <2>3 DEF Passed
<1>10. OnTimeHere(prog, tl') BY <1>3, <1>6, <1>8, <1>9 DEF OnTimeHere, OnTime
<1>11. Punctual(prog, tl') BY <1>6, <1>7, <1>10, Rests DEF Timely
<1>12. /\ c[g].op = "tick" => kind = "endTick"
       /\ c[g].op # "lease"
  <2>1. g \in Around(c, tl.pc, Limited) BY DEF Highest
  <2>2. c[g].op \in Limited BY <1>1, <2>1, AroundIs
  <2> QED BY <2>2 DEF BeginEnd, Limited
<1> DEFINE took == (tl').clock - b.clock
           unpaid == (tl').unpaid - tl.unpaid
<1>15. took - unpaid = took
  <2>1. unpaid = 0 BY <1>1, <1>6, SMT
  <2>2. b.clock \in Int
    <3>1. l \in Loops BY <1>1, <1>2, <1>5, FrontType
    <3>2. l.start \in Int BY <3>1 DEF Loops
    <3> QED BY <1>8, <3>2
  <2> HIDE DEF unpaid, b
  <2> QED BY <1>7, <2>1, <2>2, SMT
<1>13. /\ b.ms = Unbounded \/ took >= b.ms
       /\ kind = "endTick" => b.ms = Unbounded \/ took = b.ms
  <2>1. /\ l.limit = Unbounded \/ o.t.clock - l.start >= l.limit
        /\ kind = "endTick" => l.limit = Unbounded \/ o.t.clock - l.start = l.limit
    BY <1>2, <1>5
  <2> HIDE DEF l, b, c
  <2> QED BY <1>6, <1>8, <2>1
<1>16. Kept(g) = CASE c[g].op = "lease" -> took - unpaid = b.ms
                   [] c[g].op = "tick" -> b.ms = Unbounded \/ took - unpaid = b.ms
                   [] c[g].op \in {"loop", "while"} -> b.ms = Unbounded \/ took - unpaid >= b.ms
                   [] OTHER -> TRUE
  BY <1>1 DEF Kept
<1>14. Kept(g)
  <2> HIDE DEF took, unpaid, b, c
  <2>1. CASE c[g].op = "tick" BY <1>12, <1>13, <1>15, <1>16, <2>1
  <2>2. CASE c[g].op \in {"loop", "while"} BY <1>13, <1>15, <1>16, <2>2
  <2>3. CASE c[g].op \notin {"loop", "while", "tick"} BY <1>12, <1>16, <2>3
  <2> QED BY <2>1, <2>2, <2>3
<1> QED BY <1>11, <1>14
-----------------------------------------------------------------------------
(* A loop, a while or a tick ends.                                         *)
LEMMA EndLoopOnTime ==
  ASSUME Timely, status' = "running", EndLoop
  PROVE  Punctual(prog, tl') /\ Instr.op \in {"endLoop", "endWhile", "endTick"} /\ Kept(Instr.head)
<1> DEFINE c == prog[tl.code]
           g == c[tl.pc].head
<1>1. PICK op \in {"endLoop", "endWhile", "endTick"} :
        Executes(op) /\ \E out \in LoopLeft(Fetched, op) : Only(out)
  BY DEF EndLoop
<1>2. PICK out \in LoopLeft(Fetched, op) : tl' = out.t /\ out.err = "running"
  BY <1>1 DEF Only, Becomes
<1>3. /\ DOMAIN Fetched = Fields /\ Goes(tl, Fetched) /\ Fetched.pc = tl.pc + 1
      /\ Built(c) /\ tl.pc \in DOMAIN c /\ c[tl.pc].op = op /\ Instr = c[tl.pc] /\ Instr.op = op
      /\ Fetched.unpaid = tl.unpaid
  BY <1>1, NowIs
<1>4. op \in EndOps /\ Calm(op) BY KindsAre
<1>5. Fine(prog, tl, speculation_stack) BY <1>3, <1>4, CalmFine DEF Timely, Ran
<1>6. <<c[g].op, op>> \in BeginEnd
  <2>1. Built(c) /\ tl.pc \in DOMAIN c /\ c[tl.pc].op \in EndOps BY <1>3, <1>4
  <2> HIDE DEF c
  <2> QED BY <1>3, <2>1, EndSame
<1>7. c[g].op \in Limited /\ c[g].op \notin Leases
  <2>1. c[g].op \in Limited BY <1>6, OpsAre
  <2> QED BY <2>1 DEF Limited, Leases
<1>8. /\ Loses(Around(c, tl.pc + 1, Limited), Around(c, tl.pc, Limited), g)
      /\ Highest(g, Around(c, tl.pc, Limited))
      /\ Around(c, tl.pc + 1, Leases) = Around(c, tl.pc, Leases)
  <2>1. \A ops : IF c[g].op \in ops
                 THEN /\ Loses(Around(c, tl.pc + 1, ops), Around(c, tl.pc, ops), g)
                      /\ Highest(g, Around(c, tl.pc, ops))
                 ELSE Around(c, tl.pc + 1, ops) = Around(c, tl.pc, ops)
    <3>1. Built(c) /\ tl.pc \in DOMAIN c /\ c[tl.pc].op \in EndOps BY <1>3, <1>4
    <3> HIDE DEF c
    <3> QED BY <3>1, EndSame
  <2> QED BY <1>7, <2>1
<1>10. Puts(out.t, tl', tl.pc + 1)
  <2>1. out.t.pc = tl.pc + 1 BY <1>2, <1>3, LoopLeftIs
  <2> QED BY <1>2, <2>1 DEF Puts
<1>11. Punctual(prog, tl') /\ Kept(g)
  BY <1>1, <1>2, <1>3, <1>5, <1>6, <1>8, <1>10, LoopEndsOnTime
<1> QED BY <1>3, <1>11

(* The innermost is the one nothing around is further in than.             *)
LEMMA InnermostIs ==
  ASSUME NEW S, S \subseteq Int, NEW h, Highest(h, S)
  PROVE  Innermost(S) = h
<1>1. h \in S /\ \A k \in S : k <= h BY DEF Highest
<1>2. \A g \in S : (\A k \in S : k <= g) => g = h BY <1>1, SMT
<1> QED BY <1>1, <1>2 DEF Innermost

(* A break leaves a loop the same way.                                     *)
LEMMA BreakOnTime ==
  ASSUME Timely, status' = "running", astray' = {}, Break
  PROVE  Punctual(prog, tl') /\ Kept(Innermost(Around(Code(tl), tl.pc, Opens)))
<1> DEFINE c == prog[tl.code]
<1>1. Executes("break") /\ Ran BY DEF Break, Timely
<1>2. /\ DOMAIN Fetched = Fields /\ Goes(tl, Fetched) /\ Fetched.clock \in Nat
      /\ Built(c) /\ tl.pc \in DOMAIN c /\ c[tl.pc].op = "break" /\ Code(tl) = c
      /\ tl.flat \in Seq(Iterations) /\ tl.clock \in Nat /\ Fetched.unpaid = tl.unpaid
  BY <1>1, NowIs
<1>3. Fine(prog, tl, speculation_stack) BY <1>1, <1>2, CalmFine, PlainOps DEF Ran
<1>4. PICK h, e :
        /\ Left(c, tl.pc, h, e)
        /\ \A k \in Around(c, tl.pc, Speculates) : k <= h
        /\ \A k \in Around(c, tl.pc, Isolates) : k <= h
        /\ \A k \in Around(c, tl.pc, Leases) : k <= h
        /\ \/ /\ c[e].op = "endFor"
              /\ tl' = [[Fetched EXCEPT !.depth = Monus(Fetched.depth, 1),
                           !.flat = IF @ = <<>> THEN @ ELSE Front(@)] EXCEPT !.pc = After(c, e)]
           \/ /\ c[e].op # "endFor"
              /\ \E n : \E l \in LoopLeft([Fetched EXCEPT !.depth = n], c[e].op) :
                   l.err = "running" /\ tl' = [l.t EXCEPT !.pc = After(c, e)]
  BY <1>1, BreakIs
<1> DEFINE to == After(c, e)
<1>5. /\ e \in Ends(c) /\ c[e].op \in Closes /\ c[h].op \in Opens /\ c[e].head = h
      /\ Highest(h, Around(c, tl.pc, Opens))
  BY <1>4 DEF Left
<1>6. <<c[h].op, c[e].op>> \in BeginEnd BY <1>2, <1>5, EndIs
<1>7. Innermost(Around(Code(tl), tl.pc, Opens)) = h
  <2>1. Around(c, tl.pc, Opens) \subseteq 1 .. Len(c) /\ DOMAIN c = 1 .. Len(c) /\ DOMAIN c \subseteq Int
    BY <1>2, AroundIs, EndIs
  <2>2. Around(c, tl.pc, Opens) \subseteq Int BY <2>1
  <2> QED BY <1>2, <1>5, <2>2, InnermostIs
<1>8. /\ IF c[h].op \in Limited THEN Loses(Around(c, to, Limited), Around(c, tl.pc, Limited), h)
         ELSE Around(c, to, Limited) = Around(c, tl.pc, Limited)
      /\ Around(c, to, Leases) = Around(c, tl.pc, Leases)
  <2>1. Around(c, tl.pc, Limited) \subseteq Around(c, tl.pc, Opens)
    BY LoopOps DEF Around
  <2>2. \A k \in Around(c, tl.pc, Limited) : k <= h BY <1>5, <2>1 DEF Highest
  <2>3. c[h].op \notin Leases BY <1>5 DEF Opens, Leases
  <2>4. ASSUME NEW ops, \A k \in Around(c, tl.pc, ops) : k <= h
        PROVE  IF c[h].op \in ops THEN Loses(Around(c, to, ops), Around(c, tl.pc, ops), h)
               ELSE Around(c, to, ops) = Around(c, tl.pc, ops)
    BY <1>2, <1>4, <2>4, LeftSame
  <2> HIDE DEF to, c
  <2> QED BY <1>4, <2>2, <2>3, <2>4
<1> HIDE DEF to
<1>9. CASE /\ c[e].op = "endFor"
           /\ tl' = [[Fetched EXCEPT !.depth = Monus(Fetched.depth, 1),
                        !.flat = IF @ = <<>> THEN @ ELSE Front(@)] EXCEPT !.pc = to]
  <2>1. c[h].op = "for" BY <1>6, <1>9, OpsAre
  <2>2. c[h].op \notin Limited BY <2>1 DEF Limited
  <2> DEFINE rest == IF tl.flat = <<>> THEN tl.flat ELSE Front(tl.flat)
  <2>3. Fetched.flat = tl.flat BY <1>2 DEF Goes
  <2>4. /\ (tl').calls = tl.calls /\ (tl').code = tl.code /\ (tl').anchors = tl.anchors
        /\ (tl').loops = tl.loops /\ (tl').entered = tl.entered /\ (tl').pc = to
        /\ (tl').regs.lease = tl.regs.lease /\ (tl').clock \in Nat /\ tl.clock <= (tl').clock
        /\ (tl').flat = rest
    BY <1>2, <1>9, <2>3 DEF Fields, Goes
  <2>5. /\ LoopsTied(tl.entered, tl.code, Around(c, tl.pc, Limited), tl.loops)
        /\ LeaseTied(tl.entered, tl.code, Around(c, tl.pc, Leases), tl.regs.lease)
        /\ FlatTied(tl.entered, prog, tl.code, tl.flat)
        /\ Passed(tl.loops, tl.clock)
    BY DEF Timely, Punctual, OnTimeHere, OnTime
  <2>6. \A i \in DOMAIN rest : i \in DOMAIN tl.flat /\ rest[i] = tl.flat[i]
    <3>1. IsSeq(tl.flat) BY <1>2 DEF IsSeq
    <3>2. CASE tl.flat = <<>> BY <3>2
    <3>3. CASE tl.flat # <<>> BY <3>1, <3>3, FrontIs
    <3> QED BY <3>2, <3>3
  <2> HIDE DEF rest
  <2>7. FlatTied(tl.entered, prog, tl.code, rest) BY <2>5, <2>6 DEF FlatTied
  <2>8. Passed(tl.loops, (tl').clock) BY <1>2, <2>4, <2>5, LaterOn
  <2>9. OnTimeHere(prog, tl')
    BY <1>8, <2>2, <2>4, <2>5, <2>7, <2>8 DEF OnTimeHere, OnTime
  <2>10. Punctual(prog, tl') BY <2>4, <2>9, Rests DEF Timely
  <2>11. Kept(h) BY <1>2, <2>1 DEF Kept
  <2> QED BY <1>7, <2>10, <2>11
<1>10. CASE /\ c[e].op # "endFor"
            /\ \E n : \E l \in LoopLeft([Fetched EXCEPT !.depth = n], c[e].op) :
                 l.err = "running" /\ tl' = [l.t EXCEPT !.pc = to]
  <2>1. PICK n : \E l \in LoopLeft([Fetched EXCEPT !.depth = n], c[e].op) :
                          l.err = "running" /\ tl' = [l.t EXCEPT !.pc = to]
    BY <1>10
  <2>2. PICK l \in LoopLeft([Fetched EXCEPT !.depth = n], c[e].op) :
               l.err = "running" /\ tl' = [l.t EXCEPT !.pc = to]
    BY <2>1
  <2> DEFINE s == [Fetched EXCEPT !.depth = n]
             kind == c[e].op
  <2>3. DOMAIN s = Fields /\ Goes(tl, s) /\ s.unpaid = tl.unpaid
    BY <1>2 DEF Fields, Goes
  <2>4. l \in LoopLeft(s, kind) /\ l.err = "running" BY <2>2
  <2> HIDE DEF s
  <2>5. DOMAIN l.t = Fields BY <2>3, <2>4, LoopLeftIs
  <2>6. Puts(l.t, tl', to) BY <2>2, <2>5 DEF Puts, Fields
  <2>7. c[h].op # "for" BY <1>6, <1>10, OpsAre
  <2>8. c[h].op \in Limited BY <1>5, <2>7, LoopOps DEF Iterates
  <2>9. Loses(Around(c, to, Limited), Around(c, tl.pc, Limited), h) BY <1>8, <2>8
  <2>10. Highest(h, Around(c, tl.pc, Limited))
    <3>1. Around(c, tl.pc, Limited) \subseteq Around(c, tl.pc, Opens)
      BY LoopOps DEF Around
    <3> QED BY <1>5, <2>9, <3>1 DEF Highest, Loses
  <2> HIDE DEF kind
  <2>11. <<c[h].op, kind>> \in BeginEnd BY <1>6 DEF kind
  <2>12. Punctual(prog, tl') /\ Kept(h)
    BY <1>1, <1>3, <1>8, <2>3, <2>4, <2>6, <2>9, <2>10, <2>11, LoopEndsOnTime
  <2> QED BY <1>7, <2>12
<1> QED BY <1>4, <1>9, <1>10 DEF to
-----------------------------------------------------------------------------
(* The iterations of for loops                                             *)

(* The loop on top is this one, the others are those there were.           *)
LEMMA IteratingTime ==
  ASSUME Timely, Executes("for"), NEW n \in Int, NEW t, t = Iterating(n)
  PROVE  /\ DOMAIN t = Fields /\ t.code = tl.code /\ t.calls = tl.calls /\ t.anchors = tl.anchors
         /\ t.loops = tl.loops /\ t.entered = tl.entered /\ t.regs = tl.regs
         /\ t.clock = tl.clock + 1 /\ t.clock \in Nat /\ t.pc = tl.pc + 1
         /\ t.flat \in Seq(Iterations) /\ t.flat # <<>> /\ t.flat[Len(t.flat)].head = tl.pc
         /\ t.flat[Len(t.flat)].pace = prog[tl.code][tl.pc].pace /\ t.unpaid = tl.unpaid
         /\ \A i \in DOMAIN t.flat : i # Len(t.flat) =>
              i \in DOMAIN tl.flat /\ t.flat[i] = tl.flat[i] /\ t.flat[i].head # tl.pc
<1> DEFINE c == prog[tl.code]
           A == Around(c, tl.pc, Iterates)
           f == t.flat
           m == Len(f)
           h == f[m].head
<1>1. /\ tl.clock \in Nat /\ Goes(tl, Fetched) /\ Fetched.clock = tl.clock + 1 /\ Fetched.clock \in Nat
      /\ DOMAIN Fetched = Fields /\ Fetched.pc = tl.pc + 1 /\ Fetched.regs = tl.regs
      /\ tl.pc \in DOMAIN c /\ Built(c) /\ tl.flat \in Seq(Iterations) /\ Instr = c[tl.pc]
      /\ Fetched.unpaid = tl.unpaid
  BY NowIs
<1>2. Ran /\ Ready BY DEF Timely, Ran
<1>3. /\ Heads(f) = A \cup {tl.pc} /\ Ordered(f)
      /\ tl.pc \notin A /\ \A k \in A : k < tl.pc
      /\ DOMAIN t = Fields /\ t.calls = tl.calls /\ t.code = tl.code
      /\ t.anchors = tl.anchors /\ t.loops = tl.loops /\ t.pc = tl.pc + 1
  BY <1>2, IteratingHeads
<1>4. f \in Seq(Iterations) /\ f # <<>>
  <2>1. Typed(prog, t) /\ t.flat # <<>> BY <1>2, IteratingIs
  <2> QED BY <2>1 DEF Typed, StacksTyped
<1>5. /\ t.entered = tl.entered /\ t.regs = tl.regs /\ t.clock = tl.clock + 1 /\ t.clock \in Nat
      /\ t.unpaid = tl.unpaid
      /\ \/ f = tl.flat
         \/ \E e : f = Append(tl.flat, e) /\ e.pace = Instr.pace
  <2>1. CASE OnTop(Fetched)
    <3>1. t = Fetched BY <2>1 DEF Iterating
    <3> QED BY <1>1, <3>1 DEF Goes
  <2>2. CASE ~OnTop(Fetched)
    <3> DEFINE e == [head |-> tl.pc, left |-> n, start |-> Fetched.clock, iter |-> Fetched.clock,
                     pace |-> Instr.pace, max |-> Instr.max]
    <3>1. t = [Fetched EXCEPT !.depth = @ + 1, !.flat = Append(@, e)]
      BY <2>2 DEF Iterating
    <3>3. e.pace = Instr.pace
      OBVIOUS
    <3> HIDE DEF e
    <3>2. /\ t.flat = Append(Fetched.flat, e) /\ t.entered = Fetched.entered
          /\ t.regs = Fetched.regs /\ t.clock = Fetched.clock /\ t.unpaid = Fetched.unpaid
      BY <1>1, <3>1 DEF Fields
    <3> QED BY <1>1, <3>2, <3>3 DEF Goes
  <2> QED BY <2>1, <2>2
<1> HIDE DEF f
<1>6. /\ m \in DOMAIN f /\ Last(f) = f[m] /\ f[m] \in Iterations /\ Highest(Last(f).head, Heads(f))
  <2>1. Highest(Last(f).head, Heads(f)) BY <1>3, <1>4, FlatFront
  <2>2. m \in DOMAIN f /\ Last(f) = f[m] /\ Last(f) \in Iterations BY <1>4, FrontType
  <2> QED BY <2>1, <2>2
<1>7. h = tl.pc
  <2>1. Highest(h, A \cup {tl.pc}) BY <1>3, <1>6
  <2>2. h \in Int BY <1>6 DEF Iterations
  <2> HIDE DEF h, A
  <2>3. h = tl.pc \/ (h < tl.pc /\ tl.pc <= h) BY <1>3, <2>1 DEF Highest
  <2>4. tl.pc \in Int BY <1>1, ForIs
  <2> QED BY <2>2, <2>3, <2>4, SMT
<1>8. DOMAIN f = 1 .. m /\ m \in Nat
  <2>1. IsSeq(f) BY <1>4 DEF IsSeq
  <2> QED BY <2>1, LenIs
<1>9. ASSUME NEW i \in DOMAIN f, i # m PROVE i \in DOMAIN tl.flat /\ f[i] = tl.flat[i]
  <2>1. CASE f = tl.flat BY <2>1
  <2>2. CASE \E e : f = Append(tl.flat, e)
    <3>1. PICK e : f = Append(tl.flat, e) BY <2>2
    <3>2. IsSeq(tl.flat) BY <1>1 DEF IsSeq
    <3>3. Len(f) = Len(tl.flat) + 1 BY <3>1, <3>2, LenIs
    <3>4. i = Len(tl.flat) + 1 \/ (i \in DOMAIN tl.flat /\ f[i] = tl.flat[i])
      BY <3>1, <3>2, AppendIs
    <3> QED BY <1>9, <3>3, <3>4
  <2> QED BY <1>5, <2>1, <2>2
<1>10. ASSUME NEW i \in DOMAIN f, i # m PROVE f[i].head # tl.pc
  <2>1. i < m
    <3> HIDE DEF m
    <3> QED BY <1>8, <1>10, SMT
  <2>2. f[i].head < h BY <1>6, <2>1, <1>3 DEF Ordered
  <2>3. h \in Int BY <1>6 DEF Iterations
  <2> HIDE DEF h
  <2>4. f[i].head # h BY <2>2, <2>3, SMT
  <2> QED BY <1>7, <2>4
<1>11. f[m].pace = c[tl.pc].pace
  <2>1. CASE f = tl.flat
    <3>1. FlatTied(tl.entered, prog, tl.code, f)
      BY <2>1 DEF Timely, Punctual, OnTimeHere, OnTime
    <3> QED BY <1>6, <1>7, <3>1 DEF FlatTied
  <2>2. CASE \E e : f = Append(tl.flat, e) /\ e.pace = Instr.pace
    <3>1. PICK e : f = Append(tl.flat, e) /\ e.pace = Instr.pace BY <2>2
    <3>2. IsSeq(tl.flat) BY <1>1 DEF IsSeq
    <3>3. m = Len(tl.flat) + 1 BY <3>1, <3>2, LenIs
    <3>4. f[Len(tl.flat) + 1] = e BY <3>1, <3>2, AppendIs
    <3> QED BY <1>1, <3>1, <3>3, <3>4
  <2> QED BY <1>5, <2>1, <2>2
<1> QED BY <1>3, <1>4, <1>5, <1>7, <1>9, <1>10, <1>11 DEF f

(* The iteration that begins is written on both sides.                     *)
LEMMA FlatTurns ==
  ASSUME NEW entered, NEW p, NEW code, NEW pc, NEW old, FlatTied(entered, p, code, old),
         NEW s \in Seq(Iterations), s # <<>>, s[Len(s)].head = pc, s[Len(s)].pace = p[code][pc].pace,
         \A i \in DOMAIN s : i # Len(s) => i \in DOMAIN old /\ s[i] = old[i] /\ s[i].head # pc,
         NEW x, NEW v, v.clock = x, NEW later, Writes(later, entered, <<code, pc>>, v)
  PROVE  /\ FlatTied(later, p, code, [s EXCEPT ![Len(s)].iter = x])
         /\ FlatTied(entered, p, code, Front(s))
<1> DEFINE m == Len(s)
           u == [s EXCEPT ![m].iter = x]
<1>1. m \in DOMAIN s /\ s[m] \in Iterations BY FrontType
<1>2. /\ DOMAIN u = DOMAIN s /\ u[m].head = pc /\ u[m].iter = x /\ u[m].pace = s[m].pace
      /\ \A i \in DOMAIN s : i # m => u[i] = s[i]
  <2> HIDE DEF m
  <2>1. DOMAIN s[m] = {"head", "left", "start", "iter", "pace", "max"}
    BY <1>1 DEF Iterations
  <2> QED BY <1>1, <2>1 DEF m
<1> HIDE DEF u
<1>3. FlatTied(later, p, code, u)
  <2> SUFFICES ASSUME NEW i \in DOMAIN u
               PROVE  /\ <<code, u[i].head>> \in DOMAIN later
                      /\ later[<<code, u[i].head>>].clock = u[i].iter
                      /\ u[i].pace = p[code][u[i].head].pace
    BY DEF FlatTied
  <2>1. CASE i = m BY <1>2, <2>1 DEF Writes
  <2>2. CASE i # m
    <3> DEFINE b == <<code, u[i].head>>
    <3>1. i \in DOMAIN old /\ u[i] = old[i] /\ u[i].head # pc BY <1>2, <2>2
    <3>2. b \in DOMAIN entered /\ entered[b].clock = u[i].iter /\ u[i].pace = p[code][u[i].head].pace
      BY <3>1 DEF FlatTied
    <3>3. b # <<code, pc>> BY <3>1
    <3> HIDE DEF b
    <3>4. b \in DOMAIN later /\ later[b] = entered[b] BY <3>2, <3>3 DEF Writes
    <3> QED BY <3>2, <3>4 DEF b
  <2> QED BY <2>1, <2>2
<1>4. FlatTied(entered, p, code, Front(s))
  <2>1. IsSeq(s) BY DEF IsSeq
  <2>2. DOMAIN Front(s) = 1 .. m - 1 /\ m \in Nat BY <2>1, LenIs
  <2>3. \A i \in DOMAIN Front(s) : i # m BY <2>2, SMT
  <2>4. \A i \in DOMAIN Front(s) : i \in DOMAIN old /\ Front(s)[i] = old[i]
    BY <2>1, <2>3, FrontIs
  <2> QED BY <2>4 DEF FlatTied
<1> QED BY <1>3, <1>4 DEF u
-----------------------------------------------------------------------------

LEMMA TurnIs ==
  ASSUME NEW t, DOMAIN t = Fields, t.clock \in Nat, t.regs \in Registers,
         NEW out \in ForNext(t), out.err = "running"
  PROVE  Turned(out.t, t)
<1>1. PICK item \in Written(Ok(t), 1) :
        item.err = "running" /\ out \in Written(Ok(Iteration(item.t)), 1)
  BY ForNextIs
<1> DEFINE fetched == Ok(t)
           i == item.t
           ms == IF Instr.pace = None THEN 0 ELSE Instr.pace
           begun == [i EXCEPT !.flat[Len(i.flat)].iter = i.clock, !.regs.more = TRUE]
           begins == Ok(Iteration(i))
<1>2. fetched.t = t BY DEF Ok
<1>3. item \in Written(fetched, 1) /\ item.err = "running" /\ out \in Written(begins, 1)
  BY <1>1
<1>4. begins.t = Iteration(i) /\ Iteration(i) = Enter(begun, ms) BY DEF Ok, Iteration
<1> HIDE DEF fetched, begins, ms
<1>5. /\ Goes(t, i) /\ i.pc = t.pc /\ i.regs = t.regs /\ DOMAIN i = Fields
      /\ \E d \in Nat : i.clock = t.clock + d /\ i.unpaid = t.unpaid + d
  BY <1>2, <1>3, GoesWritten
<1> HIDE DEF i
<1>6. PICK d \in Nat : i.clock = t.clock + d /\ i.unpaid = t.unpaid + d BY <1>5
<1>7. /\ i.code = t.code /\ i.calls = t.calls /\ i.anchors = t.anchors /\ i.loops = t.loops
      /\ i.flat = t.flat /\ i.entered = t.entered /\ i.clock \in Nat
  BY <1>5 DEF Goes
<1>8. /\ DOMAIN begun = Fields /\ begun.code = t.code /\ begun.calls = t.calls
      /\ begun.anchors = t.anchors /\ begun.loops = t.loops /\ begun.pc = t.pc
      /\ begun.entered = t.entered /\ begun.clock = i.clock /\ begun.unpaid = i.unpaid
      /\ begun.regs.lease = t.regs.lease
      /\ begun.flat = [t.flat EXCEPT ![Len(t.flat)].iter = i.clock]
  <2>1. DOMAIN i.regs = {"more", "promise", "lease"} BY <1>5 DEF Registers
  <2> QED BY <1>5, <1>7, <2>1 DEF Fields
<1> HIDE DEF begun
<1> DEFINE v == [clock |-> begun.clock, ms |-> ms, unpaid |-> begun.unpaid]
           x == Enter(begun, ms)
<1>9. /\ DOMAIN x = Fields /\ x.code = begun.code /\ x.pc = begun.pc /\ x.clock = begun.clock
      /\ x.loops = begun.loops /\ x.flat = begun.flat /\ x.calls = begun.calls
      /\ x.regs = begun.regs /\ x.anchors = begun.anchors
      /\ Writes(x.entered, begun.entered, <<tl.code, tl.pc>>, v)
  <2> HIDE DEF x
  <2> QED BY <1>8, EnterIs DEF x
<1>10. v.clock = t.clock + d /\ v.unpaid = t.unpaid + d BY <1>6, <1>8
<1>11. begins.t = x BY <1>4
<1> HIDE DEF x, v
<1>12. x.clock \in Nat BY <1>7, <1>8, <1>9
<1>13. Goes(x, out.t) /\ out.t.pc = x.pc /\ out.t.regs = x.regs
  BY <1>3, <1>9, <1>11, <1>12, GoesWritten
<1> DEFINE u == out.t
<1>14. Goes(x, u) /\ u.pc = x.pc /\ u.regs = x.regs BY <1>13
<1> HIDE DEF u
<1>15. /\ u.code = t.code /\ u.calls = t.calls /\ u.anchors = t.anchors /\ u.loops = t.loops
       /\ u.pc = t.pc /\ u.regs.lease = t.regs.lease /\ u.clock \in Nat
       /\ t.clock + d <= u.clock
       /\ u.flat = [t.flat EXCEPT ![Len(t.flat)].iter = t.clock + d]
       /\ Writes(u.entered, t.entered, <<tl.code, tl.pc>>, v)
  BY <1>6, <1>8, <1>9, <1>14 DEF Goes
<1>16. \E w : /\ w.clock = t.clock + d /\ w.unpaid = t.unpaid + d
              /\ Writes(u.entered, t.entered, <<tl.code, tl.pc>>, w)
  BY <1>10, <1>15
<1>17. Turned(u, t) BY <1>6, <1>15, <1>16 DEF Turned
<1> QED BY <1>17 DEF u

LEMMA LeavingIs ==
  ASSUME NEW t, DOMAIN t = Fields, t.clock \in Nat, t.regs \in Registers,
         t.flat \in Seq(Iterations), t.flat # <<>>, Instr.max \in OrNone(Nat),
         NEW out \in Written(ForLeft(t), 2), out.err = "running"
  PROVE  Finished(out.t, t)
<1> DEFINE since == t.clock - Last(t.flat).start
           ms == IF Instr.max = None \/ since < 0 THEN 0 ELSE Monus(Instr.max, since)
           s == [Shallower(t) EXCEPT !.flat = Front(@)]
           v == Paid(s, ms).t
           left == ForLeft(t)
           w == left.t
<1>1. out \in Written(left, 2)
  OBVIOUS
<1>2. left.err = "running" => Paid(s, ms).err = "running" /\ w = [v EXCEPT !.regs.more = FALSE]
  BY DEF ForLeft, Then, Ok
<1> HIDE DEF left
<1>3. left.err = "running" BY <1>1 DEF Written
<1>4. /\ DOMAIN s = Fields /\ s.flat = Front(t.flat) /\ s.calls = t.calls /\ s.code = t.code
      /\ s.anchors = t.anchors /\ s.loops = t.loops /\ s.entered = t.entered
      /\ s.pc = t.pc /\ s.regs = t.regs /\ s.clock = t.clock
  BY DEF Shallower, Fields
<1>5. ms \in Nat
  <2>1. Last(t.flat) \in Iterations BY FrontType
  <2>2. Last(t.flat).start \in Int BY <2>1 DEF Iterations
  <2>3. since \in Int BY <2>2, SMT
  <2> HIDE DEF since
  <2> QED BY <2>3, SMT DEF OrNone, Monus
<1> HIDE DEF s, ms
<1>6. Goes(s, v) /\ DOMAIN v = Fields /\ v.pc = s.pc /\ v.regs = s.regs
  BY <1>2, <1>3, <1>4, <1>5, GoesPaid
<1>7. w = [v EXCEPT !.regs.more = FALSE] BY <1>2, <1>3
<1> HIDE DEF v
<1>8. /\ DOMAIN w = Fields /\ w.code = v.code /\ w.pc = v.pc /\ w.clock = v.clock
      /\ w.loops = v.loops /\ w.flat = v.flat /\ w.calls = v.calls
      /\ w.anchors = v.anchors /\ w.entered = v.entered
      /\ w.regs.lease = v.regs.lease /\ w.regs.more = FALSE
  <2>1. DOMAIN v.regs = {"more", "promise", "lease"} BY <1>4, <1>6 DEF Registers
  <2> HIDE DEF w
  <2> QED BY <1>6, <1>7, <2>1 DEF Fields
<1>9. left.t = w
  OBVIOUS
<1> HIDE DEF w
<1>10. w.clock \in Nat /\ t.clock <= w.clock BY <1>4, <1>6, <1>8 DEF Goes
<1> DEFINE u == out.t
<1>11. Goes(w, u) /\ u.pc = w.pc /\ u.regs = w.regs
  BY <1>1, <1>8, <1>9, <1>10, GoesWritten
<1> HIDE DEF u
<1>12. u.clock \in Nat /\ w.clock <= u.clock BY <1>11 DEF Goes
<1>13. t.clock <= u.clock BY <1>10, <1>12, SMT
<1>14. Finished(u, t) BY <1>4, <1>6, <1>8, <1>11, <1>12, <1>13 DEF Goes, Finished
<1> QED BY <1>14 DEF u

(* What a turn of a for loop does is one or the other.                     *)
LEMMA TurnsOrLeaves ==
  ASSUME Timely, status' = "running", For
  PROVE  /\ Executes("for")
         /\ \E n \in Int : \E out \in ForNext(Iterating(n)) \cup Written(ForLeft(Iterating(n)), 2) :
              tl' = out.t /\ out.err = "running"
<1>1. PICK n \in IF OnTop(Fetched) THEN {0} ELSE Elements :
        \E out \in ForNext(Iterating(n)) \cup Written(ForLeft(Iterating(n)), 2) : Becomes(out)
  BY DEF For, Only, Becomes, Error
<1>2. Executes("for") BY DEF For
<1>3. n \in Int
  <2>1. n = 0 \/ n \in Elements BY <1>1
  <2> QED BY <2>1, ControlAssumption, SMT
<1>4. PICK out \in ForNext(Iterating(n)) \cup Written(ForLeft(Iterating(n)), 2) : Becomes(out)
  BY <1>1
<1>5. tl' = out.t /\ out.err = "running" BY <1>4 DEF Becomes
<1> QED BY <1>2, <1>3, <1>4, <1>5

(* A turn of a for loop.                                                  *)
LEMMA ForOnTime ==
  ASSUME Timely, status' = "running", For
  PROVE  Punctual(prog, tl') /\ Instr.op = "for" /\ PaceKept
<1> DEFINE c == prog[tl.code]
           b == <<tl.code, tl.pc>>
<1>1. Executes("for") /\ \E n \in Int : \E out \in ForNext(Iterating(n)) \cup Written(ForLeft(Iterating(n)), 2) :
                           tl' = out.t /\ out.err = "running"
  BY TurnsOrLeaves
<1>2. PICK n \in Int : \E out \in ForNext(Iterating(n)) \cup Written(ForLeft(Iterating(n)), 2) :
                         tl' = out.t /\ out.err = "running"
  BY <1>1
<1> DEFINE t == Iterating(n)
<1>3. PICK out \in ForNext(t) \cup Written(ForLeft(t), 2) : tl' = out.t /\ out.err = "running"
  BY <1>2
<1>5. /\ DOMAIN t = Fields /\ t.code = tl.code /\ t.calls = tl.calls /\ t.anchors = tl.anchors
      /\ t.loops = tl.loops /\ t.entered = tl.entered /\ t.regs = tl.regs
      /\ t.clock = tl.clock + 1 /\ t.clock \in Nat /\ t.pc = tl.pc + 1
      /\ t.flat \in Seq(Iterations) /\ t.flat # <<>> /\ t.flat[Len(t.flat)].head = tl.pc
      /\ t.flat[Len(t.flat)].pace = prog[tl.code][tl.pc].pace /\ t.unpaid = tl.unpaid
      /\ \A i \in DOMAIN t.flat : i # Len(t.flat) =>
           i \in DOMAIN tl.flat /\ t.flat[i] = tl.flat[i] /\ t.flat[i].head # tl.pc
  BY <1>1, IteratingTime
<1> HIDE DEF t
<1>6. /\ tl.clock \in Nat /\ tl.regs \in Registers /\ Built(c) /\ tl.pc \in DOMAIN c
      /\ c[tl.pc].op = "for" /\ Instr = c[tl.pc] /\ WellFormed(prog, Instr) /\ Instr.op = "for"
      /\ tl.flat \in Seq(Iterations) /\ tl.unpaid \in Nat
  BY <1>1, NowIs
<1>7. /\ Around(c, tl.pc + 1, Limited) = Around(c, tl.pc, Limited)
      /\ Around(c, tl.pc + 1, Leases) = Around(c, tl.pc, Leases)
      /\ tl.pc \notin Around(c, tl.pc, Limited) /\ tl.pc \notin Around(c, tl.pc, Leases)
  <2>1. "for" \in Begins /\ "for" \notin Limited /\ "for" \notin Leases
    BY KindsAre DEF Leases
  <2>2. \A ops : /\ tl.pc \notin Around(c, tl.pc, ops)
                 /\ Around(c, tl.pc + 1, ops) =
                      IF c[tl.pc].op \in ops THEN Around(c, tl.pc, ops) \cup {tl.pc} ELSE Around(c, tl.pc, ops)
    <3>1. Built(c) /\ tl.pc \in DOMAIN c /\ c[tl.pc].op \in Begins BY <1>6, <2>1
    <3> HIDE DEF c
    <3> QED BY <3>1, PastBegin
  <2> QED BY <1>6, <2>1, <2>2
<1>8. /\ LoopsTied(tl.entered, tl.code, Around(c, tl.pc, Limited), tl.loops)
      /\ LeaseTied(tl.entered, tl.code, Around(c, tl.pc, Leases), tl.regs.lease)
      /\ FlatTied(tl.entered, prog, tl.code, tl.flat)
      /\ Passed(tl.loops, tl.clock)
  BY DEF Timely, Punctual, OnTimeHere, OnTime
<1>10. CASE out \in ForNext(t)
  <2> DEFINE later == (tl').entered
  <2>1. /\ (tl').code = tl.code /\ (tl').calls = tl.calls /\ (tl').anchors = tl.anchors
        /\ (tl').loops = tl.loops /\ (tl').pc = tl.pc + 1 /\ (tl').regs.lease = tl.regs.lease
        /\ (tl').clock \in Nat
        /\ \E d \in Nat :
             /\ t.clock + d <= (tl').clock
             /\ (tl').flat = [t.flat EXCEPT ![Len(t.flat)].iter = t.clock + d]
             /\ \E v : /\ v.clock = t.clock + d /\ v.unpaid = t.unpaid + d
                       /\ Writes(later, t.entered, <<tl.code, tl.pc>>, v)
    <3>1. DOMAIN t = Fields /\ t.clock \in Nat /\ t.regs \in Registers BY <1>5, <1>6
    <3>2. out \in ForNext(t) /\ out.err = "running" /\ tl' = out.t BY <1>3, <1>10
    <3>3. Turned(out.t, t) BY <3>1, <3>2, TurnIs
    <3>4. Turned(tl', t) BY <3>2, <3>3
    <3> QED BY <1>5, <3>4 DEF Turned
  <2>2. PICK d \in Nat :
          /\ t.clock + d <= (tl').clock
          /\ (tl').flat = [t.flat EXCEPT ![Len(t.flat)].iter = t.clock + d]
          /\ \E v : /\ v.clock = t.clock + d /\ v.unpaid = t.unpaid + d
                    /\ Writes(later, t.entered, <<tl.code, tl.pc>>, v)
    BY <2>1
  <2>3. PICK v : /\ v.clock = t.clock + d /\ v.unpaid = t.unpaid + d
                 /\ Writes(later, t.entered, <<tl.code, tl.pc>>, v)
    BY <2>2
  <2> DEFINE now == t.clock + d
             turned == [t.flat EXCEPT ![Len(t.flat)].iter = now]
  <2>4. Writes(later, tl.entered, b, v) /\ v.clock = now BY <1>5, <2>3
  <2>14. (tl').flat = turned BY <2>2
  <2> HIDE DEF later, now
  <2>5. FlatTied(later, prog, tl.code, turned) BY <1>5, <1>8, <2>4, FlatTurns
  <2>6. /\ LoopsTied(later, tl.code, Around(c, tl.pc, Limited), tl.loops)
        /\ LeaseTied(later, tl.code, Around(c, tl.pc, Leases), tl.regs.lease)
    BY <1>7, <1>8, <2>4, EnterTied
  <2> HIDE DEF turned
  <2>8. (tl').clock \in Nat /\ tl.clock <= (tl').clock BY <1>5, <1>6, <2>1, <2>2, SMT
  <2>9. Passed(tl.loops, (tl').clock) BY <1>6, <1>8, <2>8, LaterOn
  <2>10. OnTimeHere(prog, tl')
    BY <1>7, <2>1, <2>5, <2>6, <2>9, <2>14 DEF OnTimeHere, OnTime, later
  <2>11. Punctual(prog, tl') BY <2>1, <2>8, <2>10, Rests DEF Timely
  <2>12. ASSUME OnTop(tl), Instr.pace # None
         PROVE  Period \in Instr.pace + 1 .. Instr.pace + 2
    <3> DEFINE l == Last(tl.flat)
               since == tl.entered[b].clock
    <3>1. tl.flat # <<>> /\ l.head = tl.pc BY <2>12 DEF OnTop
    <3>2. l = tl.flat[Len(tl.flat)] /\ Len(tl.flat) \in DOMAIN tl.flat /\ l \in Iterations
      BY <1>6, <3>1, FrontType
    <3>3. since = l.iter /\ l.pace = Instr.pace BY <1>6, <1>8, <3>1, <3>2 DEF FlatTied
    <3>4. l.iter + l.pace <= tl.clock /\ tl.clock <= l.iter + l.pace + 1
      <4>1. At(c, tl.pc, {"for"}) BY <1>6 DEF At
      <4> QED BY <2>12, <3>1, <3>3, <4>1 DEF Timely, Awaited, Elapsed
    <3>5. l.iter \in Int /\ l.pace \in Int BY <3>2 DEF Iterations
    <3>6. later[b].clock = tl.clock + 1 + d /\ later[b].unpaid = tl.unpaid + d
      BY <1>5, <2>3, <2>4 DEF Writes, now
    <3>7. Period = later[b].clock - since - (later[b].unpaid - tl.unpaid)
      BY DEF Period, later
    <3> HIDE DEF since, l, b
    <3>8. Period = tl.clock + 1 - l.iter BY <1>6, <3>3, <3>5, <3>6, <3>7, SMT
    <3>9. Period = tl.clock + 1 - l.iter /\ l.pace = Instr.pace /\ tl.clock \in Int
      BY <1>6, <3>3, <3>8
    <3> DEFINE q == Period
               y == tl.clock
               i == l.iter
               k == l.pace
    <3>10. q = y + 1 - i /\ i + k <= y /\ y <= i + k + 1 /\ y \in Int /\ i \in Int /\ k \in Int
      BY <3>4, <3>5, <3>9
    <3> HIDE DEF q, y, i, k
    <3>11. q \in k + 1 .. k + 2 BY <3>10, SMT
    <3> QED BY <3>9, <3>11 DEF q, k
  <2>13. PaceKept BY <2>12 DEF PaceKept, IteratesAgain
  <2> QED BY <1>6, <2>11, <2>13
<1>11. CASE out \in Written(ForLeft(t), 2)
  <2> DEFINE left == Front(t.flat)
  <2>1. /\ (tl').code = tl.code /\ (tl').calls = tl.calls /\ (tl').anchors = tl.anchors
        /\ (tl').loops = tl.loops /\ (tl').pc = tl.pc + 1 /\ (tl').regs.lease = tl.regs.lease
        /\ (tl').clock \in Nat /\ t.clock <= (tl').clock /\ (tl').flat = left
        /\ (tl').entered = tl.entered /\ (tl').regs.more = FALSE
    <3>1. /\ DOMAIN t = Fields /\ t.clock \in Nat /\ t.regs \in Registers
          /\ Instr.max \in OrNone(Nat) /\ t.flat \in Seq(Iterations) /\ t.flat # <<>>
      BY <1>5, <1>6 DEF WellFormed
    <3>2. out \in Written(ForLeft(t), 2) /\ out.err = "running" /\ tl' = out.t
      BY <1>3, <1>11
    <3>3. Finished(out.t, t) BY <3>1, <3>2, LeavingIs
    <3>4. Finished(tl', t) BY <3>2, <3>3
    <3> QED BY <1>5, <3>4 DEF Finished
  <2>6. FlatTied(tl.entered, prog, tl.code, left)
    <3> DEFINE w == [clock |-> 0]
               later == Bind(tl.entered, b, w)
    <3>1. w.clock = 0 /\ Writes(later, tl.entered, b, w) BY BindWrites
    <3> HIDE DEF w, later
    <3> QED BY <1>5, <1>8, <3>1, FlatTurns
  <2> HIDE DEF left
  <2>8. tl.clock <= (tl').clock BY <1>5, <1>6, <2>1, SMT
  <2>9. Passed(tl.loops, (tl').clock) BY <1>6, <1>8, <2>1, <2>8, LaterOn
  <2>10. OnTimeHere(prog, tl') BY <1>7, <1>8, <2>1, <2>6, <2>9 DEF OnTimeHere, OnTime
  <2>11. Punctual(prog, tl') BY <2>1, <2>8, <2>10, Rests DEF Timely
  <2>12. PaceKept BY <2>1 DEF PaceKept, IteratesAgain
  <2> QED BY <1>6, <2>11, <2>12
<1> QED BY <1>3, <1>10, <1>11
-----------------------------------------------------------------------------
(* Where the end of an iteration has come to when it may go back.          *)
LEMMA PaddedIs ==
  ASSUME NEW now \in Nat, NEW iter \in Int, NEW pace \in Int, now - iter >= 0, ~(now - iter > pace)
  PROVE  LET then == now + Monus(pace - (now - iter), 1)
         IN iter + pace <= then + 1 /\ then <= iter + pace
BY SMT DEF Monus

(* The end of an iteration waits for its pace.                             *)
LEMMA EndForOnTime ==
  ASSUME Timely, status' = "running", EndFor
  PROVE  Punctual(prog, tl') /\ Awaited(prog, tl')
<1> DEFINE c == prog[tl.code]
           next(u) == [u EXCEPT !.flat[Len(u.flat)].left = Monus(@, 1)]
           last == tl.flat[Len(tl.flat)]
           pace == last.pace
<1>1. Executes("endFor") /\ tl.flat # <<>> BY DEF EndFor, Only, Becomes, Error
<1>2. PICK out \in Paced(Fetched) : tl' = out.t /\ out.err = "running"
  BY <1>1 DEF EndFor, Only, Becomes
<1>3. /\ DOMAIN Fetched = Fields /\ Goes(tl, Fetched) /\ Fetched.clock \in Nat /\ Fetched.pc = tl.pc + 1
      /\ tl.clock \in Nat /\ Built(c) /\ tl.pc \in DOMAIN c /\ c[tl.pc].op = "endFor" /\ Instr = c[tl.pc]
      /\ tl.flat \in Seq(Iterations)
  BY <1>1, NowIs
<1>5. /\ Len(tl.flat) \in DOMAIN tl.flat /\ last \in Iterations /\ Last(tl.flat) = last
      /\ DOMAIN last = {"head", "left", "start", "iter", "pace", "max"} /\ last.iter \in Int
      /\ pace \in Int
  <2>1. Len(tl.flat) \in DOMAIN tl.flat /\ last \in Iterations /\ Last(tl.flat) = last
    BY <1>1, <1>3, FrontType
  <2> QED BY <2>1 DEF Iterations
<1>6. Fetched.flat = tl.flat BY <1>3 DEF Goes
<1> HIDE DEF last
<1>7. \E v : /\ tl' = next(v) /\ DOMAIN v = Fields /\ Goes(tl, v) /\ v.pc = tl.pc + 1
             /\ pace # None => last.iter + pace <= v.clock + 1 /\ v.clock <= last.iter + pace
  <2> DEFINE cost == Fetched.clock - last.iter
             ms == Monus(pace - cost, 1)
  <2>1. \/ out = Ok(next(Fetched)) /\ pace = None
        \/ out = Then(Paid(Fetched, ms), next) /\ pace # None /\ cost >= 0 /\ ~(cost > pace)
    <3>1. Last(Fetched.flat) = last BY <1>5, <1>6
    <3>2. cost \in Int BY <1>3, <1>5, SMT
    <3>3. Fetched.clock - Last(Fetched.flat).iter \in Int BY <3>1, <3>2
    <3>4. out \in Paced(Fetched) /\ out.err = "running" BY <1>2
    <3>5. LET p == Last(Fetched.flat).pace
              k == Fetched.clock - Last(Fetched.flat).iter
          IN \/ out = Ok(next(Fetched)) /\ p = None
             \/ out = Then(Paid(Fetched, Monus(p - k, 1)), next) /\ p # None /\ k >= 0 /\ ~(k > p)
      BY <3>3, <3>4, PacedIs
    <3> HIDE DEF next
    <3> QED BY <3>1, <3>5
  <2>2. CASE pace = None /\ out = Ok(next(Fetched)) BY <1>2, <1>3, <2>2 DEF Ok
  <2>3. CASE out = Then(Paid(Fetched, ms), next) /\ cost >= 0 /\ ~(cost > pace)
    <3> DEFINE v == Paid(Fetched, ms).t
    <3>1. Paid(Fetched, ms).err = "running" /\ tl' = next(v) BY <1>2, <2>3 DEF Then, Ok
    <3>2. ms \in Nat
      <4>1. pace - cost \in Int /\ 1 \in Int BY <1>3, <1>5, SMT
      <4> QED BY <4>1, MonusType
    <3>3. last.iter + pace <= Fetched.clock + ms + 1 /\ Fetched.clock + ms <= last.iter + pace
      BY <1>3, <1>5, <2>3, PaddedIs
    <3> HIDE DEF ms
    <3>4. Goes(Fetched, v) /\ DOMAIN v = Fields /\ v.pc = Fetched.pc /\ v.clock = Fetched.clock + ms
      BY <1>3, <3>1, <3>2, GoesPaid
    <3>5. Goes(tl, v) BY <1>3, <3>4, GoesTwice
    <3> HIDE DEF v
    <3> QED BY <1>3, <3>1, <3>3, <3>4, <3>5
  <2> QED BY <2>1, <2>2, <2>3
<1>8. PICK v : /\ tl' = next(v) /\ DOMAIN v = Fields /\ Goes(tl, v) /\ v.pc = tl.pc + 1
               /\ pace # None => last.iter + pace <= v.clock + 1 /\ v.clock <= last.iter + pace
  BY <1>7
<1> DEFINE shorter == [tl.flat EXCEPT ![Len(tl.flat)].left = Monus(tl.flat[Len(tl.flat)].left, 1)]
<1>9. v.flat = tl.flat BY <1>8 DEF Goes
<1>10. /\ (tl').code = v.code /\ (tl').calls = v.calls /\ (tl').anchors = v.anchors
       /\ (tl').loops = v.loops /\ (tl').entered = v.entered /\ (tl').regs = v.regs
       /\ (tl').pc = v.pc /\ (tl').clock = v.clock /\ (tl').flat = shorter
  BY <1>8, <1>9 DEF Fields
<1>11. /\ (tl').code = tl.code /\ (tl').calls = tl.calls /\ (tl').anchors = tl.anchors
       /\ (tl').loops = tl.loops /\ (tl').entered = tl.entered /\ (tl').regs.lease = tl.regs.lease
       /\ (tl').pc = tl.pc + 1 /\ (tl').clock \in Nat /\ tl.clock <= (tl').clock /\ (tl').flat = shorter
  BY <1>8, <1>10 DEF Goes
<1>12. /\ DOMAIN shorter = DOMAIN tl.flat
       /\ \A i \in DOMAIN tl.flat : /\ shorter[i].head = tl.flat[i].head
                                   /\ shorter[i].iter = tl.flat[i].iter
                                   /\ shorter[i].pace = tl.flat[i].pace
  <2> DEFINE m == Len(tl.flat)
             x == Monus(tl.flat[Len(tl.flat)].left, 1)
  <2>1. shorter = [tl.flat EXCEPT ![m].left = x]
    OBVIOUS
  <2>2. m \in DOMAIN tl.flat /\ DOMAIN tl.flat[m] = {"head", "left", "start", "iter", "pace", "max"}
    BY <1>5 DEF last
  <2> HIDE DEF m, x, shorter
  <2> QED BY <2>1, <2>2
<1>13. Last(shorter).iter = last.iter /\ Last(shorter).pace = pace /\ shorter # <<>>
  <2>1. shorter \in Seq(Iterations) /\ shorter # <<>>
    <3>1. Monus(last.left, 1) \in Int
      <4>1. last.left \in Int /\ 1 \in Int BY <1>5 DEF Iterations
      <4> QED BY <4>1, MonusType
    <3>2. shorter \in Seq(Iterations) BY <1>1, <1>3, <3>1, IterationType DEF last
    <3>3. shorter # <<>>
      <4>1. DOMAIN shorter # {} BY <1>5, <1>12
      <4>2. DOMAIN <<>> = {} BY SMT
      <4> QED BY <4>1, <4>2
    <3> QED BY <3>2, <3>3
  <2>2. IsSeq(shorter) /\ IsSeq(tl.flat) BY <1>3, <2>1 DEF IsSeq
  <2> HIDE DEF shorter
  <2>3. Last(shorter) = shorter[Len(shorter)] BY <2>1, <2>2, FrontIs
  <2>4. Len(shorter) = Len(tl.flat)
    <3>1. /\ DOMAIN shorter = 1 .. Len(shorter) /\ Len(shorter) \in Nat
          /\ DOMAIN tl.flat = 1 .. Len(tl.flat) /\ Len(tl.flat) \in Nat
      BY <2>2, LenIs
    <3>2. \A i, j \in Nat : 1 .. i = 1 .. j => i = j BY SMT
    <3> QED BY <1>12, <3>1, <3>2
  <2> QED BY <1>5, <1>12, <2>1, <2>3, <2>4 DEF last
<1> HIDE DEF shorter
<1>14. /\ LoopsTied(tl.entered, tl.code, Around(c, tl.pc, Limited), tl.loops)
       /\ LeaseTied(tl.entered, tl.code, Around(c, tl.pc, Leases), tl.regs.lease)
       /\ FlatTied(tl.entered, prog, tl.code, tl.flat)
       /\ Passed(tl.loops, tl.clock)
  BY DEF Timely, Punctual, OnTimeHere, OnTime
<1>15. FlatTied(tl.entered, prog, tl.code, shorter) BY <1>12, <1>14 DEF FlatTied
<1>16. Quiet(c, tl.pc + 1, tl.pc) BY <1>3, QuietNext
<1>17. Passed(tl.loops, (tl').clock) BY <1>3, <1>11, <1>14, LaterOn
<1>18. OnTimeHere(prog, tl')
  BY <1>11, <1>14, <1>15, <1>16, <1>17 DEF OnTimeHere, OnTime, Quiet
<1>19. Punctual(prog, tl') BY <1>11, <1>18, Rests DEF Timely
<1>20. (tl.pc + 1) - 1 = tl.pc BY <1>3, ForIs
<1>21. ~At(c, tl.pc + 1, {"for"}) BY <1>3 DEF Built, Jumps, At
<1>22. pace # None => Elapsed(Last((tl').flat), (tl').clock + 1)
  <2>1. pace # None => last.iter + pace <= (tl').clock + 1 /\ (tl').clock <= last.iter + pace
    BY <1>8, <1>10
  <2>2. last.iter + pace \in Int /\ (tl').clock \in Nat BY <1>5, <1>11, SMT
  <2>3. pace # None => last.iter + pace <= (tl').clock + 1 /\ (tl').clock + 1 <= last.iter + pace + 1
    <3> DEFINE x == last.iter + pace
               y == (tl').clock
    <3>1. pace # None => x <= y + 1 /\ y <= x BY <2>1
    <3>2. x \in Int /\ y \in Int BY <2>2
    <3> HIDE DEF x, y
    <3>3. pace # None => x <= y + 1 /\ y + 1 <= x + 1 BY <3>1, <3>2, SMT
    <3> QED BY <3>3 DEF x, y
  <2> QED BY <1>11, <1>13, <2>3 DEF Elapsed
<1>23. Awaited(prog, tl')
  <2> HIDE DEF c, pace
  <2>1. Last((tl').flat).pace = pace BY <1>11, <1>13
  <2> QED BY <1>11, <1>21, <1>22, <2>1 DEF Awaited, c
<1> QED BY <1>19, <1>23
-----------------------------------------------------------------------------
(* After the end of an iteration the jump leads back to the header.        *)
LEMMA JumpAwaits ==
  ASSUME Timely, status' = "running", Jump
  PROVE  Awaited(prog, tl')
<1> DEFINE c == prog[tl.code]
           e == tl.pc - 1
           g == c[e].head
<1>1. Executes("jump") /\ tl' = [Fetched EXCEPT !.pc = Instr.to]
  BY DEF Jump, Only, Becomes, Ok
<1>2. /\ DOMAIN Fetched = Fields /\ Goes(tl, Fetched) /\ Fetched.clock = tl.clock + 1
      /\ Instr = c[tl.pc] /\ Built(c) /\ tl.pc \in DOMAIN c /\ c[tl.pc].op = "jump"
      /\ tl.flat \in Seq(Iterations)
  BY <1>1, NowIs
<1>3. /\ (tl').code = tl.code /\ (tl').flat = tl.flat /\ (tl').clock = tl.clock + 1
      /\ (tl').pc = c[tl.pc].to
  BY <1>1, <1>2 DEF Goes, Fields
<1>4. Carries(tl, Fetched) /\ Ran /\ prog \in Programs /\ tl.code \in DOMAIN prog
  <2>1. Ran /\ Ready BY DEF Timely, Ran
  <2>2. Carries(tl, Fetched) /\ tl.code \in DOMAIN prog BY <1>1, <2>1, HereIs
  <2> QED BY <2>1, <2>2 DEF Ready
<1>5. CASE Lands(c, tl.pc)
  <2>1. Carries(tl, tl') /\ (tl').pc = Instr.to BY <1>1, <1>2, <1>4 DEF Carries, Fields
  <2>2. Fine(prog, tl', speculation_stack) BY <1>1, <1>4, <1>5, <2>1, JumpFine
  <2>3. IsSeq((tl').flat) /\ Built(prog[(tl').code]) BY <1>2, <1>3 DEF IsSeq
  <2> QED BY <2>2, <2>3, FineAwaits
<1>6. CASE ~Lands(c, tl.pc)
  <2>1. ~At(c, e, {"for"}) BY <1>2, ForIs
  <2>2. At(c, e, {"endFor"}) BY <1>6, <2>1 DEF Lands, At
  <2>3. c[tl.pc].to = g BY <1>2, <2>2, ForIs
  <2>4. Lands(c, g)
    <3>1. c[tl.pc].to \in Targets(c[tl.pc]) BY <1>2 DEF Targets
    <3>2. Lands(c, c[tl.pc].to) BY <1>2, <3>1 DEF Built, Jumps
    <3> QED BY <2>3, <3>2
  <2>6. ~At(c, g - 1, {"endFor"}) BY <2>4 DEF Lands, At
  <2>7. tl.flat # <<>> /\ Last(tl.flat).pace # None => Elapsed(Last(tl.flat), tl.clock + 1)
    BY <2>2 DEF Timely, Awaited
  <2>8. (tl').pc = g BY <1>3, <2>3
  <2> HIDE DEF g, e
  <2> QED BY <1>3, <2>6, <2>7, <2>8 DEF Awaited
<1> QED BY <1>5, <1>6

(* After the header nothing is awaited.                                    *)
LEMMA ForAwaits ==
  ASSUME Timely, status' = "running", For
  PROVE  Awaited(prog, tl')
<1> DEFINE c == prog[tl.code]
<1>1. Executes("for") BY DEF For
<1>2. /\ Built(c) /\ tl.pc \in DOMAIN c /\ c[tl.pc].op = "for" BY <1>1, NowIs
<1>3. (tl').code = tl.code /\ (tl').pc = tl.pc + 1
  <2>1. PICK n \in Int : \E out \in ForNext(Iterating(n)) \cup Written(ForLeft(Iterating(n)), 2) :
                           tl' = out.t /\ out.err = "running"
    BY TurnsOrLeaves
  <2> DEFINE t == Iterating(n)
  <2>2. PICK out \in ForNext(t) \cup Written(ForLeft(t), 2) : tl' = out.t /\ out.err = "running"
    BY <2>1
  <2>3. /\ DOMAIN t = Fields /\ t.code = tl.code /\ t.pc = tl.pc + 1 /\ t.clock \in Nat
        /\ t.regs \in Registers /\ t.flat \in Seq(Iterations) /\ t.flat # <<>>
        /\ Instr.max \in OrNone(Nat)
    BY <1>1, IteratingTime, NowIs DEF WellFormed
  <2> HIDE DEF t
  <2>4. CASE out \in ForNext(t) BY <2>2, <2>3, <2>4, TurnIs DEF Turned
  <2>5. CASE out \in Written(ForLeft(t), 2) BY <2>2, <2>3, <2>5, LeavingIs DEF Finished
  <2> QED BY <2>2, <2>4, <2>5
<1>4. (tl.pc + 1) - 1 = tl.pc BY <1>2, ForIs
<1>5. ~At(c, tl.pc, {"endFor"}) BY <1>2 DEF At
<1>6. ~At(c, tl.pc + 1, {"for"}) BY <1>2 DEF Built, Jumps, At
<1> HIDE DEF c
<1> QED BY <1>3, <1>4, <1>5, <1>6 DEF Awaited, c

-----------------------------------------------------------------------------
(* Every step                                                              *)

(* They reach it with the stacks the blocks call for.                     *)
LEMMA SteppingFine ==
  ASSUME Ran, status' = "running", astray' = {}, Stepping
  PROVE  \E stack : Fine(prog, tl', stack)
<1>1. CASE Other \/ Clone \/ SetSaturationPolicy \/ Slice \/ Capability \/ Defer
  BY <1>1, SimpleGoOn
<1>2. CASE Await \/ EndLease \/ EndPeriodicEpoch BY <1>2, PayingGoOn
<1>3. CASE JumpIfNot \/ Select \/ Foreign
  BY <1>3, JumpIfNotGoesOn, SelectGoesOn, ForeignGoesOn
<1>4. CASE Call \/ Return BY <1>4, CallGoesOn, ReturnGoesOn
<1>5. CASE Loop \/ EndLoop \/ Break BY <1>5, LoopGoesOn, EndLoopGoesOn, BreakGoesOn
<1>6. CASE Anchor \/ Rewind BY <1>6, AnchorGoesOn, RewindGoesOn
<1>7. CASE Isolate \/ EndIsolate \/ Lease
  BY <1>7, IsolateGoesOn, EndIsolateGoesOn, LeaseGoOn
<1>8. CASE Speculate \/ EndSpeculate BY <1>8, SpeculateGoesOn, EndSpeculateGoesOn
<1>9. CASE Collapse \/ Commit BY <1>9, CollapseGoesOn, CommitGoesOn
<1> QED BY <1>1, <1>2, <1>3, <1>4, <1>5, <1>6, <1>7, <1>8, <1>9 DEF Stepping

(* They all keep time.                                                     *)
LEMMA SteppingOnTime ==
  ASSUME Timely, status' = "running", astray' = {}, Stepping
  PROVE  Punctual(prog, tl')
<1>1. CASE Other \/ Clone \/ SetSaturationPolicy \/ Slice \/ Capability \/ Defer \/ EndIsolate \/ Speculate \/ Commit
  BY <1>1, SimpleOnTime
<1>2. CASE Select \/ Foreign \/ Await \/ EndPeriodicEpoch BY <1>2, PayingOnTime
<1>3. CASE JumpIfNot \/ EndLease BY <1>3, JumpOnTime, EndLeaseOnTime
<1>4. CASE Call \/ Return BY <1>4, CallOnTime, ReturnOnTime
<1>5. CASE Loop \/ EndLoop \/ Break BY <1>5, LoopOnTime, EndLoopOnTime, BreakOnTime
<1>6. CASE Anchor \/ Rewind BY <1>6, AnchorOnTime, RewindOnTime
<1>7. CASE Isolate \/ Lease BY <1>7, IsolateOnTime, LeaseOnTime
<1>8. CASE EndSpeculate \/ Collapse BY <1>8, EndSpeculateOnTime, CollapseOnTime
<1> QED BY <1>1, <1>2, <1>3, <1>4, <1>5, <1>6, <1>7, <1>8 DEF Stepping

(* At the start nothing has been entered.                                 *)
LEMMA InitTime == Init => TimeInv
<1> SUFFICES ASSUME Init PROVE TimeInv
  OBVIOUS
<1> DEFINE c == prog["main"]
<1>1. /\ prog \in Programs /\ tl.code = "main" /\ tl.pc = 1 /\ tl.clock = 0 /\ tl.loops = <<>>
      /\ tl.flat = <<>> /\ tl.calls = <<>> /\ tl.regs.lease = None /\ tl.anchors = <<>>
      /\ tl.entered = <<>> /\ speculation_stack = <<>>
  BY DEF Init, Empty
<1>2. Built(c) BY <1>1, BuiltIs, ProgramAssumption
<1>3. DOMAIN <<>> = {} BY SMT
<1>4. \A ops : Around(c, 1, ops) = {}
  <2> SUFFICES ASSUME NEW ops, NEW h, h \in Around(c, 1, ops) PROVE FALSE
    OBVIOUS
  <2>1. h < 1 /\ h \in 1 .. Len(c)
    <3> HIDE DEF c
    <3> QED BY <1>2, AroundIs
  <2> QED BY <2>1, SMT
<1>5. ~At(c, 1 - 1, {"endFor"})
  <2>1. DOMAIN c = 1 .. Len(c) BY <1>2, LenIs DEF Built
  <2>2. 1 - 1 \notin 1 .. Len(c) BY SMT
  <2> QED BY <2>1, <2>2 DEF At
<1>6. Passed(<<>>, 0) BY <1>3 DEF Passed
<1>7. OnTime(prog, "main", 1, <<>>, <<>>, None, <<>>, 0)
  BY <1>3, <1>4, <1>6 DEF OnTime, LoopsTied, LeaseTied, FlatTied
<1>8. Punctual(prog, tl) /\ ContextsOnTime(prog, speculation_stack)
  BY <1>1, <1>3, <1>7 DEF Punctual, OnTimeHere, FramesOnTime, AnchorsOnTime, ContextsOnTime
<1>9. Awaited(prog, tl) BY <1>1, <1>5 DEF Awaited
<1> QED BY <1>8, <1>9 DEF TimeInv
-----------------------------------------------------------------------------

(* The instruction decides the action.                                     *)
LEMMA OpDecides ==
  ASSUME Next, status' = "running"
  PROVE  EndLoop \/ EndLease \/ Break \/ For \/ Instr.op \in Untimed
<1>1. \A op : Executes(op) => Instr.op = op BY DEF Executes
<1>2. Other \/ Clone \/ SetSaturationPolicy \/ Foreign \/ Jump \/ JumpIfNot \/ Select \/ Call \/ Return
        => Instr.op \in Untimed
  BY <1>1 DEF Other, Clone, SetSaturationPolicy, Foreign, Jump, JumpIfNot, Select, Call, Return, Untimed
<1>3. Loop \/ EndFor \/ Anchor \/ Rewind => Instr.op \in Untimed
  BY <1>1 DEF Loop, EndFor, Anchor, Rewind, Untimed
<1>4. Isolate \/ EndIsolate \/ Slice \/ Capability => Instr.op \in Untimed
  BY <1>1 DEF Isolate, EndIsolate, Slice, Capability, Untimed
<1>5. Defer \/ Await \/ Lease \/ EndPeriodicEpoch => Instr.op \in Untimed
  BY <1>1 DEF Defer, Await, Lease, EndPeriodicEpoch, Untimed
<1>6. Speculate \/ EndSpeculate \/ Collapse \/ Commit => Instr.op \in Untimed
  BY <1>1 DEF Speculate, EndSpeculate, Collapse, Commit, Untimed
<1>7. ~WatchdogBite /\ ~End /\ ~CannotPay BY DEF WatchdogBite, End, CannotPay
<1> QED BY <1>2, <1>3, <1>4, <1>5, <1>6, <1>7 DEF Next

(* What is known at a step that the run survives.                          *)
LEMMA NowTimely ==
  ASSUME ControlInv, StacksInv, TimeInv, Next, status' = "running", astray' = {}
  PROVE  Timely /\ prog' = prog
<1>1. prog' = prog /\ astray = {} /\ status = "running" BY StepKeeps
<1>2. Ran BY <1>1 DEF Ran, Ready, ControlInv, StacksInv
<1> QED BY <1>1, <1>2 DEF Timely, TimeInv

(* Every step keeps what is tied to the clock.                             *)
LEMMA NextTime == ControlInv /\ ControlInv' /\ StacksInv /\ TimeInv /\ [Next]_vars => TimeInv'
<1> SUFFICES ASSUME ControlInv, ControlInv', StacksInv, TimeInv, [Next]_vars PROVE TimeInv'
  OBVIOUS
<1>1. CASE UNCHANGED vars BY <1>1 DEF vars, TimeInv
<1>2. CASE Next
  <2> SUFFICES ASSUME status' = "running", astray' = {}
               PROVE  /\ Punctual(prog', tl') /\ ContextsOnTime(prog', speculation_stack')
                      /\ Awaited(prog', tl')
    BY DEF TimeInv
  <2>1. Timely /\ prog' = prog /\ Ran BY <1>2, NowTimely DEF Timely
  <2>2. Stepping \/ Jump \/ For \/ EndFor
    <3>1. ~WatchdogBite /\ ~End /\ ~CannotPay BY DEF WatchdogBite, End, CannotPay
    <3> QED BY <1>2, <3>1 DEF Next, Stepping
  <2>3. Punctual(prog, tl') /\ Awaited(prog, tl')
    <3>1. CASE Stepping
      <4>1. Punctual(prog, tl') BY <2>1, <3>1, SteppingOnTime
      <4>2. PICK stack : Fine(prog, tl', stack) BY <2>1, <3>1, SteppingFine
      <4>3. IsSeq((tl').flat) /\ Built(prog[(tl').code])
        <5>1. prog' \in Programs /\ Typed(prog', tl') BY DEF ControlInv
        <5>2. prog \in Programs /\ (tl').code \in DOMAIN prog /\ (tl').flat \in Seq(Iterations)
          BY <2>1, <5>1 DEF Typed, Placed, StacksTyped
        <5> QED BY <5>2, BuiltIs DEF IsSeq
      <4>4. Awaited(prog, tl') BY <4>2, <4>3, FineAwaits
      <4> QED BY <4>1, <4>4
    <3>2. CASE Jump BY <2>1, <3>2, JumpOnTime, JumpAwaits
    <3>3. CASE For BY <2>1, <3>3, ForOnTime, ForAwaits
    <3>4. CASE EndFor BY <2>1, <3>4, EndForOnTime
    <3> QED BY <2>2, <3>1, <3>2, <3>3, <3>4
  <2>4. ContextsOnTime(prog, speculation_stack')
    <3>1. CASE Speculate \/ Commit BY <2>1, <3>1, ContextsGoOn
    <3>2. CASE EndSpeculate \/ Collapse
      BY <2>1, <3>2, EndSpeculateOnTime, CollapseOnTime
    <3>3. CASE ~(Speculate \/ EndSpeculate \/ Collapse \/ Commit)
      <4>1. speculation_stack' = speculation_stack BY <1>2, <3>3, StackKept
      <4> QED BY <2>1, <4>1 DEF Timely
    <3> QED BY <3>1, <3>2, <3>3
  <2> QED BY <2>1, <2>3, <2>4
<1> QED BY <1>1, <1>2

(* Leases and bounded ticks take their time exactly, bounded loops at      *)
(* least theirs, also when a break leaves them, and the iterations of a    *)
(* paced loop are apart the pace and the millisecond or two that the       *)
(* padding does not count, what a throttle adds unpaid left out (EndLease, *)
(* EndLoop, EndLoopTick, For, EndFor, Vm::handle_break).                   *)
THEOREM TimeKept == Spec => BlocksKeepTime
<1> DEFINE Keeps ==
      status' = "running" /\ astray' = {} =>
        /\ Instr.op \in {"endLoop", "endWhile", "endTick", "endLease"} => Kept(Instr.head)
        /\ Instr.op = "break" => Kept(Innermost(Around(Code(tl), tl.pc, Opens)))
        /\ IteratesAgain => Instr.pace = None \/ Period \in Instr.pace + 1 .. Instr.pace + 2
<1>1. ControlInv /\ StacksInv /\ TimeInv /\ [Next]_vars => [Keeps]_vars
  <2> SUFFICES ASSUME ControlInv, StacksInv, TimeInv, Next, status' = "running", astray' = {}
               PROVE  /\ Instr.op \in {"endLoop", "endWhile", "endTick", "endLease"} => Kept(Instr.head)
                      /\ Instr.op = "break" => Kept(Innermost(Around(Code(tl), tl.pc, Opens)))
                      /\ PaceKept
    BY DEF PaceKept
  <2>1. Timely BY NowTimely
  <2>2. Instr.op # "for" => PaceKept BY DEF PaceKept, IteratesAgain
  <2>3. CASE EndLoop BY <2>1, <2>3, <2>2, EndLoopOnTime
  <2>4. CASE EndLease BY <2>1, <2>4, <2>2, EndLeaseOnTime
  <2>5. CASE Break
    <3>1. Instr.op = "break" BY <2>5 DEF Break, Executes
    <3> QED BY <2>1, <2>5, <2>2, <3>1, BreakOnTime
  <2>6. CASE For BY <2>1, <2>6, ForOnTime
  <2>7. CASE Instr.op \in Untimed BY <2>7, <2>2 DEF Untimed
  <2> QED BY <2>3, <2>4, <2>5, <2>6, <2>7, OpDecides
<1> HIDE DEF Keeps
<1>2. BlocksKeepTime <=> [][Keeps]_vars BY DEF BlocksKeepTime, Keeps
<1>3. Spec => []ControlInv BY Invariance
<1> QED BY <1>1, <1>2, <1>3, InitStacks, InitTime, NextStacks, NextTime, PTL DEF Spec
=============================================================================
