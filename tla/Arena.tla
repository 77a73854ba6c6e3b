-------------------------------- MODULE Arena --------------------------------
(* The memory of one timeline: Arena (causm-core value.rs) with its count   *)
(* of bytes in use, and what the TVM does to it: writing a register under a *)
(* saturation policy, consuming, decay, leases, epochs, and calls, which    *)
(* put the caller's registers aside.  Weights are the bytes of the code;    *)
(* a register holds a number, a structure of two numbers, or what is left.  *)
EXTENDS Integers, Sequences, SequencesExt

CONSTANTS Initial,    \* registers of a new arena (256 in the code)
          MaxRegs,    \* bound: registers a program uses
          Capacity,   \* bytes a timeline may use
          Policies,   \* what `policy on_full` may say; None: nothing
          MaxDepth,   \* max_call_depth
          MaxSteps    \* bound: instructions executed

ASSUME ArenaAssumption ==
  /\ {MaxRegs, Capacity, MaxDepth, MaxSteps} \subseteq Nat
  /\ Initial \in 1..MaxRegs
  /\ Policies \subseteq {"None", "FailFast", "EvictDecayed", "RingBuffer", "Throttle"}

VARIABLES arena,      \* registers, which of them have metadata, used, watermark
          calls,      \* the call frames, innermost last
          policy, status, steps,
          past        \* history: per frame, what calls took without lowering the
                      \* count, and the frames a reset or a decay has touched; what
                      \* the registers weighed at the last freeze, and in which frame

vars == <<arena, calls, policy, status, steps, past>>

-----------------------------------------------------------------------------
(* States of a register and their weights                                   *)

Fields == {"f", "g"}
Number == [state |-> "Valid", kind |-> "int"]
Text == [state |-> "Valid", kind |-> "text"]
Struct(fields) == [state |-> "Valid", kind |-> "struct", fields |-> fields]
Decayed(fields) == [state |-> "Decayed", kind |-> "left", fields |-> fields]
Consumed == [state |-> "Consumed", kind |-> "none"]
Leased(s) == [state |-> "Leased", kind |-> s.kind, original |-> s]
NewStruct == Struct([x \in Fields |-> "Valid"])

(* A field is a state of its own: a number, a decayed number, or consumed   *)
FieldWeight(x) == CASE x = "Valid" -> 8 + 16 [] x = "Decayed" -> 0 + 32 [] x = "Consumed" -> 8

FieldsWeight(fields) ==
  LET of(x) == IF x \in DOMAIN fields THEN FieldWeight(fields[x]) ELSE 0
  IN  of("f") + of("g")

OwnWeight(s) ==
  CASE s.state = "Consumed" -> 8
    [] s.state = "Decayed" -> FieldsWeight(s.fields) + 32
    [] s.kind = "int" -> 8 + 16
    [] s.kind = "text" -> 4 + 24 + 16
    [] s.kind = "struct" -> FieldsWeight(s.fields) + 48 + 16

Weight(s) == IF s.state = "Leased" THEN OwnWeight(s.original) + 24 ELSE OwnWeight(s)

DecayRecursive(s) ==
  CASE s.kind = "struct" ->
         Decayed([x \in DOMAIN s.fields |-> IF s.fields[x] = "Valid" THEN "Decayed" ELSE s.fields[x]])
    [] OTHER -> Decayed(<<>>)

(* peek: what a reader gets of a state that is not consumed.  What is left  *)
(* of a structure reads as a structure.                                     *)
Peek(s) == LET o == IF s.state = "Leased" THEN s.original ELSE s
           IN  IF o.state = "Decayed" THEN Struct(o.fields) ELSE o

-----------------------------------------------------------------------------
(* Operations of the arena.  Subtractions saturate.                         *)

Minus(a, b) == IF a > b THEN a - b ELSE 0
Regs(a) == DOMAIN a.regs

(* What the registers regs weigh together                                   *)
Weigh(regs) ==
  LET upto[n \in 0..Len(regs)] == IF n = 0 THEN 0 ELSE upto[n - 1] + Weight(regs[n])
  IN  upto[Len(regs)]
Total(a) == Weigh(a.regs)

NewArena == [regs |-> [r \in 1..Initial |-> Consumed], timed |-> {}, used |-> 0,
             baseUsed |-> 0, baseRegs |-> 0]

EnsureRegister(a, r) ==
  [a EXCEPT !.regs = @ \o [i \in 1..Minus(r, Len(@)) |-> Consumed]]

State(a, r) == IF r \in Regs(a) THEN a.regs[r] ELSE Consumed

Put(a, r, s) ==
  [a EXCEPT !.regs[r] = s, !.used = Minus(@, Weight(a.regs[r])) + Weight(s)]

\* mutant: only what is there already is compared with the capacity
FitsBefore(a, r, s) == Minus(a.used, Weight(State(a, r))) <= Capacity
Fits(a, r, s) == Minus(a.used, Weight(State(a, r))) + Weight(s) <= Capacity

(* insert: the arena, if the state fits; the old metadata is cleared        *)
Insert(a, r, s) == [Put(EnsureRegister(a, r), r, s) EXCEPT !.timed = @ \ {r}]

ConsumeReg(a, r) ==
  IF State(a, r).state = "Valid" THEN [Put(a, r, Consumed) EXCEPT !.timed = @ \ {r}]
  ELSE EnsureRegister(a, r)

(* register by register, and the subtraction saturates for each             *)
EvictDecayed(a) ==
  LET gone == {r \in Regs(a) : a.regs[r].state = "Decayed"}
      used[n \in 0..Len(a.regs)] ==
        IF n = 0 THEN a.used
        ELSE IF n \in gone THEN Minus(used[n - 1], Weight(a.regs[n])) + Weight(Consumed)
        ELSE used[n - 1]
  IN  [a EXCEPT !.regs = [r \in Regs(a) |-> IF r \in gone THEN Consumed ELSE a.regs[r]],
                !.timed = @ \ gone,
                !.used = used[Len(a.regs)]]

CompactConsumed(a) == [a EXCEPT !.used = Total(a)]

FreezeBaseWatermark(a) == [a EXCEPT !.baseUsed = a.used, !.baseRegs = Len(a.regs)]

ResetToBaseWatermark(a) ==
  [a EXCEPT !.regs = IF Len(@) > a.baseRegs THEN SubSeq(@, 1, a.baseRegs) ELSE @,
            !.timed = {r \in @ : r <= a.baseRegs},
            !.used = a.baseUsed]

(* insert_reg: what the policy makes of the arena before it tries again     *)
AfterSaturation(a, p) ==
  CASE p \in {"EvictDecayed", "Throttle"} -> EvictDecayed(a)
    [] p = "RingBuffer" -> ResetToBaseWatermark(a)
    [] OTHER -> a

Room(a, r, s) == IF Fits(a, r, s) THEN a ELSE AfterSaturation(a, policy)

-----------------------------------------------------------------------------

TypeOK ==
  /\ arena.used \in Nat /\ arena.timed \subseteq Regs(arena)
  /\ status \in {"running", "done", "fault"}
  /\ Len(past.leaked) = Len(calls) + 1
  /\ past.loose \union past.grown \subseteq 1..(Len(calls) + 1)

Init ==
  /\ arena = NewArena /\ calls = <<>> /\ policy \in Policies
  /\ status = "running" /\ steps = 0
  /\ past = [leaked |-> <<0>>, loose |-> {}, grown |-> {}, base |-> [frame |-> 0, sum |-> 0]]

Here == Len(calls) + 1      \* the number of the frame that runs

(* One more instruction, which leaves arena a.                              *)
Step(a) == /\ arena' = a /\ status' = "running" /\ steps' = steps + 1
Fault(a) == /\ arena' = a /\ status' = "fault" /\ steps' = steps + 1
Running == status = "running" /\ steps < MaxSteps
Frame == UNCHANGED <<calls, policy>>

(* loose marks a frame that an epoch reset has left with another weight than *)
(* the one frozen, or with the watermark of another frame                   *)
Mark(resets) ==
  past' = IF \E a \in resets :
               past.base # [frame |-> Here, sum |-> Total(ResetToBaseWatermark(a))]
          THEN [past EXCEPT !.loose = @ \union {Here}] ELSE past

(* The arena after r takes s (insert_reg): with room for it at once or after *)
(* the policy, or a fault.  timed: the register gets metadata.              *)
InsertReg(a, r, s, timed) ==
  LET b == Room(a, r, s)
  IN  IF Fits(b, r, s)
      THEN Step([Insert(b, r, s) EXCEPT !.timed = IF timed THEN @ \union {r} ELSE @])
      ELSE Fault(b)

Resets(a, r, s) == IF policy = "RingBuffer" /\ ~Fits(a, r, s) THEN {a} ELSE {}

(* A literal, a structure or a copy, some of types that decay               *)
Write(r, s, timed) ==
  /\ Running /\ InsertReg(arena, r, s, timed) /\ Mark(Resets(arena, r, s)) /\ Frame

(* consume_reg drops the error: only a valid register changes               *)
Consume(r) == /\ Running /\ Step(ConsumeReg(arena, r)) /\ UNCHANGED past /\ Frame

(* consume_field_reg drops the error too: a structure decays, what has no   *)
(* such field stays as it is                                                *)
ConsumeField(r, x) ==
  LET s == State(arena, r)
      has == s.kind \in {"struct", "left"} /\ s.state # "Leased" /\ x \in DOMAIN s.fields
  IN  /\ Running
      /\ Step(IF has THEN Put(arena, r, Decayed([s.fields EXCEPT ![x] = "Consumed"]))
              ELSE EnsureRegister(arena, r))
      /\ UNCHANGED past /\ Frame

(* A register whose time is over decays when it is read; nothing else       *)
(* brings it about.  The whole arena is counted again.                      *)
Decay(r) ==
  /\ Running /\ r \in arena.timed /\ arena.regs[r].state = "Valid"
  /\ Step(CompactConsumed([arena EXCEPT !.regs[r] = DecayRecursive(@)]))
  /\ past' = [past EXCEPT !.loose = @ \ {Here}, !.grown = @ \union {Here}] /\ Frame

(* update_field: the register is taken out first, and stays consumed when   *)
(* the new value does not fit                                               *)
UpdateField(r, x) ==
  LET s == State(arena, r)
      new == [s EXCEPT !.fields = [y \in DOMAIN @ \union {x} |-> IF y = x THEN "Valid" ELSE @[y]]]
  IN  /\ Running
      /\ IF s.state = "Leased" \/ s.kind \notin {"struct", "left"}
         THEN Fault(EnsureRegister(arena, r))
         ELSE IF Fits(arena, r, new) THEN Step(Put(arena, r, new))
         ELSE Fault([arena EXCEPT !.regs[r] = Consumed])
      /\ UNCHANGED past /\ Frame

(* The view gets a copy and its source is leased.  With metadata the plain  *)
(* insert is used, which knows no policy.                                   *)
Lease(view, r) ==
  LET s == State(arena, r)
      timed == r \in arena.timed
      a == IF timed THEN arena ELSE Room(arena, view, s)
      b == [Insert(a, view, s) EXCEPT !.timed = IF timed THEN @ \union {view} ELSE @]
  IN  /\ Running /\ view # r /\ Frame
      /\ IF s.state \in {"Leased", "Consumed"} THEN Fault(arena) /\ UNCHANGED past
         ELSE IF ~Fits(a, view, s)
         THEN Fault(a) /\ Mark(IF timed THEN {} ELSE Resets(arena, view, s))
         ELSE IF timed
         THEN /\ IF Fits(b, r, Leased(s))
                 THEN Step([Insert(b, r, Leased(s)) EXCEPT !.timed = @ \union {r}])
                 ELSE Fault(b)
              /\ UNCHANGED past
         ELSE /\ InsertReg(b, r, Leased(s), FALSE)
              /\ Mark(Resets(arena, view, s) \union Resets(b, r, Leased(s)))

EndLease(r) ==
  LET s == State(arena, r)
  IN  /\ Running /\ Frame
      /\ IF s.state # "Leased" THEN Fault(arena) /\ UNCHANGED past
         ELSE IF r \in arena.timed
         THEN /\ IF Fits(arena, r, s.original)
                 THEN Step([Insert(arena, r, s.original) EXCEPT !.timed = @ \union {r}])
                 ELSE Fault(arena)
              /\ UNCHANGED past
         ELSE /\ InsertReg(arena, r, s.original, FALSE)
              /\ Mark(Resets(arena, r, s.original))

(* PeriodicEpoch and FreezeBaseWatermark; EndPeriodicEpoch and              *)
(* ResetBaseWatermark                                                       *)
Freeze ==
  /\ Running /\ Step(FreezeBaseWatermark(arena)) /\ Frame
  /\ past' = [past EXCEPT !.base = [frame |-> IF Here \in past.loose THEN 0 ELSE Here,
                                      sum |-> Total(arena)]]
Reset == /\ Running /\ Step(ResetToBaseWatermark(arena)) /\ Mark({arena}) /\ Frame

-----------------------------------------------------------------------------
(* Calls, with one argument                                                 *)

Modes == {"Consume", "Lease", "Peek", "PeekInt"}   \* PeekInt: Peek of an integer type

(* The frame keeps the registers, the metadata and the count of the caller. *)
(* Consuming an argument does not lower the count.                          *)
CallFrame(a, mode, r, dest) ==
  [regs |-> IF mode = "Consume" THEN [a.regs EXCEPT ![r] = Consumed] ELSE a.regs,
   timed |-> a.timed, used |-> a.used, mode |-> mode, arg |-> r, dest |-> dest]

Callee(a) == [a EXCEPT !.regs = <<>>, !.timed = {}, !.used = 0]

Call(mode, r, dest) ==
  LET s == State(arena, r)
      inside == Callee(arena)
      argument == Peek(s)
  IN  /\ Running
      /\ IF s.state = "Consumed" \/ Len(calls) >= MaxDepth
         THEN Fault(arena) /\ UNCHANGED <<calls, past>>
         ELSE /\ calls' = Append(calls, CallFrame(arena, mode, r, dest))
              /\ past' = [past EXCEPT !.leaked = Append([@ EXCEPT ![Here] =
                   past.leaked[Here] + IF mode = "Consume" THEN Weight(s) - 8 ELSE 0], 0)]
              /\ IF Fits(inside, 1, argument)
                 THEN Step([Insert(inside, 1, argument) EXCEPT
                              !.timed = IF r \in arena.timed THEN {1} ELSE {}])
                 ELSE Fault(inside)
      /\ UNCHANGED policy

\* mutant: the caller goes on with the callee's count
RestoredUncounted(a, f) == [a EXCEPT !.regs = f.regs, !.timed = f.timed]
Restored(a, f) == [a EXCEPT !.regs = f.regs, !.timed = f.timed, !.used = f.used]

(* What the callee made of its argument, when it goes back: all of it for a *)
(* lease or an integer, a structure when both sides still hold one.         *)
GoesBack(f, child) ==
  /\ child # <<>>
  /\ \/ f.mode \in {"Lease", "PeekInt"}
     \/ /\ f.mode = "Peek" /\ f.arg \in DOMAIN f.regs
        /\ \A s \in {child[1], f.regs[f.arg]} : s.state = "Valid" /\ s.kind = "struct"

(* The metadata goes with it, or for a structure stays                      *)
BackTimed(f, timed) ==
  (f.mode = "Peek" /\ f.arg \in f.timed) \/ (f.mode # "Peek" /\ 1 \in timed)

(* get_payload: a consumed register returns Null, as heavy as a number;     *)
(* r = 0: the routine returns nothing, which is the text "void"             *)
Returned(a, r) ==
  IF r = 0 THEN Text ELSE LET s == State(a, r) IN IF s.state = "Consumed" THEN Number ELSE Peek(s)

(* The insertions of a return know no policy                                *)
Return(r) ==
  LET f == Last(calls)
      out == Restored(arena, f)
      child == arena.regs
      goes == GoesBack(f, child)
      back == IF goes THEN [Insert(out, f.arg, child[1]) EXCEPT
                              !.timed = IF BackTimed(f, arena.timed) THEN @ \union {f.arg} ELSE @]
              ELSE out
      result == Returned(arena, r)
  IN  /\ Running /\ calls # <<>>
      /\ IF goes /\ ~Fits(out, f.arg, child[1]) THEN Fault(out)
         ELSE IF ~Fits(back, f.dest, result) THEN Fault(back)
         ELSE Step([Insert(back, f.dest, result) EXCEPT
                      !.timed = IF r \in arena.timed THEN @ \union {f.dest} ELSE @])
      /\ calls' = Front(calls) /\ UNCHANGED policy
      /\ past' = [past EXCEPT !.leaked = Front(@), !.loose = @ \ {Here}, !.grown = @ \ {Here},
                              !.base.frame = IF @ = Here THEN 0 ELSE @]

(* Returning from the program itself writes its first register and ends it  *)
RootReturn(r) ==
  LET result == Returned(arena, r)
  IN  /\ Running /\ calls = <<>>
      /\ arena' = IF Fits(arena, 1, result) THEN Insert(arena, 1, result) ELSE arena
      /\ status' = IF Fits(arena, 1, result) THEN "done" ELSE "fault"
      /\ steps' = steps + 1 /\ UNCHANGED past /\ Frame

Next ==
  \/ \E r \in 1..MaxRegs :
       \/ \E s \in {Number, NewStruct}, timed \in BOOLEAN : Write(r, s, timed)
       \/ Consume(r) \/ Decay(r) \/ EndLease(r)
       \/ \E x \in Fields : ConsumeField(r, x) \/ UpdateField(r, x)
       \/ \E view \in 1..MaxRegs : Lease(view, r)
       \/ \E mode \in Modes, dest \in 1..MaxRegs : Call(mode, r, dest)
  \/ \E r \in 0..MaxRegs : Return(r) \/ RootReturn(r)
  \/ Freeze \/ Reset

Spec == Init /\ [][Next]_vars

-----------------------------------------------------------------------------
(* Properties                                                               *)

Frames == 1..Here
Count(i) == IF i = Here THEN arena.used ELSE calls[i].used
Registers(i) == IF i = Here THEN arena.regs ELSE calls[i].regs
Sum(i) == Weigh(Registers(i))
Live(i) == Sum(i) - 8 * Len(Registers(i))

(* The count of bytes in use is true: as long as no epoch was reset below   *)
(* what a frame holds, it covers all the frame holds beyond the markers of  *)
(* consumed registers, and it never exceeds what all its registers weigh by *)
(* more than the arguments its calls consumed.  Calls, leases and decay,    *)
(* each with its own way of counting, all keep to it.                       *)
CountIsTrue ==
  status # "fault" =>
    \A i \in Frames :
      i \notin past.loose => Live(i) <= Count(i) /\ Count(i) <= Sum(i) + past.leaked[i]

(* What a frame holds fits the capacity, in every frame, once for each of   *)
(* them: a return or a write that would not fit is refused, as long as      *)
(* neither a reset nor a decay has let the frame grow past its count.       *)
LiveWithinCapacity ==
  \A i \in Frames : i \notin past.loose \union past.grown => Live(i) <= Capacity
=============================================================================
