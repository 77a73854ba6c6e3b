--------------------------- MODULE TvmControl_inv ---------------------------
(* What is invariant in TvmControl, and what steps do to it: the           *)
(* definitions that the proofs in TvmControl_proofs are about.  ControlInv *)
(* is of types and budgets, StacksInv of the stacks and the blocks of the  *)
(* program, TimeInv of the blocks and the clock.                           *)
EXTENDS TvmControl

-----------------------------------------------------------------------------
(* Types and budgets                                                       *)

Fields == {"code", "pc", "clock", "budget", "cycles", "slice", "manifests", "uses", "depth",
           "loops", "flat", "calls", "regs", "anchors", "policies", "unpaid", "entered"}
Loops == [start : Int, limit : Int]
Iterations == [head : Int, left : Int, start : Int, iter : Int, pace : Int, max : Int]
Registers == [more : BOOLEAN, promise : Seq([ready : Int, deadline : Int]), lease : Int]
IsSeq(s) == \E S : s \in Seq(S)
Placed(p, x) == x.code \in DOMAIN p /\ x.pc \in Counters /\ x.regs \in Registers
StacksTyped(x) == x.loops \in Seq(Loops) /\ x.flat \in Seq(Iterations)

(* what the types of a timeline, its frames and its anchors have to be     *)
Framed(p, calls) ==
  IsSeq(calls) /\ \A i \in DOMAIN calls : Placed(p, calls[i]) /\ StacksTyped(calls[i])
Anchored(p, anchors) ==
  \A n \in DOMAIN anchors :
    /\ Placed(p, anchors[n]) /\ anchors[n].clock \in Int /\ anchors[n].budget \in Nat
    /\ anchors[n].unpaid \in Nat
Timed(t) == t.clock \in Int /\ t.budget \in Nat /\ t.slice \in Int /\ t.unpaid \in Nat
Typed(p, t) ==
  /\ DOMAIN t = Fields
  /\ Timed(t) /\ Placed(p, t) /\ StacksTyped(t) /\ Framed(p, t.calls) /\ Anchored(p, t.anchors)

(* the last moment the budget reaches, full arenas aside                   *)
Horizon(t) == t.clock + t.budget - t.unpaid

(* every isolate in a history of entered blocks was given that long        *)
Lasting(p, entered, until) ==
  \A b \in DOMAIN entered :
    p[b[1]][b[2]].op = "isolate" =>
      /\ entered[b].clock \in Int /\ entered[b].ms \in Int /\ entered[b].unpaid \in Int
      /\ until <= entered[b].clock + entered[b].ms - entered[b].unpaid
FramesLast(p, calls, until) == \A i \in DOMAIN calls : Lasting(p, calls[i].entered, until)
AnchorsLast(p, anchors) ==
  \A n \in DOMAIN anchors :
    /\ Lasting(p, anchors[n].entered, Horizon(anchors[n]))
    /\ FramesLast(p, anchors[n].calls, Horizon(anchors[n]))
Bounded(p, t) ==
  /\ Lasting(p, t.entered, Horizon(t)) /\ FramesLast(p, t.calls, Horizon(t))
  /\ AnchorsLast(p, t.anchors)
Contexts(p, stack) ==
  /\ IsSeq(stack)
  /\ \A i \in DOMAIN stack :
       /\ DOMAIN stack[i] = {"start", "fallback", "committed"}
       /\ Typed(p, stack[i].start) /\ stack[i].fallback \in Counters
ContextsLast(p, stack) == \A i \in DOMAIN stack : Bounded(p, stack[i].start)
ControlInv ==
  status = "running" =>
    /\ prog \in Programs /\ Typed(prog, tl) /\ Contexts(prog, speculation_stack)
    /\ "calls" \notin astray => Bounded(prog, tl) /\ ContextsLast(prog, speculation_stack)

(* a step from s to t that gives no isolate more time                      *)
Affords(p, s, t) ==
  Typed(p, t) /\ Horizon(t) <= Horizon(s) /\ (Bounded(p, s) => Bounded(p, t))

(* only writes that throttle go unpaid                                     *)
Owes(s, t) == t.unpaid = s.unpaid \/ Throttles(s)
Spends(p, s, t) == Affords(p, s, t) /\ Owes(s, t) /\ t.policies = s.policies

(* The changes that leave calls, anchors and entered blocks alone.         *)
Alike(p, s, u) ==
  /\ DOMAIN u = Fields /\ Timed(u) /\ Placed(p, u) /\ StacksTyped(u)
  /\ u.calls = s.calls /\ u.anchors = s.anchors /\ u.entered = s.entered
  /\ u.policies = s.policies /\ u.unpaid = s.unpaid
  /\ Horizon(u) <= Horizon(s)

(* Writing registers: nothing changes but the clock, and only a full arena *)
(* under a policy that throttles changes that.                             *)
Delayed(u, v) ==
  /\ DOMAIN v = Fields /\ \A f \in Fields \ {"clock", "unpaid"} : v[f] = u[f]
  /\ \E d \in Nat : v.clock = u.clock + d /\ v.unpaid = u.unpaid + d
  /\ Owes(u, v)
Ready == status = "running" /\ prog \in Programs /\ Typed(prog, tl)

(* A change of anything but time, calls, anchors and entered blocks.       *)
Beside(s, u) ==
  /\ DOMAIN u = Fields /\ u.clock = s.clock /\ u.budget = s.budget /\ u.code = s.code
  /\ u.calls = s.calls /\ u.anchors = s.anchors /\ u.entered = s.entered
  /\ u.policies = s.policies /\ u.unpaid = s.unpaid
  /\ u.slice \in Int /\ u.pc \in Counters /\ u.regs \in Registers /\ StacksTyped(u)
BackInTime == EndSpeculate \/ Collapse \/ Rewind

(* The bounds of a state in which no rewind has left its calls.            *)
AllBounded(t, stack) == Bounded(prog, t) /\ ContextsLast(prog, stack)

(* What a step leaves of the invariant.                                    *)
Leaves ==
  /\ Typed(prog, tl') /\ Contexts(prog, speculation_stack')
  /\ "calls" \notin astray' /\ AllBounded(tl, speculation_stack) => AllBounded(tl', speculation_stack')
-----------------------------------------------------------------------------
(* The stacks and the blocks                                               *)

Limited == {"loop", "while", "tick"}
Iterates == {"for"}
Speculates == {"speculate"}
Isolates == {"isolate"}
Leases == {"lease"}
Counted(n, S) == IsFiniteSet(S) /\ Cardinality(S) = n

(* blocks around the calls that wait, and around the counter, each by its  *)
(* level and its head                                                      *)
Waiting(p, calls, n, ops) ==
  UNION {{k} \X Around(p[calls[k].code], calls[k].pc, ops) : k \in 1 .. n}
Open(p, calls, n, code, pc, ops) ==
  Waiting(p, calls, n, ops) \cup ({n + 1} \X Around(p[code], pc, ops))
Heads(flat) == {flat[i].head : i \in DOMAIN flat}
Ordered(flat) == \A i, j \in DOMAIN flat : i < j => flat[i].head < flat[j].head

(* a context is that of a block of some level, the latest on top           *)
Mark(c) == <<Len(c.start.calls) + 1, c.start.pc - 1>>
Below(a, b) == a[1] < b[1] \/ (a[1] = b[1] /\ a[2] < b[2])
Matches(p, calls, n, code, c) ==
  LET m == Len(c.start.calls)
  IN  /\ m <= n /\ \A k \in 1 .. m : calls[k] = c.start.calls[k]
      /\ c.start.code = IF m = n THEN code ELSE calls[m + 1].code
      /\ c.fallback = p[c.start.code][c.start.pc - 1].fallback
Speculated(p, calls, n, code, pc, stack) ==
  /\ Counted(Len(stack), Open(p, calls, n, code, pc, Speculates))
  /\ {Mark(stack[i]) : i \in DOMAIN stack} = Open(p, calls, n, code, pc, Speculates)
  /\ \A i, j \in DOMAIN stack : i < j => Below(Mark(stack[i]), Mark(stack[j]))
  /\ \A i \in DOMAIN stack : Matches(p, calls, n, code, stack[i])

(* what is kept of a moment between blocks: a frame, a context, an anchor  *)
Tallied(p, calls, n, code, pc, loops, manifests) ==
  /\ Counted(Len(loops), Around(p[code], pc, Limited))
  /\ Counted(manifests, Open(p, calls, n, code, pc, Isolates))
Held(p, calls, n, code, pc, loops, flat, manifests) ==
  /\ Tallied(p, calls, n, code, pc, loops, manifests)
  /\ Ordered(flat) /\ Heads(flat) = Around(p[code], pc, Iterates)
  /\ Lands(p[code], pc)
HeldHere(p, x) == Held(p, x.calls, Len(x.calls), x.code, x.pc, x.loops, x.flat, x.manifests)
HeldFrames(p, calls) ==
  \A k \in DOMAIN calls :
    LET f == calls[k]
    IN Held(p, calls, k - 1, f.code, f.pc, f.loops, f.flat, f.manifests)
HeldAnchors(p, anchors) ==
  \A n \in DOMAIN anchors :
    LET a == anchors[n]
    IN /\ Held(p, a.calls, Len(a.calls), a.code, a.pc, a.stacks[1], a.stacks[2], a.stacks[4])
       /\ Speculated(p, a.calls, Len(a.calls), a.code, a.pc, a.stacks[5])
HeldContexts(p, stack) ==
  \A i \in DOMAIN stack :
    HeldHere(p, stack[i].start) /\ HeldAnchors(p, stack[i].start.anchors)

(* a for loop has its entry from the header on; the test leaves it, or not *)
Fors(code, pc, more) ==
  LET A == Around(code, pc, Iterates)
  IN IF At(code, pc - 1, {"for"}) THEN {IF more THEN A ELSE A \ {pc - 1}}
     ELSE IF At(code, pc - 1, {"endFor"}) THEN {A \cup {code[pc - 1].head}}
     ELSE IF At(code, pc, {"for"}) THEN {A, A \cup {pc}} ELSE {A}
Current(p, t) ==
  /\ Tallied(p, t.calls, Len(t.calls), t.code, t.pc, t.loops, t.manifests)
  /\ Ordered(t.flat) /\ Heads(t.flat) \in Fors(p[t.code], t.pc, t.regs.more)

(* what goes with the stacks: speculations, frames, anchors and contexts   *)
Alongside(p, t, stack) ==
  /\ Speculated(p, t.calls, Len(t.calls), t.code, t.pc, stack)
  /\ HeldFrames(p, t.calls) /\ HeldAnchors(p, t.anchors) /\ HeldContexts(p, stack)
Stacked(p, t, stack) == Current(p, t) /\ Alongside(p, t, stack)
StacksInv == status = "running" /\ astray = {} => Stacked(prog, tl, speculation_stack)

(* a routine as the lowering leaves it                                     *)
Built(c) == IsSeq(c) /\ Nests(c) /\ Jumps(c)
EndOps == {pair[2] : pair \in BeginEnd}

(* One more, one less.                                                     *)
Gains(A, B, x) == x \notin B /\ A = B \cup {x}
Loses(A, B, x) == x \in B /\ A = B \ {x}

(* a context of the speculation that begins at h of this level             *)
Begun(p, calls, n, code, h, c) ==
  /\ Len(c.start.calls) = n /\ \A k \in 1 .. n : calls[k] = c.start.calls[k]
  /\ c.start.code = code /\ c.start.pc = h + 1 /\ c.fallback = p[code][h].fallback
OnTopIs(p, calls, n, code, h, stack) ==
  /\ stack # <<>> /\ Len(stack) \in DOMAIN stack /\ Last(stack) = stack[Len(stack)]
  /\ Mark(Last(stack)) = <<n + 1, h>> /\ Begun(p, calls, n, code, h, Last(stack))
Sized(c) == Len(c.start.calls) \in Nat /\ c.start.pc \in Int
Measured(stack) == \A i \in DOMAIN stack : Sized(stack[i])
Highest(h, S) == h \in S /\ \A k \in S : k <= h

(* in the same blocks, and not inside the steps of a for loop              *)
SameBlocks(c, to, pc) ==
  /\ Lands(c, to)
  /\ Around(c, to, Limited) = Around(c, pc, Limited)
  /\ Around(c, to, Iterates) = Around(c, pc, Iterates)
  /\ Around(c, to, Speculates) = Around(c, pc, Speculates)
  /\ Around(c, to, Isolates) = Around(c, pc, Isolates)
Plain(op) == op \notin Begins \cup EndOps
Calm(op) == op \notin {"jump", "jumpIfNot", "for"}
Fine(p, t, stack) == HeldHere(p, t) /\ Alongside(p, t, stack)
Carries(s, u) ==
  /\ u.calls = s.calls /\ u.code = s.code /\ u.loops = s.loops /\ u.flat = s.flat
  /\ u.manifests = s.manifests /\ u.anchors = s.anchors
Ran == Ready /\ Contexts(prog, speculation_stack) /\ Stacked(prog, tl, speculation_stack)

(* what a handler that has paid does to the registers it answers in        *)
Answers(u, v) == \/ v = u \/ \E x : v = [u EXCEPT !.regs.promise = x]
                 \/ \E x, y : v = [[u EXCEPT !.regs.promise = x] EXCEPT !.uses = y]
                 \/ \E x : v = [u EXCEPT !.regs.lease = x]
Depth(c, i) == Cardinality(Around(c, i, Opens))
Scanned(code, from, depth, d) ==
  d = [i \in from..Len(code) + 1 |->
        IF i = from THEN depth
        ELSE IF code[i - 1].op \in Opens THEN d[i - 1] + 1
        ELSE IF code[i - 1].op \in Closes THEN Monus(d[i - 1], 1)
        ELSE d[i - 1]]

(* e ends the loop that h begins, the innermost around the break at pc     *)
Left(c, pc, h, e) ==
  /\ e \in Ends(c) /\ c[e].head = h /\ h \in DOMAIN c /\ c[h].op \in Opens /\ c[e].op \in Closes
  /\ h < pc /\ pc < e /\ e <= Len(c) /\ h \in Int /\ pc \in Int /\ e \in Int
  /\ Highest(h, Around(c, pc, Opens))

(* Steps that leave the speculations alone.                                *)
Steady ==
  \/ Other \/ Clone \/ SetSaturationPolicy \/ Foreign \/ Jump \/ JumpIfNot \/ Select \/ Call \/ Return
  \/ Loop \/ EndLoop \/ For \/ EndFor \/ Break \/ Anchor \/ Rewind
  \/ Isolate \/ EndIsolate \/ Slice \/ Capability
  \/ Defer \/ Await \/ Lease \/ EndLease \/ EndPeriodicEpoch
-----------------------------------------------------------------------------
(* The blocks and the clock                                                *)

(* how many blocks of S are begun once h is                                *)
Rank(h, S) == Cardinality({g \in S : g <= h})

(* the stacks and the registers say of the blocks around the counter what  *)
(* the history of entered blocks does                                      *)
LoopsTied(entered, code, S, loops) ==
  \A h \in S : /\ <<code, h>> \in DOMAIN entered
               /\ entered[<<code, h>>].clock = loops[Rank(h, S)].start
               /\ entered[<<code, h>>].ms = loops[Rank(h, S)].limit
LeaseTied(entered, code, S, due) ==
  \A h \in S : /\ S = {h} /\ <<code, h>> \in DOMAIN entered
               /\ entered[<<code, h>>].clock \in Nat /\ entered[<<code, h>>].ms \in Nat
               /\ due = entered[<<code, h>>].clock + entered[<<code, h>>].ms
FlatTied(entered, p, code, flat) ==
  \A i \in DOMAIN flat : /\ <<code, flat[i].head>> \in DOMAIN entered
                         /\ entered[<<code, flat[i].head>>].clock = flat[i].iter
                         /\ flat[i].pace = p[code][flat[i].head].pace
Passed(loops, clock) ==
  clock \in Nat /\ \A i \in DOMAIN loops : loops[i].start \in Int /\ loops[i].start <= clock

(* what is kept of a moment                                                *)
OnTime(p, code, pc, loops, flat, due, entered, clock) ==
  /\ Passed(loops, clock)
  /\ LoopsTied(entered, code, Around(p[code], pc, Limited), loops)
  /\ LeaseTied(entered, code, Around(p[code], pc, Leases), due)
  /\ FlatTied(entered, p, code, flat)
OnTimeHere(p, x) == OnTime(p, x.code, x.pc, x.loops, x.flat, x.regs.lease, x.entered, x.clock)
FramesOnTime(p, calls, clock) ==
  \A k \in DOMAIN calls :
    LET f == calls[k]
    IN OnTime(p, f.code, f.pc, f.loops, f.flat, f.regs.lease, f.entered, f.start) /\ f.start <= clock
AnchorsOnTime(p, anchors) ==
  \A n \in DOMAIN anchors :
    LET a == anchors[n]
    IN /\ OnTime(p, a.code, a.pc, a.stacks[1], a.stacks[2], a.regs.lease, a.entered, a.clock)
       /\ FramesOnTime(p, a.calls, a.clock)
Punctual(p, t) ==
  OnTimeHere(p, t) /\ FramesOnTime(p, t.calls, t.clock) /\ AnchorsOnTime(p, t.anchors)
ContextsOnTime(p, stack) == \A i \in DOMAIN stack : Punctual(p, stack[i].start)

(* on the way back to the header of a paced loop the pace has passed, and  *)
(* no more than a millisecond since                                        *)
Elapsed(i, clock) == i.iter + i.pace <= clock /\ clock <= i.iter + i.pace + 1
Awaited(p, t) ==
  LET c == p[t.code]
      i == Last(t.flat)
  IN t.flat # <<>> /\ i.pace # None =>
       /\ At(c, t.pc - 1, {"endFor"}) => Elapsed(i, t.clock + 1)
       /\ At(c, t.pc, {"for"}) /\ i.head = t.pc => Elapsed(i, t.clock)
TimeInv ==
  status = "running" /\ astray = {} =>
    Punctual(prog, tl) /\ ContextsOnTime(prog, speculation_stack) /\ Awaited(prog, tl)

(* a block that begins after those of S                                    *)
Later(x, S) == S \subseteq Int /\ x \in Int /\ \A k \in S : k < x

(* v is written at b, the rest stays                                       *)
Writes(later, entered, b, v) ==
  /\ b \in DOMAIN later /\ later[b] = v
  /\ \A y \in DOMAIN entered : y # b => y \in DOMAIN later /\ later[y] = entered[y]

(* the clock may have gone on, what is tied to it stays                    *)
Goes(s, u) ==
  /\ u.code = s.code /\ u.calls = s.calls /\ u.anchors = s.anchors /\ u.loops = s.loops
  /\ u.flat = s.flat /\ u.entered = s.entered /\ u.regs.lease = s.regs.lease
  /\ u.clock \in Nat /\ s.clock <= u.clock
Quiet(c, to, pc) ==
  /\ Around(c, to, Limited) = Around(c, pc, Limited)
  /\ Around(c, to, Leases) = Around(c, pc, Leases)
Timely == Ran /\ Punctual(prog, tl) /\ ContextsOnTime(prog, speculation_stack) /\ Awaited(prog, tl)

(* A write to a register other than that of a lease, or to a budget.       *)
Sets(s, u) ==
  \/ u = s
  \/ \E x : u = [s EXCEPT !.slice = x]
  \/ \E x : u = [s EXCEPT !.budget = x]
  \/ \E x : u = [s EXCEPT !.policies = x]
  \/ \E x : u = [s EXCEPT !.uses = x]
  \/ \E x : u = [s EXCEPT !.manifests = x]
  \/ \E x : u = [s EXCEPT !.pc = x]
  \/ \E x : u = [s EXCEPT !.regs.promise = x]
  \/ \E x, y : u = [[s EXCEPT !.regs.promise = x] EXCEPT !.uses = y]

(* Instructions that write little, and those that pay first.               *)
Bounds == {"loop", "while", "tick", "lease", "endLoop", "endWhile", "endTick", "endLease"}

(* A block that commits keeps the moment, one that does not goes back to   *)
(* that of its beginning.                                                  *)
Restored(s, u) ==
  \/ \E pc : u = [s EXCEPT !.pc = pc, !.code = tl.code, !.depth = tl.depth]
  \/ \E pc : u = [s EXCEPT !.code = tl.code, !.pc = pc]

(* the counter may be put elsewhere, what counts for the blocks stays      *)
Puts(s, u, to) ==
  /\ u.code = s.code /\ u.calls = s.calls /\ u.anchors = s.anchors /\ u.loops = s.loops
  /\ u.flat = s.flat /\ u.entered = s.entered /\ u.regs = s.regs /\ u.clock = s.clock
  /\ u.unpaid = s.unpaid /\ u.pc = to

(* What a turn leaves that begins an iteration: the item is written first, *)
(* the condition last.                                                     *)
Turned(u, t) ==
  /\ u.code = t.code /\ u.calls = t.calls /\ u.anchors = t.anchors /\ u.loops = t.loops
  /\ u.pc = t.pc /\ u.regs.lease = t.regs.lease /\ u.clock \in Nat
  /\ \E d \in Nat :
       /\ t.clock + d <= u.clock
       /\ u.flat = [t.flat EXCEPT ![Len(t.flat)].iter = t.clock + d]
       /\ \E v : /\ v.clock = t.clock + d /\ v.unpaid = t.unpaid + d
                 /\ Writes(u.entered, t.entered, <<tl.code, tl.pc>>, v)

(* What a turn leaves that ends the loop.                                  *)
Finished(u, t) ==
  /\ u.code = t.code /\ u.calls = t.calls /\ u.anchors = t.anchors /\ u.loops = t.loops
  /\ u.pc = t.pc /\ u.regs.lease = t.regs.lease /\ u.clock \in Nat /\ t.clock <= u.clock
  /\ u.flat = Front(t.flat) /\ u.entered = t.entered /\ u.regs.more = FALSE

(* the next iteration of a loop comes just after its pace                  *)
PaceKept == IteratesAgain => Instr.pace = None \/ Period \in Instr.pace + 1 .. Instr.pace + 2

(* steps to the start of a statement                                       *)
Stepping ==
  \/ Other \/ Clone \/ JumpIfNot \/ Select \/ Call \/ Return
  \/ Loop \/ EndLoop \/ Break \/ Anchor \/ Rewind
  \/ Isolate \/ EndIsolate \/ Slice \/ Capability
  \/ Defer \/ Await \/ Lease \/ EndLease \/ EndPeriodicEpoch
  \/ Speculate \/ EndSpeculate \/ Collapse \/ Commit
  \/ SetSaturationPolicy \/ Foreign

(* The instructions that begin or end no block that is given time.         *)
Untimed == {"other", "clone", "policy", "foreign", "jump", "jumpIfNot", "select", "call", "return",
            "loop", "while", "tick", "endFor", "anchor", "rewind", "isolate", "endIsolate", "slice", "capability", "defer", "await", "lease",
            "endEpoch", "speculate", "endSpeculate", "collapse", "commit"}

=============================================================================
