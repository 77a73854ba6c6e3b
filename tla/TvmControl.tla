----------------------------- MODULE TvmControl -----------------------------
(* The TVM running one timeline: the program counter, loops and break,     *)
(* routine calls, speculation, anchors and rewind, and the two things a    *)
(* program spends, its clock and its cpu budget.  Every step is one turn   *)
(* of the loop in Vm::execute_program: the cycle watchdog, the cost of the *)
(* instruction, the handler, and handle_break.  Registers are abstracted   *)
(* to what the handlers of this module decide on; conditions and           *)
(* collections are nondeterministic, and so is whether a write finds the   *)
(* arena full: what a full arena does to the clock is here, what it does   *)
(* to the registers is in Arena.  Program counters count from 1.           *)
EXTENDS Integers, SequencesExt, BreakScan

CONSTANTS Programs,      \* each routine -> sequence of instructions
          Elements,      \* lengths of the collections that loops iterate
          Unbounded,     \* bound: stands for u64::MAX
          MaxCycles,     \* bound: stands for max_cycles_watchdog
          MaxCallDepth   \* bound: stands for max_call_depth

ASSUME ControlAssumption ==
  /\ Elements \subseteq Nat
  /\ {Unbounded, MaxCycles, MaxCallDepth} \subseteq Nat

None == -1

Counters == Nat \ {0}
OrNone(S) == S \cup {None}

(* what the lowering puts in an instruction: times in milliseconds, program *)
(* counters, and the routine that is called                                *)
WellFormed(p, i) ==
  /\ i.op \in {"loop", "while", "select", "lease", "slice", "defer", "endEpoch", "clone"} => i.ms \in Nat
  /\ i.op = "defer" => i.latency \in Nat
  /\ i.op \in {"jump", "jumpIfNot"} => i.to \in Counters
  /\ i.op = "select" => i.cases \subseteq Counters /\ i.timeout \in OrNone(Counters)
  /\ i.op = "speculate" => i.fallback \in Counters
  /\ i.op = "call" => i.routine \in DOMAIN p /\ i.budget \in OrNone(Nat)
  /\ i.op = "foreign" => i.ms \in Nat /\ i.args \in Nat
  /\ i.op = "for" => i.pace \in OrNone(Nat) /\ i.max \in OrNone(Nat)
  /\ i.op = "isolate" => {i.cpu, i.slice, i.uses} \subseteq OrNone(Nat)

ASSUME ProgramAssumption ==
  \A p \in Programs :
    /\ "main" \in DOMAIN p
    /\ \A r \in DOMAIN p : p[r] \in Seq(Range(p[r])) /\ \A i \in Range(p[r]) : WellFormed(p, i)

VARIABLES prog,          \* the program that runs
          tl,            \* root_timeline
          speculation_stack, speculative_commit_mode,
          status,        \* "running", "done" or the error the run ended with
          astray         \* history: the ways in which steps have moved the
                         \* counter and left the stacks, or the reverse

vars == <<prog, tl, speculation_stack, speculative_commit_mode, status, astray>>

(* more: what the last For wrote in its condition; promise: the promise a  *)
(* register holds; lease: when the lease on it expires                     *)
Empty == [more |-> FALSE, promise |-> <<>>, lease |-> None]

(* policies: what is done when a register finds the arena full.  Two       *)
(* histories: unpaid, the milliseconds full arenas have put on the clock   *)
(* and not on the budget; entered, when the block begun at a place in the  *)
(* code was last entered, and the milliseconds it was given                *)
Init ==
  /\ prog \in Programs
  /\ tl = [code |-> "main", pc |-> 1, clock |-> 0, budget |-> Unbounded, cycles |-> 0,
           slice |-> None, manifests |-> 0, uses |-> None, depth |-> 0, loops |-> <<>>,
           flat |-> <<>>, calls |-> <<>>, regs |-> Empty, anchors |-> <<>>, policies |-> <<>>,
           unpaid |-> 0, entered |-> <<>>]
  /\ speculation_stack = <<>>
  /\ speculative_commit_mode \in {"Selective", "Full"}
  /\ status = "running" /\ astray = {}

Code(t) == prog[t.code]
Instr == Code(tl)[tl.pc]

-----------------------------------------------------------------------------
(* Outcomes: a timeline and the error its handler returns, if any          *)

Ok(t) == [t |-> t, err |-> "running"]
Error(t, e) == [t |-> t, err |-> e]

PaidLater(t, ms) == Ok([t EXCEPT !.clock = @ + ms])              \* mutant

(* local_clock += ms; consume_budget(ms)                                   *)
Paid(t, ms) ==
  IF t.budget < ms THEN Error([t EXCEPT !.clock = @ + ms], "BudgetExhausted")
  ELSE Ok([t EXCEPT !.clock = @ + ms, !.budget = @ - ms])

Then(out, F(_)) == IF out.err = "running" THEN Ok(F(out.t)) ELSE out

(* insert_reg on a full arena: the policy for OnFull, or else the one for  *)
(* OnOverflow, decides.  Throttle moves the clock and leaves the budget.   *)
Governing(t) ==
  CASE "OnFull" \in DOMAIN t.policies -> t.policies["OnFull"]
    [] "OnFull" \notin DOMAIN t.policies /\ "OnOverflow" \in DOMAIN t.policies
         -> t.policies["OnOverflow"]
    [] OTHER -> "FailFast"
Throttles(t) == Governing(t) = "Throttle"
Throttled(t, k) == [t EXCEPT !.clock = @ + 10 * k, !.unpaid = @ + 10 * k]

(* the outcomes of n registers written by insert_reg: some of the writes   *)
(* may find the arena full, and the last may not fit even so               *)
Written(out, n) ==
  IF out.err # "running" THEN {out}
  ELSE LET late == IF Throttles(out.t) THEN 0..n ELSE {0}
       IN {Ok(Throttled(out.t, k)) : k \in late}
            \cup {Error(Throttled(out.t, k), "MemoryFault") : k \in late}

(* a register written straight into the arena: it fits or the run ends     *)
Inserted(out) ==
  IF out.err # "running" THEN {out} ELSE {out, Error(out.t, "MemoryFault")}

(* the timeline once the instruction is paid for and fetched               *)
Fetched == [tl EXCEPT !.cycles = @ + 1, !.pc = @ + 1, !.clock = @ + 1, !.budget = @ - 1]

Executes(op) ==
  /\ status = "running" /\ tl.cycles < MaxCycles
  /\ tl.pc <= Len(Code(tl)) /\ tl.budget > 0
  /\ Instr.op = op

Becomes(out) == tl' = out.t /\ status' = out.err

Spec_ == <<speculation_stack, speculative_commit_mode>>
Only(out) == Becomes(out) /\ UNCHANGED <<prog, Spec_, astray>>

Strays(way) == astray' = astray \cup way

(* f with v at k                                                           *)
Bind(f, k, v) == [x \in DOMAIN f \cup {k} |-> IF x = k THEN v ELSE f[x]]

Enter(t, ms) ==
  [t EXCEPT !.entered = Bind(@, <<tl.code, tl.pc>>,
                             [clock |-> t.clock, ms |-> ms, unpaid |-> t.unpaid])]

-----------------------------------------------------------------------------
(* What the loop of execute_program does besides running instructions      *)

WatchdogBite ==
  /\ status = "running" /\ tl.cycles >= MaxCycles
  /\ tl' = [tl EXCEPT !.cycles = @ + 1] /\ status' = "WatchdogBite"
  /\ UNCHANGED <<prog, Spec_, astray>>

End ==
  /\ status = "running" /\ tl.cycles < MaxCycles /\ tl.pc > Len(Code(tl))
  /\ tl' = [tl EXCEPT !.cycles = @ + 1] /\ status' = "done"
  /\ UNCHANGED <<prog, Spec_, astray>>

CannotPay ==
  /\ status = "running" /\ tl.cycles < MaxCycles
  /\ tl.pc <= Len(Code(tl)) /\ tl.budget = 0
  /\ tl' = [tl EXCEPT !.cycles = @ + 1, !.clock = @ + 1] /\ status' = "BudgetExhausted"
  /\ UNCHANGED <<prog, Spec_, astray>>

-----------------------------------------------------------------------------
(* Jumps and calls: handlers/control_flow.rs                               *)

(* an instruction that writes at most one register, which nothing modelled *)
(* here depends on                                                         *)
Other == Executes("other") /\ \E out \in Written(Ok(Fetched), 1) : Only(out)

(* a copy takes of the budget what its size costs, and no time             *)
Clone ==
  /\ Executes("clone")
  /\ IF Fetched.budget < Instr.ms THEN Only(Error(Fetched, "BudgetExhausted"))
     ELSE \E out \in Inserted(Ok([Fetched EXCEPT !.budget = @ - Instr.ms])) : Only(out)

SetSaturationPolicy ==
  /\ Executes("policy")
  /\ Only(Ok([Fetched EXCEPT !.policies = Bind(@, Instr.target, Instr.policy)]))

(* a foreign routine: what it changed in its arguments, the time it is     *)
(* declared to take, its result                                            *)
Foreign ==
  /\ Executes("foreign")
  /\ \E back \in Written(Ok(Fetched), Instr.args) :
       LET took == IF back.err = "running" THEN Paid(back.t, Instr.ms) ELSE back
       IN \E out \in Written(took, 1) : Only(out)

Jump == Executes("jump") /\ Only(Ok([Fetched EXCEPT !.pc = Instr.to]))

JumpIfNot ==
  /\ Executes("jumpIfNot")
  /\ \E cond \in IF Instr.cond = "more" THEN {tl.regs.more} ELSE BOOLEAN :
       Only(Ok(IF cond THEN Fetched ELSE [Fetched EXCEPT !.pc = Instr.to]))

(* whatever case is ready, the time is paid; with no case ready and no     *)
(* timeout block the run falls into the first case                         *)
Select ==
  /\ Executes("select")
  /\ LET paid == Paid(Fetched, Instr.ms)
         goes(out, to) == Only(Then(out, LAMBDA t : [t EXCEPT !.pc = to]))
     IN \/ \E to \in Instr.cases : \E out \in Written(paid, 1) : goes(out, to)
        \/ goes(paid, IF Instr.timeout = None THEN tl.pc + 1 ELSE Instr.timeout)

Frame(t) == [code |-> t.code, pc |-> t.pc, depth |-> t.depth, loops |-> t.loops,
             flat |-> t.flat, regs |-> t.regs, manifests |-> t.manifests,
             entered |-> t.entered, start |-> t.clock, budget |-> Instr.budget]

Call ==
  /\ Executes("call")
  /\ IF Len(tl.calls) >= MaxCallDepth THEN Only(Error(Fetched, "EvalError"))
     ELSE LET called == [Fetched EXCEPT !.calls = Append(@, Frame(Fetched)), !.code = Instr.routine,
                           !.pc = 1, !.depth = 0, !.loops = <<>>, !.flat = <<>>,
                           !.regs = Empty, !.entered = <<>>]
          IN \E out \in Inserted(Ok(called)) : Only(out)

ReturnKeepingLoops(t, f) ==                                      \* mutant
  [t EXCEPT !.calls = Front(@), !.code = f.code, !.pc = f.pc, !.depth = f.depth,
            !.regs = f.regs, !.manifests = f.manifests, !.entered = f.entered]

Returned(t, f) ==
  [t EXCEPT !.calls = Front(@), !.code = f.code, !.pc = f.pc, !.depth = f.depth,
            !.loops = f.loops, !.flat = f.flat, !.regs = f.regs,
            !.manifests = f.manifests, !.entered = f.entered]

TooLong(t, f) == LET elapsed == Monus(t.clock, f.start)
                 IN f.budget # None /\ (IF elapsed = 0 THEN 1 ELSE elapsed) > f.budget

-----------------------------------------------------------------------------
(* Loops: handlers/loops.rs                                                *)

Loop ==
  \/ /\ \E op \in {"loop", "while"} : Executes(op)
     /\ Only(Ok(Enter([Fetched EXCEPT !.depth = @ + 1,
              !.loops = Append(@, [start |-> Fetched.clock, limit |-> Instr.ms])], Instr.ms)))
  \/ /\ Executes("tick")
     /\ IF tl.slice = None THEN Only(Error(Fetched, "TickLoopWithoutSlice"))
        ELSE Only(Ok(Enter([Fetched EXCEPT !.depth = @ + 1,
               !.loops = Append(@, [start |-> Fetched.clock, limit |-> tl.slice])], tl.slice)))

Shallower(t) == [t EXCEPT !.depth = Monus(@, 1)]

(* The outcomes of EndLoop, EndWhile and EndLoopTick.  A rewind may leave  *)
(* a loop that began later than the clock now shows: the subtraction       *)
(* panics in a debug build and wraps in a release build.                   *)
LoopLeft(t, kind) ==
  IF t.loops = <<>> THEN {Error(t, "EvalError")}
  ELSE LET u == [t EXCEPT !.loops = Front(@)]
           limit == Last(t.loops).limit
           elapsed == t.clock - Last(t.loops).start
       IN CASE elapsed < 0 ->
                 {Error(u, "panic"),
                  IF kind = "endTick" THEN Error(u, "WatchdogBite") ELSE Ok(Shallower(u))}
            [] elapsed >= 0 /\ elapsed < limit /\ limit # Unbounded ->
                 {Then(Paid(u, limit - elapsed), Shallower)}
            [] elapsed > limit /\ kind = "endTick" -> {Error(u, "WatchdogBite")}
            [] OTHER -> {Ok(Shallower(u))}

EndLoop ==
  \E op \in {"endLoop", "endWhile", "endTick"} :
    Executes(op) /\ \E out \in LoopLeft(Fetched, op) : Only(out)

OnTop(t) == t.flat # <<>> /\ Last(t.flat).head = tl.pc

(* for and for .. step: the loop on top is this one when its header is     *)
(* run again, a new one when it is reached from outside.  The pace and the *)
(* limit are then those on the stack.                                      *)
Iterating(n) ==
  IF OnTop(Fetched) THEN Fetched
  ELSE [Fetched EXCEPT !.depth = @ + 1,
          !.flat = Append(@, [head |-> tl.pc, left |-> n, start |-> Fetched.clock,
                              iter |-> Fetched.clock, pace |-> Instr.pace, max |-> Instr.max])]

(* a loop that began later than the clock now shows, in a release build:   *)
(* what has passed wraps to more than any limit, and nothing is padded     *)
ForLeft(t) ==
  LET elapsed == t.clock - Last(t.flat).start
      pad == IF Instr.max = None \/ elapsed < 0 THEN 0 ELSE Monus(Instr.max, elapsed)
  IN Then(Paid([Shallower(t) EXCEPT !.flat = Front(@)], pad),
          LAMBDA u : [u EXCEPT !.regs.more = FALSE])

(* the item is written before the iteration begins, the condition after    *)
Iteration(t) ==
  Enter([t EXCEPT !.flat[Len(t.flat)].iter = t.clock, !.regs.more = TRUE],
        IF Instr.pace = None THEN 0 ELSE Instr.pace)
ForNext(t) == UNION {Written(Then(item, Iteration), 1) : item \in Written(Ok(t), 1)}

For ==
  /\ Executes("for")
  /\ \E n \in IF OnTop(Fetched) THEN {0} ELSE Elements :
       LET t == Iterating(n)
           top == Last(t.flat)
           elapsed == t.clock - top.start
       IN \/ elapsed < 0 /\ Only(Error(t, "panic"))
          \/ \E out \in IF top.left > 0 /\ (top.max = None \/ elapsed \in 0..top.max - 1)
                       THEN ForNext(t) ELSE Written(ForLeft(t), 2) : Only(out)

(* one millisecond of the padding is left to the jump back                 *)
Paced(t) ==
  LET pace == Last(t.flat).pace
      cost == t.clock - Last(t.flat).iter
      next(u) == [u EXCEPT !.flat[Len(u.flat)].left = Monus(@, 1)]
      late == {Error(t, "PacingViolation")}
  IN CASE cost < 0 -> {Error(t, "panic")} \cup IF pace = None THEN {Ok(next(t))} ELSE late
       [] cost >= 0 /\ pace = None -> {Ok(next(t))}
       [] cost >= 0 /\ pace # None /\ cost > pace -> late
       [] OTHER -> {Then(Paid(t, Monus(pace - cost, 1)), next)}

EndFor ==
  /\ Executes("endFor")
  /\ IF tl.flat = <<>> THEN Only(Error(Fetched, "EvalError"))
     ELSE \E out \in Paced(Fetched) : Only(out)

-----------------------------------------------------------------------------
(* break: Vm::handle_break scans for the end of the loop by counting       *)

(* EndLoop lowers loop_depth once more after the scan has                  *)
Broken(t) ==
  LET code == Code(t)
      stops == Stops(code, t.pc, t.depth)
      d == Depths(code, t.pc, t.depth)
  IN IF stops = {} THEN {Ok([t EXCEPT !.pc = Len(code) + 1, !.depth = d[Len(code) + 1]])}
     ELSE LET i == CHOOSE i \in stops : \A j \in stops : i <= j
              out(u) == [u EXCEPT !.pc = After(code, i)]
          IN IF code[i].op = "endFor"
             THEN {Ok(out([t EXCEPT !.depth = Monus(t.depth, 1),
                             !.flat = IF @ = <<>> THEN @ ELSE Front(@)]))}
             ELSE {Then(o, out) : o \in LoopLeft([t EXCEPT !.depth = Monus(d[i], 1)], code[i].op)}

-----------------------------------------------------------------------------
(* The blocks of a program.  The end of a block names its head; for every  *)
(* routine this gives the heads of the blocks around each instruction.     *)

Ends(code) == {e \in DOMAIN code : "head" \in DOMAIN code[e]}
Within(code, pc) == {e \in Ends(code) : code[e].head < pc /\ pc <= e}
Around(code, pc, ops) == {code[e].head : e \in {e \in Within(code, pc) : code[code[e].head].op \in ops}}
Innermost(heads) == CHOOSE h \in heads : \A k \in heads : k <= h
Count(t, ops) == Cardinality(Around(Code(t), t.pc, ops))
At(code, pc, ops) == pc \in DOMAIN code /\ code[pc].op \in ops

(* the blocks around the counter and around the calls that wait, each by   *)
(* its level and its head                                                  *)
Standing(t, ops) ==
  LET level == [k \in 1..Len(t.calls) + 1 |-> IF k <= Len(t.calls) THEN <<t.calls[k].code, t.calls[k].pc>>
                                              ELSE <<t.code, t.pc>>]
  IN  UNION {{k} \X Around(prog[level[k][1]], level[k][2], ops) : k \in DOMAIN level}

BeginEnd == {<<"loop", "endLoop">>, <<"while", "endWhile">>, <<"tick", "endTick">>,
             <<"for", "endFor">>, <<"speculate", "endSpeculate">>, <<"isolate", "endIsolate">>,
             <<"lease", "endLease">>}
Begins == {pair[1] : pair \in BeginEnd}

(* every block has one end, and blocks are one in the other or apart       *)
Nests(code) ==
  /\ \A e \in DOMAIN code : e \in Ends(code) <=> code[e].op \in {pair[2] : pair \in BeginEnd}
  /\ \A e \in Ends(code) :
       /\ code[e].head \in DOMAIN code /\ code[e].head < e
       /\ <<code[code[e].head].op, code[e].op>> \in BeginEnd
  /\ \A h \in DOMAIN code : code[h].op \in Begins => \E e \in Ends(code) : code[e].head = h
  /\ \A e, f \in Ends(code) :
       code[e].head <= code[f].head => e < code[f].head \/ f <= e

Targets(i) == CASE i.op \in {"jump", "jumpIfNot"} -> {i.to}
                [] i.op = "select" -> i.cases \cup ({i.timeout} \ {None})
                [] OTHER -> {}
Lands(code, to) == ~At(code, to - 1, {"for", "endFor"})

(* no jump enters or leaves a block, but for the test that follows the     *)
(* header of a for loop                                                    *)
Jumps(code) ==
  \A pc \in DOMAIN code :
    /\ \A to \in Targets(code[pc]) :
         /\ Lands(code, to)
         /\ Within(code, to) = IF At(code, pc - 1, {"for"})
                               THEN {e \in Within(code, pc) : code[e].head # pc - 1}
                               ELSE Within(code, pc)
    /\ code[pc].op = "speculate" =>
         Lands(code, code[pc].fallback) /\ Within(code, code[pc].fallback) = Within(code, pc)
    /\ code[pc].op = "for" => At(code, pc + 1, {"jumpIfNot"}) /\ code[pc + 1].cond = "more"
    /\ code[pc].op = "endFor" => At(code, pc + 1, {"jump"}) /\ code[pc + 1].to = code[pc].head

ASSUME StructureAssumption ==
  \A p \in Programs : \A r \in DOMAIN p : Nests(p[r]) /\ Jumps(p[r])

(* between the header of a for loop and the test of what it wrote, and on  *)
(* the way back to it, the loop is begun or left already                   *)
Settled(t) == ~At(Code(t), t.pc, {"for"}) /\ Lands(Code(t), t.pc)

Break ==
  /\ Executes("break")
  /\ \E out \in Broken(Fetched) : Becomes(out)
  /\ LET loop == Around(Code(tl), tl.pc, Opens)
         blocks == Around(Code(tl), tl.pc, {"speculate", "isolate", "lease"})
     IN Strays(IF tl.depth # Count(tl, Opens) \/ loop = {}
                  \/ \E h \in blocks : h > Innermost(loop) THEN {"break"} ELSE {})
  /\ UNCHANGED <<prog, Spec_>>

SpeculatesHere == Around(Code(tl), tl.pc, {"speculate"}) # {}

(* taking the frame back comes before the contract is looked at            *)
Return ==
  /\ Executes("return")
  /\ \E out \in Inserted(
         IF tl.calls = <<>> THEN Ok([Fetched EXCEPT !.pc = Len(Code(tl)) + 1])
         ELSE LET f == Last(tl.calls)
              IN IF TooLong(Fetched, f) THEN Error(Returned(Fetched, f), "EvalError")
                 ELSE Ok(Returned(Fetched, f))) : Becomes(out)
  /\ Strays(IF tl.calls = <<>> \/ SpeculatesHere THEN {"return"} ELSE {})
  /\ UNCHANGED <<prog, Spec_>>

-----------------------------------------------------------------------------
(* Speculation: handlers/speculation.rs.  The limit of the block is not    *)
(* looked at.                                                              *)

Speculate ==
  /\ Executes("speculate")
  /\ Becomes(Ok(Fetched))
  /\ speculation_stack' = Append(speculation_stack,
       [start |-> Fetched, fallback |-> Instr.fallback, committed |-> FALSE])
  /\ UNCHANGED <<prog, speculative_commit_mode, astray>>

(* a block that has not committed gives back everything but where it is    *)
EndSpeculate ==
  /\ Executes("endSpeculate")
  /\ IF speculation_stack = <<>>
     THEN Becomes(Error(Fetched, "EvalError")) /\ UNCHANGED Spec_
     ELSE LET c == Last(speculation_stack) IN
          /\ Becomes(Ok(IF c.committed \/ speculative_commit_mode = "Full" THEN Fetched
                        ELSE [c.start EXCEPT !.pc = Fetched.pc, !.code = tl.code,
                                             !.depth = tl.depth]))
          /\ speculation_stack' = Front(speculation_stack)
          /\ UNCHANGED speculative_commit_mode
  /\ UNCHANGED <<prog, astray>>

(* the instructions stay those that collapsed, the rest is that of the block *)
Collapse ==
  /\ Executes("collapse")
  /\ IF speculation_stack = <<>>
     THEN Becomes(Error(Fetched, "EvalError")) /\ UNCHANGED <<Spec_, astray>>
     ELSE LET c == Last(speculation_stack) IN
          /\ Becomes(Ok([c.start EXCEPT !.code = tl.code, !.pc = c.fallback]))
          /\ speculation_stack' = Front(speculation_stack)
          /\ Strays(IF SpeculatesHere THEN {} ELSE {"collapse"})
          /\ UNCHANGED speculative_commit_mode
  /\ UNCHANGED prog

(* a commit marks the block; the anchors set before it stay               *)
Commit ==
  /\ Executes("commit")
  /\ Becomes(Ok(Fetched))
  /\ speculation_stack' = IF speculation_stack = <<>> THEN <<>>
       ELSE [speculation_stack EXCEPT ![Len(speculation_stack)].committed = TRUE]
  /\ UNCHANGED <<prog, speculative_commit_mode, astray>>

-----------------------------------------------------------------------------
(* Anchors: handlers/entropic.rs                                           *)

(* the calls and the stacks are a history: the code does not keep them     *)
Stacks(t) == <<t.loops, t.flat, t.depth, t.manifests, speculation_stack>>

Anchor ==
  /\ Executes("anchor")
  /\ LET t == Fetched
         point == [clock |-> t.clock, regs |-> t.regs, budget |-> t.budget, uses |-> t.uses,
                   pc |-> t.pc, code |-> t.code, unpaid |-> t.unpaid, entered |-> t.entered,
                   calls |-> t.calls, stacks |-> Stacks(t)]
     IN Only(Ok([t EXCEPT !.anchors = Bind(@, Instr.name, point)]))

RewindTheWatchdog(t, p) ==                                       \* mutant
  [t EXCEPT !.clock = p.clock, !.budget = p.budget, !.uses = p.uses, !.regs = p.regs,
            !.pc = p.pc, !.code = p.code, !.unpaid = p.unpaid, !.entered = p.entered, !.cycles = 0]

(* the loops, the calls, the manifests, the policies and the speculations  *)
(* stay                                                                    *)
Rewound(t, p) ==
  [t EXCEPT !.clock = p.clock, !.budget = p.budget, !.uses = p.uses, !.regs = p.regs,
            !.pc = p.pc, !.code = p.code, !.unpaid = p.unpaid, !.entered = p.entered]

Rewind ==
  /\ Executes("rewind")
  /\ IF Instr.name \notin DOMAIN tl.anchors
     THEN Becomes(Error(Fetched, "AnchorNotFound")) /\ UNCHANGED astray
     ELSE LET p == tl.anchors[Instr.name] IN
          /\ Becomes(Ok(Rewound(Fetched, p)))
          /\ Strays((IF p.calls # tl.calls THEN {"calls"} ELSE {})
                     \cup (IF p.stacks # Stacks(tl) THEN {"rewind"} ELSE {}))
  /\ UNCHANGED <<prog, Spec_>>

-----------------------------------------------------------------------------
(* Budgets and time: handlers/temporal.rs, _execute_capability             *)

IsolateTopUp ==                                                  \* mutant
  /\ Executes("isolate")
  /\ Only(Ok(Enter([Fetched EXCEPT !.manifests = @ + 1,
            !.uses = IF Instr.uses = None THEN @ ELSE Instr.uses,
            !.budget = IF Instr.cpu = None THEN @ ELSE Unbounded,
            !.slice = IF Instr.slice = None THEN @ ELSE Instr.slice],
            IF Instr.cpu = None THEN Fetched.budget ELSE Instr.cpu)))

(* the manifest and the uses are in place before the cpu is refused, the   *)
(* slice only after                                                        *)
Isolate ==
  /\ Executes("isolate")
  /\ LET t == [Fetched EXCEPT !.manifests = @ + 1,
                 !.uses = IF Instr.uses = None THEN @ ELSE Instr.uses]
     IN IF Instr.cpu # None /\ Instr.cpu > t.budget THEN Only(Error(t, "BudgetExhausted"))
        ELSE LET u == [t EXCEPT !.budget = IF Instr.cpu = None THEN @ ELSE Instr.cpu,
                              !.slice = IF Instr.slice = None THEN @ ELSE Instr.slice]
             IN Only(Ok(Enter(u, u.budget)))

(* the manifest goes; what the isolate was given or took stays             *)
EndIsolate == Executes("endIsolate") /\ Only(Ok([Fetched EXCEPT !.manifests = Monus(@, 1)]))

Slice == Executes("slice") /\ Only(Ok([Fetched EXCEPT !.slice = Instr.ms]))

(* one use is spent before the host answers                                *)
Capability ==
  /\ Executes("capability")
  /\ \/ tl.uses = 0 /\ Only(Error(Fetched, "CapabilityViolation"))
     \/ /\ tl.uses # 0
        /\ LET t == [Fetched EXCEPT !.uses = IF @ = None THEN @ ELSE @ - 1]
           IN Only(Ok(t)) \/ Only(Error(t, "CapabilityViolation"))

Defer ==
  /\ Executes("defer")
  /\ LET now == Fetched.clock
         deferred == [Fetched EXCEPT !.regs.promise =
                        <<[ready |-> now + Instr.latency, deadline |-> now + Instr.ms]>>]
     IN \E out \in Written(Ok(deferred), 1) : Only(out)

(* the wait is paid for even when the answer is due after the deadline     *)
Await ==
  /\ Executes("await")
  /\ IF tl.regs.promise = <<>> THEN Only(Error(Fetched, "EvalError"))
     ELSE LET p == Head(tl.regs.promise)
              waited == Paid(Fetched, Monus(p.ready, Fetched.clock))
              settled(t) == [t EXCEPT !.regs.promise = <<>>]
              asked(t) == [settled(t) EXCEPT !.uses = IF @ > 0 THEN @ - 1 ELSE @]
          IN IF waited.err = "running" /\ waited.t.clock > p.deadline
             THEN \E out \in Inserted(Then(waited, settled)) : Only(out)
             ELSE \E out \in Written(Then(waited, asked), 1) : Only(out)

Lease ==
  /\ Executes("lease")
  /\ IF tl.regs.lease # None THEN Only(Error(Fetched, "LeaseViolation"))
     ELSE LET leased == Enter([Fetched EXCEPT !.regs.lease = Fetched.clock + Instr.ms], Instr.ms)
          IN \E out \in Written(Ok(leased), 2) : Only(out)

EndLease ==
  /\ Executes("endLease")
  /\ IF tl.regs.lease = None \/ Fetched.clock > tl.regs.lease
     THEN Only(Error(Fetched, "LeaseViolation"))
     ELSE LET ended == Then(Paid(Fetched, tl.regs.lease - Fetched.clock),
                            LAMBDA t : [t EXCEPT !.regs.lease = None])
          IN \E out \in Written(ended, 1) : Only(out)

(* the end of an @every block: the clock, not what the block took          *)
EndPeriodicEpoch ==
  /\ Executes("endEpoch")
  /\ Only(Paid(Fetched, Monus(Instr.ms, Fetched.clock)))

Next ==
  \/ WatchdogBite \/ End \/ CannotPay
  \/ Other \/ Clone \/ SetSaturationPolicy \/ Foreign \/ Jump \/ JumpIfNot \/ Select \/ Call \/ Return
  \/ Loop \/ EndLoop \/ For \/ EndFor \/ Break
  \/ Speculate \/ EndSpeculate \/ Collapse \/ Commit
  \/ Anchor \/ Rewind
  \/ Isolate \/ EndIsolate \/ Slice \/ Capability
  \/ Defer \/ Await \/ Lease \/ EndLease \/ EndPeriodicEpoch

(* execute_program runs until the program ends or fails                    *)
Spec == Init /\ [][Next]_vars /\ WF_vars(Next)

-----------------------------------------------------------------------------
(* Properties                                                              *)

Ways == {"break", "return", "collapse", "calls", "rewind"}

Errors == {"EvalError", "BudgetExhausted", "WatchdogBite", "TickLoopWithoutSlice",
           "PacingViolation", "CapabilityViolation", "LeaseViolation", "AnchorNotFound",
           "MemoryFault", "panic"}

(* Every field of the timeline has its type, and the program counter is    *)
(* inside its routine or just past it.                                     *)
TypeOK ==
  /\ prog \in Programs
  /\ status \in {"running", "done"} \cup Errors
  /\ speculative_commit_mode \in {"Selective", "Full"} /\ astray \subseteq Ways
  /\ tl.code \in DOMAIN prog /\ tl.pc \in Nat \ {0}
  /\ {tl.clock, tl.budget, tl.cycles, tl.depth, tl.manifests, tl.unpaid} \subseteq Nat
  /\ tl.budget <= Unbounded /\ tl.cycles <= MaxCycles + 1 /\ Len(tl.calls) <= MaxCallDepth
  /\ {tl.slice, tl.uses, tl.regs.lease} \subseteq Nat \cup {None}
  /\ \A l \in Range(tl.loops) : l.start \in Nat /\ l.limit \in Nat
  /\ \A l \in Range(tl.flat) : l.left \in Nat /\ l.start \in Nat /\ l.iter \in Nat
  /\ \A c \in Range(speculation_stack) : c.committed \in BOOLEAN /\ c.fallback \in Nat

(* The stacks the handlers keep at run time are the blocks the program     *)
(* counter is in: every loop, speculation and isolate entered and not left *)
(* has its entry, and nothing else has.  Breaks, returns, rollbacks and    *)
(* rewinds move the counter and the stacks each in their own way; the      *)
(* steps after which they are known to disagree are those of astray.       *)
StacksFollowTheProgram ==
  astray = {} /\ status = "running" /\ Settled(tl) =>
    /\ Len(tl.loops) = Count(tl, {"loop", "while", "tick"})
    /\ {tl.flat[i].head : i \in DOMAIN tl.flat} = Around(Code(tl), tl.pc, {"for"})
    /\ \A i, j \in DOMAIN tl.flat : i < j => tl.flat[i].head < tl.flat[j].head
    /\ Len(speculation_stack) = Cardinality(Standing(tl, {"speculate"}))
    /\ tl.manifests = Cardinality(Standing(tl, {"isolate"}))

(* An isolate that is given cpu milliseconds is never found running later  *)
(* than those after it was entered, not counting what full arenas have put *)
(* on the clock since, whatever padding, calls, nested isolates, collapses *)
(* and rewinds happen inside it, until a rewind leaves the calls it is     *)
(* made in: their frames keep isolates that were entered on a budget the   *)
(* rewind has undone.                                                      *)
IsolateWithinBudget ==
  "calls" \notin astray /\ status = "running" =>
    \A h \in Around(Code(tl), tl.pc, {"isolate"}) :
      LET block == <<tl.code, h>>
      IN block \in DOMAIN tl.entered =>
           tl.clock - tl.entered[block].clock
             <= tl.entered[block].ms + (tl.unpaid - tl.entered[block].unpaid)


GoesBack == {"rewind", "collapse", "endSpeculate"}

(* The clock never advances without the budget paying for it, unless the   *)
(* step goes back in time or ends the run, or registers are written to a   *)
(* full arena under a policy that throttles.                               *)
TimeIsPaid ==
  [][status' = "running" /\ Instr.op \notin GoesBack
       => LET late == tl'.unpaid - tl.unpaid
          IN tl'.clock - tl.clock <= (tl.budget - tl'.budget) + late
             /\ (late = 0 \/ Throttles(tl))]_vars

(* the time a block took, without what the writes of the step that ends    *)
(* it add                                                                  *)
Kept(h) ==
  LET block == tl.entered[<<tl.code, h>>]
      took == tl'.clock - block.clock - (tl'.unpaid - tl.unpaid)
      ms == block.ms
      kind == Code(tl)[h].op
  IN CASE kind = "lease" -> took = ms
       [] kind = "tick" -> ms = Unbounded \/ took = ms
       [] kind \in {"loop", "while"} -> ms = Unbounded \/ took >= ms
       [] OTHER -> TRUE

(* from the start of an iteration to the start of the next, without what   *)
(* writing the item adds                                                   *)
Period ==
  LET b == <<tl.code, tl.pc>>
  IN tl'.entered[b].clock - tl.entered[b].clock - (tl'.entered[b].unpaid - tl.unpaid)

IteratesAgain == Instr.op = "for" /\ OnTop(tl) /\ tl'.regs.more

(* A lease takes its duration and a bounded tick its slice exactly, a      *)
(* bounded loop at least its limit, also when a break leaves them, and the *)
(* iterations of a paced loop start one or two milliseconds more than the  *)
(* pace apart, however calls, nested loops, speculation and full arenas    *)
(* inside moved the clock.                                                 *)
BlocksKeepTime ==
  [][status' = "running" /\ astray' = {} =>
       /\ Instr.op \in {"endLoop", "endWhile", "endTick", "endLease"} => Kept(Instr.head)
       /\ Instr.op = "break" => Kept(Innermost(Around(Code(tl), tl.pc, Opens)))
       /\ IteratesAgain => Instr.pace = None \/ Period \in Instr.pace + 1 .. Instr.pace + 2]_vars

(* What the documentation says of a paced loop: an iteration takes exactly *)
(* the pace.                                                               *)
PacedExactly ==
  [][status' = "running" /\ astray' = {} =>
       (IteratesAgain => Instr.pace = None \/ Period = Instr.pace)]_vars

(* Every run ends: the watchdog counts cycles that no rewind gives back,   *)
(* and rollbacks give back less than they cost.                            *)
EveryRunEnds == <>(status # "running")

=============================================================================
