------------------------------ MODULE Machine -------------------------------
(* What flat code does on the TVM, for the instructions the optimiser has   *)
(* to get right: registers, output, jumps, loops, speculation, leases and   *)
(* channels.  A value is a number: an integer below 1000, False and True,   *)
(* Array(n), a leased value, or Gone for a consumed one.  Of time there is  *)
(* the tick of every instruction and the end of a lease; a lease that is    *)
(* given back too late, a LeaseViolation, is kept in late and goes on.      *)
EXTENDS BreakScan, FiniteSets, TLC

True == 1001
False == 1000
IsBool(v) == v \in {True, False}
Bool(p) == IF p THEN True ELSE False
Array(n) == 2000 + n
Gone == -1
Leased(v) == v + 5000
IsLeased(v) == v >= 5000
Held(v) == IF IsLeased(v) THEN v - 5000 ELSE v

(* evaluate_binary_operation, as a set: empty when it is an error          *)
Evaluated(f, l, r) ==
  CASE f = "eq" -> {Bool(l = r)}
    [] f \in {"add", "lt"} -> IF IsBool(l) \/ IsBool(r) THEN {}
                              ELSE {IF f = "add" THEN l + r ELSE Bool(l < r)}

Start(inputs, regs, fuel) ==
  [pc |-> 1, regs |-> inputs @@ [r \in regs |-> Gone], out |-> <<>>, open |-> {}, loops |-> <<>>,
   depth |-> 0, speculation |-> <<>>, clock |-> 0, due |-> <<>>, late |-> 0,
   status |-> "running", fuel |-> fuel]

Larger(n, m) == IF n < m THEN m ELSE n

Fault(m) == [m EXCEPT !.status = "fault"]
Put(m, r, v) == [m EXCEPT !.regs[r] = v]

(* peek_reg: a consumed register cannot be read                            *)
Peeked(m, r, Next(_)) == IF m.regs[r] = Gone THEN Fault(m) ELSE Next(Held(m.regs[r]))

Taken(m, r) == IF m.regs[r] = Gone \/ IsLeased(m.regs[r]) THEN Fault(m) ELSE Put(m, r, Gone)

Snapshot(m, fallback) ==
  [regs |-> m.regs, loops |-> m.loops, depth |-> m.depth, open |-> m.open,
   clock |-> m.clock, due |-> m.due, fallback |-> fallback, committed |-> FALSE]
Restored(m, s) == [m EXCEPT !.regs = s.regs, !.loops = s.loops, !.open = s.open,
                            !.clock = s.clock, !.due = s.due]

(* handle_break, for the loops without a tick                              *)
Broken(code, m) ==
  LET stops == Stops(code, m.pc, m.depth)
      i == CHOOSE i \in stops : \A j \in stops : i <= j
      lower(d) == Monus(d, 1)
  IN IF stops = {} THEN [m EXCEPT !.pc = Len(code) + 1]
     ELSE [m EXCEPT !.pc = After(code, i),
                    !.depth = IF code[i].op = "endFor" THEN lower(@)
                              ELSE lower(lower(Depths(code, m.pc, m.depth)[i])),
                    !.loops = IF code[i].op = "endFor" /\ @ # <<>>
                              THEN SubSeq(@, 1, Len(@) - 1) ELSE @]

(* The header of a for loop takes the source in when it is reached from    *)
(* outside, and asks for the next item each time.                          *)
Entered(m, i, head) ==
  IF m.loops # <<>> /\ m.loops[Len(m.loops)].head = head THEN m
  ELSE Peeked(m, i.source, LAMBDA v :
         IF v \notin {Array(n) : n \in 0..9} THEN Fault(m)
         ELSE [(IF i.takes THEN Taken(m, i.source) ELSE m) EXCEPT
                 !.depth = @ + 1,
                 !.loops = Append(@, [head |-> head, next |-> 1, last |-> v - Array(0)])])

NextItem(m, i) ==
  LET loop == m.loops[Len(m.loops)]
  IN IF loop.next <= loop.last
     THEN Put(Put(m, i.item_reg, loop.next), i.dest_cond, True)
     ELSE Put([m EXCEPT !.loops = SubSeq(@, 1, Len(@) - 1), !.depth = Monus(@, 1)], i.dest_cond, False)

(* one instruction, m fetched                                              *)
Exec(code, m, i) ==
  CASE i.op = "load" -> Put(m, i.dest, i.value)
    [] i.op = "move" -> Put(m, i.dest, m.regs[i.src])
    [] i.op = "binop" ->
         Peeked(m, i.left, LAMBDA l : Peeked(m, i.right, LAMBDA r :
           LET v == Evaluated(i.f, l, r)
           IN IF v = {} THEN Fault(m) ELSE Put(m, i.dest, CHOOSE w \in v : TRUE)))
    [] i.op = "condSelect" ->
         Peeked(m, i.cond, LAMBDA c :
           IF ~IsBool(c) THEN Fault(m)
           ELSE Peeked(m, IF c = True THEN i.yes ELSE i.no, LAMBDA v : Put(m, i.dest, v)))
    [] i.op = "print" -> Peeked(m, i.src, LAMBDA v : [m EXCEPT !.out = Append(@, <<"print", v>>)])
    [] i.op = "consume" -> Taken(m, i.src)
    [] i.op = "jump" -> [m EXCEPT !.pc = i.to]
    [] i.op = "jumpIf" -> Peeked(m, i.cond, LAMBDA c : IF c = True THEN [m EXCEPT !.pc = i.to] ELSE m)
    [] i.op = "jumpIfNot" -> Peeked(m, i.cond, LAMBDA c : IF c = False THEN [m EXCEPT !.pc = i.to] ELSE m)
    [] i.op = "match" -> [m EXCEPT !.pc = IF m.regs[i.target] = Gone THEN i.consumed ELSE i.valid]
    [] i.op = "return" -> IF "src" \in DOMAIN i
                          THEN Peeked(m, i.src, LAMBDA v : [m EXCEPT !.status = "ended"])
                          ELSE [m EXCEPT !.status = "ended"]
    [] i.op = "for" -> LET t == Entered(m, i, m.pc - 1)
                       IN IF t.status = "fault" THEN t ELSE NextItem(t, i)
    [] i.op = "endFor" -> IF m.loops = <<>> THEN Fault(m)
                          ELSE [m EXCEPT !.loops[Len(m.loops)].next = @ + 1]
    [] i.op \in {"loop", "while"} -> [m EXCEPT !.depth = @ + 1]
    [] i.op \in {"endLoop", "endWhile"} -> [m EXCEPT !.depth = Monus(@, 1)]
    [] i.op = "break" -> Broken(code, m)
    [] i.op = "speculate" -> [m EXCEPT !.speculation = Append(@, Snapshot(m, i.fallback))]
    [] i.op = "commit" -> IF m.speculation = <<>> THEN m
                          ELSE [m EXCEPT !.speculation[Len(m.speculation)].committed = TRUE]
    [] i.op \in {"endSpeculate", "collapse"} ->
         IF m.speculation = <<>> THEN Fault(m)
         ELSE LET s == m.speculation[Len(m.speculation)]
                  t == [m EXCEPT !.speculation = SubSeq(@, 1, Len(@) - 1)]
              IN IF i.op = "collapse" THEN [Restored(t, s) EXCEPT !.pc = s.fallback, !.depth = s.depth]
                 ELSE IF s.committed THEN t ELSE Restored(t, s)
    [] i.op = "lease" ->
         IF m.regs[i.source_reg] = Gone \/ IsLeased(m.regs[i.source_reg]) THEN Fault(m)
         ELSE [Put(Put(m, i.target_reg, m.regs[i.source_reg]), i.source_reg, Leased(m.regs[i.source_reg]))
                 EXCEPT !.due = (i.source_reg :> m.clock + i.ms) @@ @]
    [] i.op = "endLease" ->
         IF ~IsLeased(m.regs[i.source_reg]) THEN Fault(m)
         ELSE [Put(m, i.source_reg, Held(m.regs[i.source_reg])) EXCEPT
                 !.late = Larger(@, Monus(m.clock, m.due[i.source_reg])),
                 !.clock = Larger(@, m.due[i.source_reg])]
    [] i.op = "openChan" -> [m EXCEPT !.open = @ \cup {i.chan}]
    [] i.op = "chanSend" ->
         Peeked(m, i.src, LAMBDA v : IF i.chan \notin m.open THEN Fault(m)
                                     ELSE [m EXCEPT !.out = Append(@, <<i.chan, v>>)])

RECURSIVE Run(_, _)
Run(code, m) ==
  IF m.status # "running" \/ m.fuel = 0 THEN m
  ELSE IF m.pc > Len(code) THEN [m EXCEPT !.status = "ended"]
  ELSE Run(code, Exec(code, [m EXCEPT !.pc = @ + 1, !.clock = @ + 1, !.fuel = @ - 1], code[m.pc]))
=============================================================================
