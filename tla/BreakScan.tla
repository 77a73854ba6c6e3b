----------------------------- MODULE BreakScan ------------------------------
(* How Vm::handle_break finds the end of the loop it leaves: it scans flat *)
(* code from the instruction after the break, counting loops that open and *)
(* close on the way.                                                       *)
EXTENDS Integers, Sequences

Monus(n, m) == IF n < m THEN 0 ELSE n - m

Opens == {"loop", "while", "tick", "for"}
Closes == {"endLoop", "endWhile", "endTick", "endFor"}

(* loop_depth at every instruction the scan passes                         *)
Depths(code, from, depth) ==
  LET d[i \in from..Len(code) + 1] ==
        IF i = from THEN depth
        ELSE IF code[i - 1].op \in Opens THEN d[i - 1] + 1
        ELSE IF code[i - 1].op \in Closes THEN Monus(d[i - 1], 1)
        ELSE d[i - 1]
  IN d

StopsOneOut(code, from, depth) ==                                \* mutant
  LET d == Depths(code, from, depth)
  IN {i \in from..Len(code) : code[i].op \in Closes /\ d[i] - 1 < Monus(depth, 1)}

Stops(code, from, depth) ==
  LET d == Depths(code, from, depth)
  IN {i \in from..Len(code) : code[i].op \in Closes /\ Monus(d[i], 1) <= Monus(depth, 1)}

After(code, i) == IF i < Len(code) /\ code[i + 1].op = "jump" THEN i + 2 ELSE i + 1
=============================================================================
