------------------------------ MODULE Lowering ------------------------------
(* How the front end turns statements into the flat code of a block: the   *)
(* shapes of lower/statements.rs and lower/expressions.rs, with program    *)
(* counters from 1.  A statement is a record; one that holds no other is   *)
(* the instruction it is lowered to.  A fresh register is named after the  *)
(* position of the instruction that writes it.  The end of a block names   *)
(* its head.                                                               *)
EXTENDS Integers, SequencesExt

NoTarget == -1

Temp(at) == 100 + at
Joined(at) == 500 + at

(* expressions: the value of a variable, one that no check asks about, a   *)
(* literal, a binary operation and an if                                   *)
Var(r) == [kind |-> "var", reg |-> r]
Opaque == [kind |-> "opaque"]
Lit(v) == [kind |-> "lit", value |-> v]
Op(f, l, r) == [kind |-> "op", f |-> f, left |-> l, right |-> r]
Cond(c, t, e) == [kind |-> "cond", cond |-> c, then |-> t, else |-> e]

RECURSIVE IsPure(_)
IsPure(e) == \/ e.kind = "lit"
             \/ e.kind = "op" /\ IsPure(e.left) /\ IsPure(e.right)

RECURSIVE LowerExpression(_, _)
LowerExpression(e, at) ==
  CASE e.kind = "var" -> [code |-> <<>>, reg |-> e.reg]
    [] e.kind = "opaque" -> [code |-> <<[op |-> "other"]>>, reg |-> "data"]
    [] e.kind = "lit" ->
         [code |-> <<[op |-> "load", dest |-> Temp(at), value |-> e.value]>>, reg |-> Temp(at)]
    [] e.kind = "op" ->
         LET l == LowerExpression(e.left, at)
             r == LowerExpression(e.right, at + Len(l.code))
             dest == Temp(at + Len(l.code) + Len(r.code))
         IN [code |-> l.code \o r.code \o <<[op |-> "binop", f |-> e.f, dest |-> dest,
                                            left |-> l.reg, right |-> r.reg]>>,
             reg |-> dest]
    [] e.kind = "cond" ->
         LET c == LowerExpression(e.cond, at)
             n == at + Len(c.code)
             pure == IsPure(e.then) /\ IsPure(e.else)
             t == LowerExpression(e.then, IF pure THEN n ELSE n + 1)
             over == IF pure THEN n + Len(t.code) ELSE n + Len(t.code) + 3
             f == LowerExpression(e.else, over)
             dest == Joined(at)
             move(reg) == [op |-> "move", dest |-> dest, src |-> reg]
         IN [code |-> c.code \o
               IF pure
               THEN t.code \o f.code \o <<[op |-> "condSelect", dest |-> dest, cond |-> c.reg,
                                           yes |-> t.reg, no |-> f.reg]>>
               ELSE <<[op |-> "jumpIfNot", cond |-> c.reg, to |-> over]>>
                    \o t.code \o <<move(t.reg), [op |-> "jump", to |-> over + Len(f.code) + 1]>>
                    \o f.code \o <<move(f.reg)>>,
             reg |-> dest]

-----------------------------------------------------------------------------
(* lower a body, its first instruction at position at                      *)
RECURSIVE LowerAll(_, _)

LowerIf(s, at) ==
  LET test == LowerExpression(s.cond, at)
      n == at + Len(test.code) + 1
      then == LowerAll(s.then, n)
      else == LowerAll(s.else, n + Len(then) + 1)
      unless(to) == Append(test.code, [op |-> "jumpIfNot", cond |-> test.reg, to |-> to])
  IN IF s.else = <<>> THEN unless(n + Len(then)) \o then
     ELSE unless(n + Len(then) + 1) \o then
          \o <<[op |-> "jump", to |-> n + Len(then) + 1 + Len(else)]>> \o else

(* the statement names the registers of its condition and its item         *)
LowerFor(s, at) ==
  LET body == LowerAll(s.body, at + 2)
  IN <<s.begin, [op |-> "jumpIfNot", cond |-> s.begin.dest_cond, to |-> at + Len(body) + 4]>>
     \o body \o <<[op |-> "endFor", head |-> at], [op |-> "jump", to |-> at]>>

LowerLoop(s, at) ==
  LET body == LowerAll(s.body, at + 1)
  IN <<[op |-> "loop", ms |-> s.ms]>> \o body
     \o <<[op |-> "endLoop", head |-> at], [op |-> "jump", to |-> at]>>

LowerWhile(s, at) ==
  LET test == LowerExpression(s.cond, at + 1)
      n == at + Len(test.code) + 2
      body == LowerAll(s.body, n)
  IN <<[op |-> "while", ms |-> s.ms]>> \o test.code
     \o <<[op |-> "jumpIfNot", cond |-> test.reg, to |-> n + Len(body) + 1]>>
     \o body \o <<[op |-> "jump", to |-> at + 1], [op |-> "endWhile", head |-> at]>>

(* tick, lease and isolate: a block between its begin and its end          *)
LowerBlock(s, at) ==
  <<s.begin>> \o LowerAll(s.body, at + 1) \o <<("head" :> at) @@ s.end>>

LowerSpeculate(s, at) ==
  LET body == LowerAll(s.body, at + 1)
      over == at + Len(body) + 3
      fallback == LowerAll(s.fallback, over)
  IN <<[op |-> "speculate", fallback |-> over]>> \o body
     \o <<[op |-> "endSpeculate", fallback |-> over, head |-> at],
          [op |-> "jump", to |-> over + Len(fallback)]>> \o fallback

(* one case; its channel and its binding are not kept                      *)
LowerSelect(s, at) ==
  LET first == LowerAll(s.case, at + 1)
      over == at + Len(first) + 2
      timeout == LowerAll(s.timeout, over)
  IN <<[op |-> "select", ms |-> s.ms, cases |-> {at + 1},
        timeout |-> IF s.timeout = <<>> THEN NoTarget ELSE over]>>
     \o first \o <<[op |-> "jump", to |-> over + Len(timeout)]>> \o timeout

(* match on the state of a variable: a branch for Valid that binds it, and *)
(* one for Consumed                                                        *)
LowerMatch(s, at) ==
  LET valid == LowerAll(s.valid, at + 2)
      over == at + Len(valid) + 3
      consumed == LowerAll(s.consumed, over)
      out == over + Len(consumed) + 1
  IN <<[op |-> "match", target |-> s.target, valid |-> at + 1, consumed |-> over],
       [op |-> "move", dest |-> s.binding, src |-> s.target]>>
     \o valid \o <<[op |-> "jump", to |-> out]>> \o consumed \o <<[op |-> "jump", to |-> out]>>

LowerLet(s, at) ==
  LET e == LowerExpression(s.expr, at)
  IN e.code \o <<[op |-> "move", dest |-> s.target, src |-> e.reg]>>
     \o (IF s.expr.kind = "var" /\ s.consumes /\ e.reg # s.target
         THEN <<[op |-> "consume", src |-> e.reg]>> ELSE <<>>)

LowerPrint(s, at) ==
  LET e == LowerExpression(s.expr, at) IN Append(e.code, [op |-> "print", src |-> e.reg])

LowerStatement(s, at) ==
  CASE s.op = "if" -> LowerIf(s, at)
    [] s.op = "forEach" -> LowerFor(s, at)
    [] s.op = "loopBlock" -> LowerLoop(s, at)
    [] s.op = "whileBlock" -> LowerWhile(s, at)
    [] s.op = "block" -> LowerBlock(s, at)
    [] s.op = "speculateBlock" -> LowerSpeculate(s, at)
    [] s.op = "selectBlock" -> LowerSelect(s, at)
    [] s.op = "matchBlock" -> LowerMatch(s, at)
    [] s.op = "let" -> LowerLet(s, at)
    [] s.op = "printing" -> LowerPrint(s, at)
    [] OTHER -> <<s>>

LowerAll(body, at) ==
  IF body = <<>> THEN <<>>
  ELSE LET first == LowerStatement(Head(body), at)
       IN first \o LowerAll(Tail(body), at + Len(first))
=============================================================================
