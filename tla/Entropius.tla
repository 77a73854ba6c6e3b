----------------------------- MODULE Entropius ------------------------------
(* The relational check that runs before the analyser (causm-entropius):    *)
(* facts.rs walks the program once and writes down, point by point, which   *)
(* variables are introduced, read, consumed and leased; relational.rs       *)
(* refuses the program when the facts break an invariant.  A program is a   *)
(* sequence of the statements of Lowering, a variable is its register.     *)
EXTENDS Lowering

Fact(kind, v) == [fact |-> kind, var |-> v]
Access(v) == Fact("access", v)
Introduced(v) == Fact("introduced", v)
Consumed(v) == Fact("consumed", v)
LeaseIssued(v) == Fact("leased", v)
Speculative(v) == Fact("speculative", v)

-----------------------------------------------------------------------------
(* Extraction: one point after the other, each a set of facts              *)

RECURSIVE FromExpression(_)
FromExpression(e) ==
  CASE e.kind = "var" -> <<{Access(e.reg)}>>
    [] e.kind = "op" -> FromExpression(e.left) \o FromExpression(e.right)
    [] e.kind = "cond" -> FromExpression(e.cond) \o FromExpression(e.then) \o FromExpression(e.else)
    [] OTHER -> <<>>

FactsIn(points) == UNION Range(points)
IntroducedIn(points) == {f.var : f \in {g \in FactsIn(points) : g.fact = "introduced"}}

RECURSIVE FromStatements(_)

(* print, match on a state and return are not looked into; the body of a   *)
(* loop is gone through twice, that of a while or a for once; what a block *)
(* that does not commit introduces is speculative                          *)
FromStatement(s) ==
  CASE s.op = "let" -> Append(FromExpression(s.expr), {Introduced(s.target)})
    [] s.op = "consume" -> <<{Consumed(s.src)}>>
    [] s.op = "if" -> FromExpression(s.cond) \o FromStatements(s.then) \o FromStatements(s.else)
    [] s.op = "whileBlock" -> FromExpression(s.cond) \o FromStatements(s.body)
    [] s.op = "loopBlock" -> FromStatements(s.body) \o FromStatements(s.body)
    [] s.op = "forEach" -> <<{Access(s.begin.source)}, {Introduced(s.begin.item_reg)}>>
                           \o FromStatements(s.body)
    [] s.op = "block" -> <<{LeaseIssued(s.begin.source_reg), Introduced(s.begin.target_reg)}>>
                         \o FromStatements(s.body)
    [] s.op = "speculateBlock" ->
         LET body == FromStatements(s.body)
             committed == \E k \in DOMAIN s.body : s.body[k].op = "commit"
         IN <<IF committed THEN {} ELSE {Speculative(v) : v \in IntroducedIn(body)}>>
            \o body \o FromStatements(s.fallback)
    [] s.op = "commit" -> <<{}>>
    [] OTHER -> <<>>

FromStatements(body) ==
  IF body = <<>> THEN <<>> ELSE FromStatement(Head(body)) \o FromStatements(Tail(body))

(* a point knows the statement of the program it is in, nested or not      *)
Points(program) ==
  FlattenSeq([k \in DOMAIN program |->
    LET points == FromStatement(program[k])
    IN [p \in DOMAIN points |-> [statement |-> k, facts |-> points[p]]]])

-----------------------------------------------------------------------------
(* The invariants a program can break                                      *)

At(points, f) == {p \in DOMAIN points : f \in points[p].facts}
Variables(points) == {f.var : f \in UNION {points[p].facts : p \in DOMAIN points}}

ReintroducedNever(points, v, from, to) == FALSE                   \* mutant
Reintroduced(points, v, from, to) == \E p \in At(points, Introduced(v)) : from < p /\ p <= to

(* Invariant 1: only the last consumption before the access counts         *)
UseAfterConsume(points, v) ==
  \E p \in At(points, Access(v)) :
    LET before == {q \in At(points, Consumed(v)) : q < p}
    IN /\ before # {} /\ p \notin At(points, Consumed(v))
       /\ ~Reintroduced(points, v, CHOOSE q \in before : \A r \in before : r <= q, p)

(* Invariant 4: from the lease on, not only while it lasts                 *)
LeaseViolated(points, v) ==
  \E l \in At(points, LeaseIssued(v)), q \in At(points, Consumed(v)) : l <= q

(* Invariant 7                                                             *)
ConsumedTwice(points, v) ==
  \E p, q \in At(points, Consumed(v)) : p < q /\ ~Reintroduced(points, v, p, q)

(* Invariant 9                                                             *)
SpeculativeLeak(points, v) ==
  \E s \in At(points, Speculative(v)), p \in At(points, Access(v)) :
    points[s].statement # points[p].statement

Diagnostics(points) ==
  {<<d, v>> \in {"UseAfterConsume", "LeaseViolated", "ConsumedTwice", "SpeculativeLeak"}
                \X Variables(points) :
     CASE d = "UseAfterConsume" -> UseAfterConsume(points, v)
       [] d = "LeaseViolated" -> LeaseViolated(points, v)
       [] d = "ConsumedTwice" -> ConsumedTwice(points, v)
       [] d = "SpeculativeLeak" -> SpeculativeLeak(points, v)}
=============================================================================
