------------------------------ MODULE Analyser ------------------------------
(* EntropicAnalyzer (causm-types): it goes through the statements with the  *)
(* state it believes each variable to be in and refuses the program at the  *)
(* first one it cannot vouch for.  What it would still refuse after that    *)
(* does not matter, so a refusal is kept and the walk goes on.  Types are   *)
(* left out, but for whether a name has one.                                *)
EXTENDS Lowering, FiniteSetsExt

Wildcard == 9999   \* u64::MAX, the budget of `taking _`
Whichever(p, n, m) == IF p THEN n ELSE m
Greater(n, m) == IF n < m THEN m ELSE n

Fresh ==
  [consumed |-> {}, yields |-> {}, produced |-> {}, mutables |-> {}, types |-> {},
   leased |-> {}, lease_bindings |-> {}, accumulated_cost |-> 0, refused |-> FALSE]

RefuseIf(p, st) == [st EXCEPT !.refused = @ \/ p]
Costs(ms, st) == [st EXCEPT !.accumulated_cost = @ + ms]

-----------------------------------------------------------------------------
(* Costs: estimate_statement_cost and estimate_expression_cost             *)

RECURSIVE ExpressionCost(_)
ExpressionCost(e) ==
  CASE e.kind = "op" -> 1 + ExpressionCost(e.left) + ExpressionCost(e.right)
    [] e.kind = "cond" -> 1 + ExpressionCost(e.cond)
                            + Greater(ExpressionCost(e.then), ExpressionCost(e.else))
    [] OTHER -> 1

RECURSIVE BlockCost(_)

StatementCostBare(s) == 1                                         \* mutant

StatementCost(s) ==
  1 + CASE s.op \in {"let", "printing"} -> ExpressionCost(s.expr)
        [] s.op = "if" -> Greater(BlockCost(s.then), BlockCost(s.else))
        [] s.op = "matchBlock" -> Greater(BlockCost(s.valid), BlockCost(s.consumed))
        [] s.op \in {"whileBlock", "loopBlock"} -> Whichever(s.ms = Wildcard, BlockCost(s.body), s.ms)
        [] s.op = "forEach" -> Whichever(s.begin.pace = 0, 1, s.begin.pace)
        [] s.op = "speculateBlock" -> BlockCost(s.body) + BlockCost(s.fallback)
        [] s.op = "block" -> s.begin.ms
        [] OTHER -> 0

BlockCost(body) ==
  IF body = <<>> THEN 0 ELSE StatementCost(Head(body)) + BlockCost(Tail(body))

-----------------------------------------------------------------------------
(* Operations on a state                                                   *)

MarkConsumedUnchecked(v, st) == [st EXCEPT !.consumed = @ \cup {v}]  \* mutant

(* a variable that may be assigned to is never consumed                    *)
MarkConsumed(v, st) ==
  IF v \in st.mutables THEN st
  ELSE RefuseIf(v \in st.leased \cup st.lease_bindings \cup st.consumed,
                [st EXCEPT !.consumed = @ \cup {v}])

CheckAvailable(v, st) == RefuseIf(v \in st.consumed, st)

WithoutScope(vs, st) ==
  [st EXCEPT !.types = @ \ vs, !.consumed = @ \ vs, !.yields = @ \ vs, !.produced = @ \ vs,
             !.mutables = @ \ vs, !.leased = @ \ vs, !.lease_bindings = @ \ vs]

MergeThen(a, b, auto) == RefuseIf(b.refused, a)                   \* mutant

(* reconcile auto takes what either side consumed as consumed              *)
MergeStates(a, b, auto) ==
  [consumed |-> a.consumed \cup b.consumed, yields |-> a.yields \cup b.yields,
   produced |-> a.produced \cup b.produced, mutables |-> a.mutables \cup b.mutables,
   types |-> a.types \cup b.types, leased |-> a.leased \cup b.leased,
   lease_bindings |-> a.lease_bindings \cup b.lease_bindings,
   accumulated_cost |-> Greater(a.accumulated_cost, b.accumulated_cost),
   refused |-> a.refused \/ b.refused \/ (~auto /\ a.consumed # b.consumed)]

-----------------------------------------------------------------------------
(* Expressions                                                             *)

RECURSIVE NamesIn(_)
NamesIn(e) ==
  CASE e.kind = "var" -> {e.reg}
    [] e.kind = "op" -> NamesIn(e.left) \cup NamesIn(e.right)
    [] e.kind = "cond" -> NamesIn(e.cond) \cup NamesIn(e.then) \cup NamesIn(e.else)
    [] OTHER -> {}

InferType(e, st) == RefuseIf(NamesIn(e) \ st.types # {}, st)

AnalyseNonconsuming(e, st) ==
  RefuseIf(NamesIn(e) \cap st.consumed # {}, InferType(e, st))

(* a variable by itself, or as the value of an if, is moved                *)
RECURSIVE Moving(_, _)
Moving(e, st) ==
  CASE e.kind = "var" -> MarkConsumed(e.reg, st)
    [] e.kind = "cond" -> LET tested == AnalyseNonconsuming(e.cond, st)
                          IN MergeStates(Moving(e.then, tested), Moving(e.else, tested), FALSE)
    [] OTHER -> AnalyseNonconsuming(e, st)

AnalyseExpression(e, st) == Moving(e, InferType(e, st))

-----------------------------------------------------------------------------
(* Statements                                                              *)

RECURSIVE AnalyseBody(_, _)

Produce(v, st) == [st EXCEPT !.types = @ \cup {v}, !.produced = @ \cup {v}, !.consumed = @ \ {v}]

Assignment(s, st) ==
  LET valued == AnalyseExpression(s.expr, RefuseIf(s.target \in st.leased \cup st.lease_bindings, st))
  IN Produce(s.target, [valued EXCEPT !.mutables = IF s.mutable THEN @ \cup {s.target} ELSE @])

(* what a branch brings forth goes with it                                 *)
Branch(body, st) ==
  LET end == AnalyseBody(body, st) IN WithoutScope(end.produced \ st.produced, end)

AnalyseIf(s, st) ==
  LET tested == AnalyseNonconsuming(s.cond, st)
  IN MergeStates(Branch(s.then, tested), Branch(s.else, tested), FALSE)

Budgeted(ms, st) == RefuseIf(ms = 0, Costs(Whichever(ms = Wildcard, 0, ms), st))

AnalyseLoop(s, st) == AnalyseBody(s.body, Budgeted(s.ms, st))
AnalyseWhile(s, st) == AnalyseBody(s.body, Budgeted(s.ms, AnalyseNonconsuming(s.cond, st)))

AnalyseFor(s, st) ==
  LET item == [st EXCEPT !.types = @ \cup {s.begin.item_reg}]
      taken == IF s.begin.takes THEN MarkConsumed(s.begin.source, item) ELSE item
  IN RefuseIf(s.begin.pace # 0 /\ BlockCost(s.body) > s.begin.pace, AnalyseBody(s.body, taken))

(* the branch for Valid binds a name, and may look at a consumed target    *)
MatchEntropy(s, st) ==
  LET bound == InferType(Var(s.target),
                 [st EXCEPT !.yields = @ \cup {s.binding}, !.types = @ \cup {s.binding}])
  IN MergeStates(AnalyseBody(s.valid, bound), AnalyseBody(s.consumed, st), TRUE)

(* what a speculation does to variables is forgotten, committed or not     *)
AnalyseSpeculate(s, st) ==
  RefuseIf(AnalyseBody(s.body, st).refused \/ AnalyseBody(s.fallback, st).refused, st)

AnalyseLease(s, st) ==
  LET source == s.begin.source_reg
      binding == s.begin.target_reg
      held == [RefuseIf(source \in st.leased, CheckAvailable(source, st)) EXCEPT
                 !.leased = @ \cup {source}, !.lease_bindings = @ \cup {binding},
                 !.types = @ \cup {binding}]
      leaves == \E k \in DOMAIN s.body : s.body[k].op \in {"break", "return"}
      end == AnalyseBody(s.body, RefuseIf(leaves \/ BlockCost(s.body) > s.begin.ms, held))
      given == Costs(s.begin.ms, [end EXCEPT !.leased = @ \ {source}, !.lease_bindings = @ \ {binding}])
  IN IF binding \in st.types THEN given ELSE WithoutScope({binding}, given)

AnalyseStatement(s, st) ==
  LET begun == Costs(1, st)
  IN CASE s.op = "let" -> Assignment(s, begun)
       [] s.op = "printing" -> AnalyseNonconsuming(s.expr, begun)
       [] s.op = "consume" -> MarkConsumed(s.src, begun)
       [] s.op = "if" -> AnalyseIf(s, begun)
       [] s.op = "loopBlock" -> AnalyseLoop(s, begun)
       [] s.op = "whileBlock" -> AnalyseWhile(s, begun)
       [] s.op = "forEach" -> AnalyseFor(s, begun)
       [] s.op = "matchBlock" -> MatchEntropy(s, begun)
       [] s.op = "speculateBlock" -> AnalyseSpeculate(s, begun)
       [] s.op = "block" -> AnalyseLease(s, begun)
       [] OTHER -> begun

AnalyseBody(body, st) ==
  IF body = <<>> THEN st ELSE AnalyseBody(Tail(body), AnalyseStatement(Head(body), st))

(* verify_egc: whatever was produced has been consumed                     *)
Unconsumed(st) == st.produced \ st.consumed
=============================================================================
