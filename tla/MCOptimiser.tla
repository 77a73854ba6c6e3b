----------------------------- MODULE MCOptimiser ----------------------------
(* The programs the runs of Optimiser go through: two statements one after  *)
(* the other, or one inside another, from a list that covers the control    *)
(* flow of the language.  A statement takes the registers that are its own  *)
(* from its place k.                                                        *)
EXTENDS Optimiser, Lowering

x == 1
y == 2
c == 3
arr == 4
More(k) == 10 + k
Item(k) == 20 + k
Bound(k) == 30 + k
Alias(k) == 40 + k

i(op) == [op |-> op]
X == Var(x)
Y == Var(y)
Let(r, e) == [op |-> "let", target |-> r, expr |-> e, consumes |-> FALSE]
Printing(e) == [op |-> "printing", expr |-> e]
If(e, then, else) == [op |-> "if", cond |-> e, then |-> then, else |-> else]
While(body) == [op |-> "whileBlock", ms |-> 0, cond |-> Op("lt", X, Lit(3)), body |-> body]
For(k, takes, body) ==
  [op |-> "forEach", body |-> body,
   begin |-> [op |-> "for", dest_cond |-> More(k), item_reg |-> Item(k), source |-> arr,
              takes |-> takes, pace |-> 0]]
Loop(body) == [op |-> "loopBlock", ms |-> 0, body |-> body]
Match(k, valid, consumed) ==
  [op |-> "matchBlock", target |-> x, binding |-> Bound(k), valid |-> valid, consumed |-> consumed]
Speculate(body, fallback) ==
  [op |-> "speculateBlock", body |-> Append(body, i("commit")), fallback |-> fallback]
Lease(k, ms, body) ==
  [op |-> "block", body |-> body,
   begin |-> [op |-> "lease", target_reg |-> Alias(k), source_reg |-> y, ms |-> ms],
   end |-> [op |-> "endLease", source_reg |-> y, ms |-> ms]]
Open(ch) == [op |-> "openChan", chan |-> ch]
Send(ch, r) == [op |-> "chanSend", chan |-> ch, src |-> r]
Break == i("break")
Next1 == Let(x, Op("add", X, Lit(1)))

(* single statements, and blocks with their own                            *)
S(k) ==
  <<<<Next1>>,
    <<Let(y, X)>>,
    <<Printing(X)>>,
    <<If(Var(c), <<Let(x, Lit(5))>>, <<>>)>>,
    <<If(Var(c), <<Let(x, Lit(5))>>, <<Let(x, Op("add", Y, Lit(1)))>>)>>,
    <<Let(x, Cond(Var(c), X, Y))>>,
    <<Let(y, Cond(Op("lt", X, Lit(3)), Lit(1), Lit(2)))>>,
    <<While(<<Next1>>)>>,
    <<For(k, FALSE, <<Printing(Var(Item(k))), Next1>>)>>,
    <<For(k, TRUE, <<If(Var(c), <<Break>>, <<>>), Printing(X)>>), Printing(Y)>>,
    <<While(<<Next1, If(Var(c), <<Break>>, <<>>), Printing(X)>>), Printing(Y)>>,
    <<Match(k, <<Printing(Var(Bound(k)))>>, <<Let(x, Lit(4))>>)>>,
    <<[op |-> "consume", src |-> x]>>,
    <<Speculate(<<Let(x, Lit(7)), If(Var(c), <<i("collapse")>>, <<>>)>>, <<Printing(X)>>)>>,
    <<Open("ch"), Send("ch", y)>>,
    <<If(Op("lt", X, Lit(3)), <<Printing(Y)>>, <<Let(x, Y)>>)>>,
    <<Lease(k, 5, <<Printing(Var(Alias(k)))>>)>>,
    <<If(Op("eq", X, Lit(1)), <<Let(x, Lit(9))>>, <<Printing(Y)>>)>>,
    <<Open("unused"), Lease(k, 0, <<Next1>>)>>,
    <<If(Var(c), <<i("return")>>, <<Let(y, Op("add", X, X))>>)>>>>

Around(k, body) ==
  <<<<If(Var(c), body, <<Let(x, Lit(8))>>)>>,
    <<While(body \o <<Next1>>)>>,
    <<For(k, FALSE, body)>>,
    <<Speculate(body, <<Let(y, X)>>)>>,
    <<Match(k, body, <<Printing(Y)>>)>>>>

Program(body) ==
  LowerAll(<<Let(x, Lit(1)), Let(y, Lit(2))>> \o body \o <<Printing(X), Printing(Y)>>, 1)

(* one after the other; one inside a statement, and another after that      *)
MCPrograms ==
  {Program(s \o t) : s \in Range(S(1)), t \in Range(S(2))}
  \cup {Program(n \o t) : n \in UNION {Range(Around(2, s)) : s \in Range(S(1))}, t \in Range(S(3))}
MCInputs == {[r \in {c, arr} |-> IF r = c THEN b ELSE Array(n)] : b \in {True, False}, n \in {0, 2}}
MCSymbols == {x, y, c, arr} \cup {Item(k) : k \in 1..3} \cup {Bound(k) : k \in 1..3}
=============================================================================
