----------------------------- MODULE MCAnalysis -----------------------------
(* The programs the runs of Analysis go through: three linear variables and *)
(* a counter, and statements that move them, consume them and read them,   *)
(* one after the other and inside one another.  A statement takes the       *)
(* variables that are its own from its place k.                            *)
EXTENDS Analysis

t == 1
u == 2
x == 3
c == 4
arr == 5
list == 6
New(k) == 10 + k
Other(k) == 20 + k
Item(k) == 30 + k
More(k) == 40 + k
Bound(k) == 50 + k
Alias(k) == 60 + k

i(op) == [op |-> op]
T == Var(t)
U == Var(u)
X == Var(x)
Let(r, e) == [op |-> "let", target |-> r, expr |-> e, consumes |-> TRUE, mutable |-> FALSE]
Count(e) == [op |-> "let", target |-> x, expr |-> e, consumes |-> FALSE, mutable |-> TRUE]
Printing(e) == [op |-> "printing", expr |-> e]
Consume(v) == [op |-> "consume", src |-> v]
If(e, then, else) == [op |-> "if", cond |-> e, then |-> then, else |-> else]
While(body) == [op |-> "whileBlock", ms |-> Wildcard, cond |-> Op("lt", X, Lit(3)),
                body |-> Append(body, Count(Op("add", X, Lit(1))))]
For(k, source, takes, body) ==
  [op |-> "forEach", body |-> body,
   begin |-> [op |-> "for", dest_cond |-> More(k), item_reg |-> Item(k), source |-> source,
              takes |-> takes, pace |-> 0]]
Loop(body) == [op |-> "loopBlock", ms |-> 20, body |-> body]
Match(k, valid, consumed) ==
  [op |-> "matchBlock", target |-> t, binding |-> Bound(k), valid |-> valid, consumed |-> consumed]
Speculate(body, fallback) ==
  [op |-> "speculateBlock", body |-> body, fallback |-> fallback]
Lease(k, ms, body) ==
  [op |-> "block", body |-> body,
   begin |-> [op |-> "lease", target_reg |-> Alias(k), source_reg |-> u, ms |-> ms],
   end |-> [op |-> "endLease", source_reg |-> u, ms |-> ms]]

Moves(k) ==
  {<<Consume(t)>>,
   <<Consume(t), Let(t, Lit(9))>>,
   <<Let(New(k), T)>>,
   <<Let(New(k), T), Consume(New(k))>>,
   <<Let(u, T)>>,
   <<Consume(u)>>,
   <<If(Var(c), <<Let(New(k), T)>>, <<Let(Other(k), T)>>)>>,
   <<If(Var(c), <<Consume(t)>>, <<>>)>>,
   <<If(Var(c), <<>>, <<Let(New(k), U)>>)>>,
   <<If(Var(c), <<Let(New(k), U)>>, <<Consume(u)>>)>>,
   <<Let(New(k), Cond(Var(c), T, U))>>,
   <<Match(k, <<Let(New(k), U)>>, <<>>)>>,
   <<Loop(<<Consume(t), i("break")>>)>>,
   <<Lease(k, 4, <<Printing(Var(Alias(k))), Consume(t)>>)>>,
   <<For(k, arr, TRUE, <<Printing(Var(Item(k)))>>)>>}

Keeps(k) ==
  {<<Printing(T)>>,
   <<Let(t, Lit(7))>>,
   <<If(Var(c), <<Let(t, Lit(7))>>, <<Let(t, Lit(8))>>)>>,
   <<If(Var(c), <<Let(New(k), Lit(5)), Printing(Var(New(k)))>>, <<>>)>>,
   <<Printing(Var(New(1)))>>,
   <<Printing(Var(arr))>>,
   <<Match(k, <<Printing(Var(Bound(k)))>>, <<Let(t, Lit(4))>>)>>,
   <<Lease(k, 2, <<Printing(Lit(5))>>)>>,
   <<Lease(k, 1, <<Count(Op("add", X, Lit(1)))>>)>>,
   <<Lease(k, 4, <<Count(Op("add", X, Lit(1)))>>)>>,
   <<Lease(k, 3, <<Printing(Op("add", T, U))>>)>>,
   <<Count(Op("add", T, U))>>,
   <<For(k, list, FALSE, <<Printing(Var(Item(k))), Printing(T)>>)>>,
   <<Loop(<<Printing(T), i("break")>>)>>,
   <<Speculate(<<Let(u, Lit(6)), i("commit")>>, <<Printing(U)>>)>>,
   <<While(<<Printing(T)>>)>>,
   <<If(Var(c), <<i("return")>>, <<>>)>>,
   <<Count(Cond(Op("lt", X, Lit(2)), X, Lit(3)))>>}

Some(k) == Moves(k) \cup Keeps(k)

Around(k, body) ==
  {<<If(Var(c), body, <<>>)>>,
   <<If(Var(c), body, <<Consume(t)>>)>>,
   <<Match(k, body, <<Printing(U)>>)>>,
   <<Lease(k, 9, body)>>}

Repeated(k, body) ==
  {<<While(body)>>, <<For(k, list, FALSE, body)>>, <<Speculate(Append(body, i("commit")), <<Printing(U)>>)>>}

Program(body) == <<Let(t, Lit(1)), Let(u, Lit(2)), Count(Lit(1))>> \o body

MCPrograms ==
  {Program(a \o b) : a \in Some(1), b \in Some(2)}
  \cup {Program(n \o b) : n \in UNION {Around(2, a) : a \in Some(1)}, b \in Some(3)}
  \cup {Program(n \o b) : n \in UNION {Repeated(2, a) : a \in Keeps(1)}, b \in Some(3)}
MCEarlier == {c, arr, list}
MCInputs == {[r \in MCEarlier |-> IF r = c THEN b ELSE Array(n)] : b \in {True, False}, n \in {0, 2}}
=============================================================================
