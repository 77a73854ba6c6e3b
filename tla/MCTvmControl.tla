---------------------------- MODULE MCTvmControl ----------------------------
(* The family of programs the runs of TvmControl go through, as statements *)
(* lowered by Lowering.  Of a register only what the handlers decide on is *)
(* left: the condition a for loop writes, and data, which may be anything. *)
EXTENDS TvmControl, Lowering

i(op) == [op |-> op]

If(then) == [op |-> "if", cond |-> Var("data"), then |-> then, else |-> <<>>]
IfElse(then, else) == [op |-> "if", cond |-> Var("data"), then |-> then, else |-> else]
for(pace, max, body) ==
  [op |-> "forEach", body |-> body,
   begin |-> [op |-> "for", dest_cond |-> "more", pace |-> pace, max |-> max]]
loop(ms, body) == [op |-> "loopBlock", ms |-> ms, body |-> body]
while(ms, body) == [op |-> "whileBlock", ms |-> ms, cond |-> Opaque, body |-> body]
tick(body) == [op |-> "block", begin |-> i("tick"), body |-> body, end |-> i("endTick")]
lease(ms, body) ==
  [op |-> "block", begin |-> [op |-> "lease", ms |-> ms], body |-> body, end |-> i("endLease")]
manifest(cpu, slice, uses, body) ==
  [op |-> "block", begin |-> [op |-> "isolate", cpu |-> cpu, slice |-> slice, uses |-> uses],
   body |-> body, end |-> i("endIsolate")]
isolate(cpu, uses, body) == manifest(cpu, None, uses, body)
speculate(body, fallback) == [op |-> "speculateBlock", body |-> body, fallback |-> fallback]
select(ms, case, timeout) == [op |-> "selectBlock", ms |-> ms, case |-> case, timeout |-> timeout]
call(budget) == [op |-> "call", routine |-> "r", budget |-> budget]
anchor == [op |-> "anchor", name |-> "a"]
rewind == [op |-> "rewind", name |-> "a"]
slice(ms) == [op |-> "slice", ms |-> ms]
policy(target, p) == [op |-> "policy", target |-> target, policy |-> p]
throttle == policy("OnFull", "Throttle")
clone(ms) == [op |-> "clone", ms |-> ms]
foreign(args, ms) == [op |-> "foreign", args |-> args, ms |-> ms]
defer(latency, ms) == [op |-> "defer", latency |-> latency, ms |-> ms]

(* statements that hold no other                                           *)
Steps == <<i("other"), If(<<i("break")>>), If(<<rewind>>), If(<<i("collapse")>>), anchor,
           call(None), throttle, i("commit"), i("capability")>>

Blocks(body) ==
  <<for(6, None, body), for(None, 20, body), loop(9, body), while(Unbounded, body), tick(body),
    lease(8, body), isolate(14, 1, body), speculate(body, <<>>),
    speculate(body, <<i("other")>>), speculate(body \o <<i("commit")>>, <<>>)>>

(* two blocks one in the other with a step before, and two steps in one    *)
Nested(o, s, b) ==
  <<slice(7), anchor, Blocks(<<Steps[s], Blocks(<<If(<<i("break")>>)>>)[b]>>)[o]>>
Pairs(o, s, t) == <<slice(7), anchor, Blocks(<<Steps[s], Steps[t]>>)[o], call(6)>>

(* breaks around and after inner loops, and the rest of the statements     *)
Others ==
  <<<<slice(20), tick(<<loop(3, <<i("break")>>), If(<<i("break")>>), loop(2, <<i("break")>>)>>)>>,
   <<defer(4, 6), i("other"), i("await"), select(3, <<i("other")>>, <<i("other"), i("other")>>)>>,
   <<isolate(40, 1, <<defer(9, 5), i("await"), i("capability"), i("capability")>>)>>,
   <<isolate(9, None, <<isolate(20, None, <<i("other")>>)>>)>>,
   <<[op |-> "endEpoch", ms |-> 9], i("other"), [op |-> "endEpoch", ms |-> 9]>>,
   <<anchor, isolate(30, None, <<clone(17), If(<<rewind>>), clone(17)>>)>>,
   <<i("await")>>, <<tick(<<i("break")>>)>>,
   <<IfElse(<<while(Unbounded, <<i("break")>>)>>, <<i("other"), i("other")>>), i("other")>>,
   <<select(2, <<i("break")>>, <<>>), IfElse(<<lease(3, <<lease(1, <<>>)>>)>>, <<lease(1, <<i("other")>>)>>)>>,
   <<anchor, while(Unbounded, <<If(<<rewind>>), speculate(<<i("commit")>>, <<>>)>>)>>>>

(* arenas that may be full, in and around what keeps time                  *)
Full ==
  <<<<throttle, isolate(14, 1, <<i("other"), defer(3, 9), i("await"), i("other")>>)>>,
   <<isolate(20, None, <<throttle, foreign(1, 3), policy("OnFull", "FailFast"), foreign(1, 3)>>)>>,
   <<policy("OnOverflow", "Throttle"), anchor, i("other"), If(<<rewind>>),
     speculate(<<policy("OnFull", "EvictDecayed"), i("other"), If(<<i("collapse")>>)>>, <<i("other")>>)>>,
   <<throttle, for(12, None, <<i("other")>>)>>, <<throttle, for(25, 40, <<i("other")>>)>>,
   <<throttle, lease(12, <<i("other")>>), i("other")>>,
   <<throttle, manifest(60, 12, None, <<tick(<<i("other"), If(<<i("break")>>)>>)>>)>>,
   <<throttle, loop(15, <<i("other"), i("break")>>),
     select(3, <<i("other")>>, <<i("other"), i("other")>>)>>>>

(* what routine r does                                                     *)
Routines ==
  <<<<i("other"), i("return")>>, <<speculate(<<If(<<i("return")>>)>>, <<>>), i("return")>>,
   <<If(<<rewind>>), loop(4, <<i("break")>>), i("return")>>,
   <<If(<<i("collapse")>>), anchor, i("return")>>>>
Program(main, r) == [main |-> LowerAll(main, 1), r |-> LowerAll(r, 1)]

Simple == <<i("other"), i("return")>>
Calls == <<<<slice(7), speculate(<<call(None)>>, <<i("other")>>), call(6), If(<<rewind>>)>>,
          <<anchor, loop(9, <<call(None), i("break")>>)>>, <<call(2)>>,
          <<anchor, If(<<isolate(5, None, <<call(None), i("other")>>)>>), i("other"), i("other"),
            i("return")>>>>

AllPrograms ==
  {Program(Nested(o, s, b), Simple) : o \in 1..10, s \in 1..7, b \in 1..9}
  \cup {Program(Pairs(o, s, t), Simple) : o \in 1..10, s, t \in 1..9}
  \cup {Program(other, Simple) : other \in Range(Others) \cup Range(Full)}
  \cup {Program(main, r) : main \in Range(Calls), r \in Range(Routines)}
MCPrograms == AllPrograms
=============================================================================
