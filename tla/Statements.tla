----------------------------- MODULE Statements -----------------------------
(* The statement parser (parser/arena_parser) together with the lowering of *)
(* its arena to the syntax tree (arena_parser/lower.rs): one operator per   *)
(* statement.  The parser takes most tokens as optional.                    *)
EXTENDS Pratt

RECURSIVE Statement(_), Sequence(_, _, _), Strategy(_)

(* Blocks: braces, or a single statement.  A statement that is none, `else` *)
(* or a brace that closes nothing, is not read past: the loop never ends.   *)
Sequence(s, close, seen) ==
  IF Peek(s) \in close \cup {"eof"} THEN Got(seen, s)
  ELSE LET a == Statement(s)
       IN  IF a.n # None THEN Sequence(a.s, close, Append(seen, a.n))
           ELSE IF a.s.t # s.t THEN Sequence(a.s, close, seen)
           ELSE Got(seen, Failed(s, "hang"))

Raw(s) ==
  LET a == IF Peek(s) = "{" THEN Sequence(Bump(s), {"}"}, <<>>) ELSE Statement(s)
      nodes == IF Peek(s) = "{" THEN a.n ELSE IF a.n = None THEN <<>> ELSE <<a.n>>
      after == IF Peek(s) = "{" THEN Opt(a.s, "}") ELSE a.s
  IN  Got(nodes, PushedAll(after, "stmt", nodes))

-----------------------------------------------------------------------------
(* Lowering of the nodes whose meaning depends on where they stand          *)

Assignment(target, mut, lifetime, ms, type, e) ==
  Node("Assignment", <<target, mut, lifetime, ms>>, <<type, e>>)

(* A branch of a match on entropy: its binding, its guard and its body      *)
Branch(state, binding, guard, body) == Node("branch", <<state, binding>>, <<guard, body>>)

EntropyOf(n) == n.k = "Call" /\ n.v = <<"entropy">> /\ n.c # <<>>

(* The arms of `x = match entropy(y) { ... }` become a statement that       *)
(* assigns in each of its branches, the last arm of a state its branch      *)
AssignedEntropy(x, e) ==
  LET arms == Tail(e.c)
      State(p) == IF p.k \in {"PVariant", "PIdent"} THEN p.v[Len(p.v)] ELSE ""
      Binding(p) == IF p.c # <<>> /\ p.c[1].k = "PIdent" THEN p.c[1].v[1] ELSE ""
      Taken(state) ==
        LET of == {i \in DOMAIN arms : State(arms[i].c[1]) = state}
            arm == arms[Max(of)]
        IN  IF of = {} THEN None
            ELSE Branch(state, IF state = "Consumed" THEN "" ELSE Binding(arm.c[1]), None,
                        Block(<<Assignment(x, "", "", "", None, arm.c[2])>>))
  IN  Node("MatchEntropy", <<>>, <<e.c[1].c[1], Taken("Valid"), Taken("Decayed"), Taken("Pending"),
                                   Taken("Consumed")>>)

LowPlain(n) ==
  CASE n.k = "Expr" /\ n.c[1].k = "Call" /\ n.c[1].v = <<"await">> /\ n.c[1].c # <<>> ->
         Leaf("Await", IF n.c[1].c[1].k = "Ident" THEN n.c[1].c[1].v[1] ELSE "?")
    [] n.k = "Assign" /\ n.c[1].k = "MatchExpr" /\ EntropyOf(n.c[1].c[1]) ->
         AssignedEntropy(n.v[1], n.c[1])
    [] n.k = "Assign" -> Assignment(n.v[1], "mut", "", "", None, n.c[1])
    [] n.k = "Timeline" ->
         IF Len(n.v) = 2 THEN Node("At", n.v, n.c) ELSE Node("Directives", SubSeq(n.v, 3, Len(n.v)), n.c)
    [] n.k \in {"Enable", "Continue"} -> Node("Expr", <<>>, <<Null>>)
    [] OTHER -> n
Low(n) == [LowPlain(n) EXCEPT !.at = n.at]

Lowered(nodes) == Block([i \in DOMAIN nodes |-> Low(nodes[i])])
Body(s) == LET a == Raw(s) IN Got(Lowered(a.n), a.s)

(* A block after the token t, if it is next                                 *)
BodyAfter(s, t) == IF Peek(s) = t THEN Body(Bump(s)) ELSE Got(None, s)

-----------------------------------------------------------------------------
(* Durations                                                                *)

Limit(s) ==
  LET paren == Peek(s) = "("
      a == OptIn(Opt(s, "("), {"max", "taking", "for"})
      here == IsCount(Peek(a)) \/ Peek(a) = "_"
      b == IF here THEN Bump(a) ELSE a
  IN  Got(IF ~here THEN "" ELSE IF Peek(a) = "_" THEN Forever ELSE Amount(Peek(a)),
          IF paren THEN Opt(b, ")") ELSE b)

(* What may stand between a loop's head and its body: a bound, a pace, tick *)
RECURSIVE Modifiers(_, _)
Modifiers(s, m) ==
  LET next == IF Peek(s) = "(" THEN Peek2(s) ELSE Peek(s)
      limit == Limit(IF next \in {"step", "pacing"} THEN Bump(s) ELSE s)
  IN  CASE Peek(s) = "tick" -> Modifiers(Bump(s), [m EXCEPT !.tick = TRUE, !.step = "1"])
        [] next \in {"max", "taking"} -> Modifiers(limit.s, [m EXCEPT !.max = limit.n])
        [] next \in {"step", "pacing"} ->
             Modifiers(limit.s, [m EXCEPT !.paced = TRUE,
                                          !.step = IF limit.n = Forever THEN "" ELSE limit.n])
        [] OTHER -> Got(m, s)

Modified(s) == Modifiers(s, [max |-> "", step |-> "", paced |-> FALSE, tick |-> FALSE])

(* Whether there is a `reconcile auto`.  Some lists count as one, others    *)
(* are skipped                                                              *)
Reconciled(s, counting, skipped) ==
  LET a == Bump(s)
      close == IF Peek(a) = "(" THEN ")" ELSE "}"
      list == Peek(a) \in counting \cup skipped
  IN  CASE Peek(s) # "reconcile" -> Got("", s)
        [] Peek(s) = "reconcile" /\ Peek(a) = "auto" -> Got("auto", Bump(a))
        [] OTHER -> Got(IF Peek(a) \in counting THEN "auto" ELSE "",
                        IF list THEN Opt(SkipTo(Bump(a), {close}), close) ELSE a)

-----------------------------------------------------------------------------
(* Declarations of variables                                                *)

RECURSIVE Destructured(_, _)
Destructured(s, seen) ==
  IF Peek(s) \in {"}", "eof"} THEN Got(seen, s)
  ELSE LET field == IF IsName(Peek(s)) THEN Peek(s) ELSE "_"
           a == Bump(s)
           renamed == Peek(a) = "as" /\ IsName(Peek2(a))
           b == IF renamed THEN Bump(Bump(a)) ELSE Opt(a, "as")
           both == seen \o <<field, IF renamed THEN Peek2(a) ELSE field>>
       IN  IF Peek(b) = "," THEN Destructured(Bump(b), both) ELSE Got(both, b)

(* A type after `let x:`; what is not a name, a number or part of a list of *)
(* parameters is left out                                                   *)
RECURSIVE LetType(_, _, _)
LetType(s, depth, seen) ==
  LET t == Peek(s)
  IN  IF t \in {"=", ";", "}", "eof"} \/ (depth = 0 /\ seen # <<>> /\ t \notin {"<", "["})
      THEN Got(IF seen = <<>> THEN None ELSE Type(seen), s)
      ELSE LetType(Bump(s), CASE t = "<" -> depth + 1 [] t = ">" /\ depth > 0 -> depth - 1
                              [] OTHER -> depth,
                   IF IsName(t) \/ t \in {"<", ">", ","} \cup Numerals THEN Append(seen, t) ELSE seen)

(* @valid, @decay_rate(5ms), @decayed(5ms)                                  *)
Lifetime(s) ==
  LET name == Peek2(s)
      a == Bump(Bump(s))
      ms == IF Peek(a) = "(" /\ IsCount(Peek2(a)) THEN Amount(Peek2(a)) ELSE "0"
      b == IF Peek(a) = "(" THEN Opt(Bump(Bump(a)), ")") ELSE a
  IN  CASE Peek(s) # "@" -> Got(<<"", "">>, s)
        [] Peek(s) = "@" /\ name \in {"valid", "Valid"} -> Got(<<"valid", "">>, a)
        [] Peek(s) = "@" /\ name \in {"decay_rate", "Decayed", "decayed"} ->
             Got(<<IF name = "decay_rate" THEN name ELSE "decayed", ms>>, b)
        [] OTHER -> Got(<<"", "">>, IF IsName(name) THEN a ELSE Bump(s))

LetStmt(s) ==
  LET a == Opt(Bump(s), "mut")
      fields == Destructured(Bump(a), <<>>)
      value == Expr(Opt(Opt(fields.s, "}"), "="))
      life == Lifetime(a)
      target == Peek(life.s)
      type == IF Peek2(life.s) = ":" THEN LetType(Bump(Bump(life.s)), 0, <<>>)
              ELSE Got(None, Bump(life.s))
      init == IF Peek(type.s) = "=" THEN Expr(Bump(type.s)) ELSE Got(Null, type.s)
  IN  CASE Peek(a) = "{" -> Got(Node("Destructure", fields.n, <<value.n>>), Opt(value.s, ";"))
        [] Peek(a) # "{" /\ ~AsName(target) -> Stop(s)
        [] OTHER -> Got(Assignment(target, IF Peek(Bump(s)) = "mut" THEN "mut" ELSE "",
                                   life.n[1], life.n[2], type.n, init.n), Opt(init.s, ";"))

(* state = e is an assignment; a declaration forgets its type               *)
StateStmt(s) ==
  LET a == Bump(s)
      value == Expr(Bump(a))
      name == IF IsName(Peek(a)) THEN Peek(a) ELSE ""
      b == IF IsName(Peek(a)) THEN Bump(a) ELSE a
      c == IF Peek(b) = ":" THEN SkipTo(Bump(b), {"=", ";"}) ELSE b
      e == Expr(Opt(c, "="))
  IN  IF Peek(a) = "=" THEN Got(Node("Assign", <<"state">>, <<value.n>>), value.s)
      ELSE Got(Node("State", <<name>>, <<e.n>>), e.s)

(* Assignments, to a variable, a field or an element, and expressions       *)
DefaultStmt(s) ==
  LET op == Peek2(s)
      value == Expr(Bump(Bump(s)))
      compound == Node("Binary", <<Tight(op)>>, <<Leaf("Ident", Peek(s)), value.n>>)
      e == Expr(s)
      new == Expr(Bump(e.s))
  IN  CASE IsName(Peek(s)) /\ op \in Compounds \cup {"="} ->
             Got(Node("Assign", <<Peek(s)>>, <<IF op = "=" THEN value.n ELSE compound>>), value.s)
        [] ~(IsName(Peek(s)) /\ op \in Compounds \cup {"="}) /\ Peek(e.s) # "=" ->
             Got(Node("Expr", <<>>, <<e.n>>), e.s)
        [] OTHER ->
             Got(CASE e.n.k = "Ident" -> Node("Assign", e.n.v, <<new.n>>)
                   [] e.n.k = "Field" -> Node("Update", e.n.v, <<e.n.c[1], new.n>>)
                   [] e.n.k = "Index" -> Node("Update", <<"">>, <<e.n, new.n>>)
                   [] OTHER -> Node("Expr", <<>>, <<new.n>>), new.s)
-----------------------------------------------------------------------------
(* Routines                                                                 *)

RECURSIVE Angled(_, _, _)
Angled(s, depth, seen) ==
  LET t == Peek(s)
      now == CASE t = "<" -> depth + 1 [] t = ">" -> depth - 1 [] OTHER -> depth
  IN  IF t = "eof" \/ (depth = 0 /\ t # "<") THEN Got(seen, s)
      ELSE IF now = 0 THEN Got(Append(seen, t), Bump(s))
      ELSE Angled(Bump(s), now, Append(seen, t))
Generics(s, keeps) ==
  LET a == Angled(s, 0, <<>>)
  IN  Got(SelectSeq(a.n, LAMBDA t : IsName(t) \/ t \in {"<", ">", ","} \cup keeps), a.s)

RECURSIVE Members(_, _)
Members(s, seen) ==
  IF Peek(s) # "." THEN Got(seen, s)
  ELSE LET a == Bump(s)
       IN  IF IsName(Peek(a)) \/ Peek(a) \in {"send", "type", "auto"}
           THEN Members(Bump(a), seen \o <<".", Peek(a)>>) ELSE Members(a, seen)

Modes == {"consume", "clone", "decay", "peek"}
ParamType(s) ==
  LET named == IsName(Peek(s)) \/ Peek(s) = "struct"
      generic == Generics(IF named THEN Bump(s) ELSE s, Numerals \cup Durations)
  IN  Got((IF named THEN <<Peek(s)>> ELSE <<>>) \o generic.n, SkipTo(generic.s, {",", ")"}))

(* Parameters; `self` without a type has the one the routine belongs to     *)
RECURSIVE Params(_, _, _)
Params(s, receiver, seen) ==
  LET a == Opt(s, "&")
      moded == Peek(a) \in Modes /\ (IsName(Peek2(a)) \/ Peek2(a) = "&")
      b == IF moded THEN Opt(Bump(a), "&") ELSE a
      name == Peek(b)
      type == IF Peek2(b) = ":" THEN ParamType(Bump(Bump(b))) ELSE Got(<<>>, Bump(b))
      of == IF type.n = <<>> /\ name = "self" THEN receiver
            ELSE IF type.n = <<>> THEN None ELSE Type(type.n)
      param == Node("param", <<IF moded THEN Peek(a) ELSE "peek", name>>, <<of>>)
  IN  IF Peek(s) \in {")", "eof"} THEN Got(Block(seen), Opt(s, ")"))
      ELSE IF IsName(name) \/ name \in {"type", "send"}
           THEN Params(Opt(type.s, ","), receiver, Append(seen, param))
           ELSE Params(Bump(b), receiver, seen)

RECURSIVE Capability(_, _), Capabilities(_, _)
Capability(s, seen) ==
  IF IsName(Peek(s)) \/ Peek(s) = "." THEN Capability(Bump(s), Append(seen, Peek(s)))
  ELSE Got(IF seen = <<>> THEN <<>> ELSE <<Node("capability", seen, <<>>)>>, s)
Capabilities(s, seen) ==
  IF Peek(s) \in {"]", "eof"} THEN Got(seen, Opt(s, "]"))
  ELSE LET a == Capability(s, <<>>)
       IN  IF a.s.t = s.t /\ Peek(s) # "," THEN Got(seen, Failed(s, "hang"))
           ELSE Capabilities(Opt(a.s, ","), seen \o a.n)

(* where x.state == S                                                       *)
Constraint(s) ==
  LET v == IF IsName(Peek(s)) THEN Peek(s) ELSE "self"
      a == IF IsName(Peek(s)) THEN Bump(s) ELSE s
      b == Opt(IF Peek(a) = "." THEN Opt(Bump(a), "state") ELSE a, "==")
      given == IsName(Peek(b)) \/ Peek(b) \in States
  IN  Got(Node("where", <<v, IF given THEN Peek(b) ELSE "Valid">>, <<>>),
          IF given THEN Bump(b) ELSE b)

(* What stands between the parameters and the body, in any order.  A bound  *)
(* of `_` is no bound; the rest of a type after its first name is skipped.  *)
RECURSIVE Clauses(_, _), TypeRest(_)
TypeRest(s) ==
  IF \/ Peek(s) \in {"taking", "require", "{", "=>", ";", "eof"}
     \/ Peek(s) = "(" /\ Peek2(s) = "taking"
  THEN s ELSE TypeRest(Bump(s))
Clauses(s, h) ==
  LET paren == Peek(s) = "(" /\ Peek2(s) = "taking"
      t == IF paren THEN "taking" ELSE Peek(s)
      a == IF paren THEN Bump(Bump(s)) ELSE Bump(s)
      caps == IF Peek(a) = "[" THEN Capabilities(Bump(a), <<>>) ELSE Capability(a, <<>>)
      type == IF IsName(Peek(a)) THEN Bump(a) ELSE a
      timed == IF IsCount(Peek(a)) \/ IsName(Peek(a)) THEN Bump(a) ELSE a
      bound == IF IsCount(Peek(a)) THEN Amount(Peek(a)) ELSE h.taking
      where == Constraint(a)
      b == IF paren THEN Opt(timed, ")") ELSE timed
  IN  CASE t \in {"{", "=>", ";", "routine", "}", "eof"} -> Got(h, s)
        [] t \in {"require", "requires"} -> Clauses(caps.s, [h EXCEPT !.requires = @ \o caps.n])
        [] t = "->" ->
             Clauses(TypeRest(type), IF IsName(Peek(a)) THEN [h EXCEPT !.returns = Type(<<Peek(a)>>)] ELSE h)
        [] t = "taking" -> Clauses(b, [h EXCEPT !.taking = bound])
        [] t = "where" -> Clauses(where.s, [h EXCEPT !.where = where.n])
        [] OTHER -> Clauses(a, h)

RoutineNode(name, params, h, body) ==
  Node("Routine", name, <<params, h.returns, Leaf("taking", h.taking), h.where,
                          Block(h.requires), body>>)
NoClauses == [returns |-> None, taking |-> "", where |-> None, requires |-> <<>>]

RoutineStmt(s) ==
  LET a == Opt(s, "pub")
      b == Bump(a)
      generic == Generics(Bump(b), {})
      name == Members(generic.s, <<Peek(b)>> \o generic.n)
      receiver == IF "." \in Range(name.n)
                  THEN Type(SubSeq(name.n, 1, Min(Where(name.n, ".")) - 1)) ELSE None
      params == Params(Opt(name.s, "("), receiver, <<>>)
      h == Clauses(params.s, NoClauses)
      value == Expr(Bump(h.s))
      return == Node("Return", <<>>, <<value.n>>)
      body == CASE Peek(h.s) = "=>" -> Got(Block(<<return>>), Pushed(value.s, "stmt", return))
                [] Peek(h.s) = "{" -> Body(h.s)
                [] OTHER -> Got(Block(<<>>), Opt(h.s, ";"))
  IN  IF Peek(a) # "routine" \/ ~(IsName(Peek(b)) \/ Peek(b) = "send") THEN Stop(s)
      ELSE Got(RoutineNode(name.n, params.n, h.n, body.n), body.s)

(* on Pattern::Case taking 5ms { ... }                                      *)
RECURSIVE Message(_, _)
Message(s, seen) ==
  IF ~IsName(Peek(s)) THEN Got(seen, s)
  ELSE IF Peek2(s) # "::" THEN Got(Append(seen, Peek(s)), Bump(s))
  ELSE Message(Bump(Bump(s)), seen \o <<Peek(s), "::">>)
OnStmt(s, prefix) ==
  LET name == Message(Bump(s), prefix)
      timed == Peek(name.s) = "taking" /\ IsCount(Peek2(name.s))
      body == Body(IF timed THEN Bump(Bump(name.s)) ELSE Opt(name.s, "taking"))
  IN  Got(RoutineNode(name.n, Block(<<>>),
                   [NoClauses EXCEPT !.taking = IF timed THEN Amount(Peek2(name.s)) ELSE ""],
                   body.n), body.s)

-----------------------------------------------------------------------------
(* Isolates and actors                                                      *)

EnableStmt(s) ==
  LET named == IsName(Peek(Bump(s)))
      a == IF named THEN Bump(Bump(s)) ELSE Bump(s)
      n == Peek2(a)
      b == IF IsCount(n) THEN Bump(Bump(a)) ELSE Bump(a)
      unit == IF IsName(Peek(b)) THEN Peek(b) ELSE IF n \in Durations THEN "ms" ELSE ""
      enable(amount, of) == Node("Enable", <<IF named THEN Peek(Bump(s)) ELSE "", amount, of>>, <<>>)
  IN  IF Peek(a) # "(" THEN Got(enable("0", ""), a)
      ELSE Got(enable(IF IsCount(n) THEN Amount(n) ELSE "0", unit),
               Opt(IF IsName(Peek(b)) THEN Bump(b) ELSE b, ")"))

(* require net.send(port = "t")                                             *)
RECURSIVE Settings(_, _)
Settings(s, seen) ==
  LET given == IsName(Peek(s)) /\ Peek2(s) = "="
      a == IF given THEN Bump(Bump(s)) ELSE IF IsName(Peek(s)) THEN Bump(s) ELSE s
      value == IF IsName(Peek(a)) \/ Peek(a) \in Texts THEN Peek(a) ELSE ""
      b == IF given THEN Bump(a) ELSE a
      all == IF given THEN Append(seen, Node("setting", <<Peek(s), value>>, <<>>)) ELSE seen
  IN  IF Peek(s) \in {")", "eof"} THEN Got(seen, s)
      ELSE IF Peek(b) = "," THEN Settings(Bump(b), all) ELSE Got(all, b)

RequireStmt(s) ==
  LET a == Dotted(Bump(s), <<>>)
      set == IF Peek(a.s) = "(" THEN Settings(Bump(a.s), <<>>) ELSE Got(<<>>, a.s)
  IN  Got(Node("Capability", a.n, AsMap(set.n)), IF Peek(a.s) = "(" THEN Opt(set.s, ")") ELSE a.s)

(* The capabilities and budgets a block begins with are its manifest        *)
Bytes(amount, unit) == IF unit = "KB" THEN ToString(Value(amount) * 1024) ELSE amount
Isolated(name, nodes) ==
  LET InManifest(i) == \A j \in 1..i : nodes[j].k \in {"Capability", "Enable"}
      size == Cardinality({i \in DOMAIN nodes : InManifest(i)})
      given == SelectSeq(SubSeq(nodes, 1, size), LAMBDA n : n.k = "Enable")
      Budget(of) == LET at == {i \in DOMAIN given : given[i].v[1] = of}
                        last == given[Max(at)]
                    IN  IF at = {} THEN "" ELSE IF of = "memory" THEN Bytes(last.v[2], last.v[3])
                        ELSE last.v[2]
      others == SelectSeq(given, LAMBDA n : n.v[1] \notin {"cpu", "memory", "slice"})
      budgets == AsMap([i \in DOMAIN others |->
                          Node("budget", SubSeq(others[i].v, 1, 2), <<>>)])
      manifest == Node("manifest", <<Budget("cpu"), Budget("memory"), Budget("slice")>>,
                       <<Block(SelectSeq(SubSeq(nodes, 1, size), LAMBDA n : n.k = "Capability")),
                         Block(budgets)>>)
  IN  Node("Isolate", <<name>>, <<manifest, Lowered(SubSeq(nodes, size + 1, Len(nodes)))>>)

RECURSIVE Handlers(_, _, _)
Handlers(s, actor, seen) ==
  LET on == OnStmt(s, <<actor, "::">>)
      n == Peek2(s)
      slice == Node("Enable", <<"slice", IF IsCount(n) THEN Amount(n) ELSE "0", "ms">>, <<>>)
      a == CASE Peek(s) = "on" -> on
             [] Peek(s) = "slice" -> Got(slice, IF IsCount(n) THEN Bump(Bump(s)) ELSE Bump(s))
             [] OTHER -> Statement(s)
  IN  IF Peek(s) \in {"}", "eof"} THEN Got(seen, Opt(s, "}"))
      ELSE IF a.n = None /\ a.s.t = s.t THEN Got(seen, Failed(s, "hang"))
      ELSE Handlers(a.s, actor, IF a.n = None THEN seen ELSE Append(seen, a.n))

IsolateStmt(s) ==
  LET named == IsName(Peek2(s))
      name == IF named THEN Peek2(s) ELSE "anonymous"
      a == IF named THEN Bump(Bump(s)) ELSE Bump(s)
      list == Handlers(Bump(a), name, <<>>)
      body == CASE Peek(s) = "isolate" -> Raw(a)
                [] Peek(s) = "actor" /\ Peek(a) = "{" -> Got(list.n, PushedAll(list.s, "stmt", list.n))
                [] OTHER -> Got(<<>>, a)
  IN  Got(Isolated(name, body.n), body.s)

-----------------------------------------------------------------------------
(* Types and interfaces                                                     *)

RECURSIVE Extends(_, _)
Extends(s, seen) ==
  IF IsName(Peek(s)) THEN Extends(Bump(s), Append(seen, Peek(s)))
  ELSE IF Peek(s) \in {"+", "interface"} THEN Extends(Bump(s), seen) ELSE Got(seen, s)

(* A method is a routine; one whose body is empty has none                  *)
InterfaceStmt(s) ==
  LET name == Bump(s)
      a == Angled(Bump(name), 0, <<>>).s
      b == IF Peek(a) = "decay_after" THEN IF IsCount(Peek2(a)) THEN Bump(Bump(a)) ELSE Bump(a) ELSE a
      parents == IF Peek(b) = "=" THEN Extends(Bump(b), <<>>) ELSE Got(<<>>, b)
      list == Sequence(Bump(parents.s), {"}"}, <<>>)
      methods == SelectSeq(list.n, LAMBDA n : n.k = "Routine")
      node(nodes) == Node("Interface", <<Peek(name)>> \o parents.n, nodes)
  IN  IF ~IsName(Peek(name)) THEN Stop(s)
      ELSE IF Peek(parents.s) # "{" THEN Got(node(<<>>), parents.s)
      ELSE Got(node([i \in DOMAIN methods |-> [methods[i] EXCEPT !.at = <<>>]]),
               PushedAll(Opt(list.s, "}"), "stmt", list.n))

FieldDef(const, name, type, value) == Node("field", <<name, const>>, <<type, value>>)

RECURSIVE FieldDefs(_, _)
FieldDefs(s, seen) ==
  LET const == IF Peek(s) = "const" THEN "const" ELSE ""
      a == Opt(s, "const")
      b == Bump(a)
      typed == Peek(b) = ":" /\ IsName(Peek2(b))
      type == IF typed THEN Type(<<Peek2(b)>>) ELSE Type(<<"any">>)
      c == IF Peek(b) = ":" THEN SkipTo(Bump(b), {"=", ",", "}"}) ELSE b
      value == IF Peek(c) = "=" THEN Expr(Bump(c)) ELSE Got(None, c)
      def == FieldDef(const, Peek(a), type, value.n)
  IN  IF Peek(s) \in {"}", "eof"} THEN Got(seen, Opt(s, "}"))
      ELSE IF ~IsName(Peek(a)) THEN FieldDefs(b, seen)
      ELSE FieldDefs(Opt(value.s, ","), Append(seen, def))

(* decay_after 5ms, auto_drop("lib", "routine", field)                      *)
RECURSIVE Lifecycle(_, _)
Lifecycle(s, l) ==
  LET a == Bump(s)
      At(i) == IF Len(a.t) < i THEN "eof" ELSE a.t[i]
      text(i) == IF At(i) \in Texts THEN At(i) ELSE ""
      drop == Node("drop", <<text(2), text(4), IF IsName(At(6)) THEN At(6) ELSE "">>, <<>>)
  IN  IF Peek(s) = "decay_after"
      THEN IF IsCount(Peek(a)) THEN Lifecycle(Bump(a), [l EXCEPT !.decay = Amount(Peek(a))])
           ELSE Lifecycle(a, l)
      ELSE IF Peek(s) \in {"auto_drop", "auto"}
      THEN IF At(1) = "(" /\ At(3) = "," /\ At(5) = "," /\ At(7) = ")"
           THEN Lifecycle([a EXCEPT !.t = SubSeq(a.t, 8, Len(a.t))], [l EXCEPT !.drop = drop])
           ELSE Lifecycle(a, l)
      ELSE Got(l, s)

(* A distinct type and an alias become a struct of one field, whose default *)
(* is expression 0                                                          *)
TypeStmt(s) ==
  LET name == Bump(s)
      a == OptIn(Angled(Bump(name), 0, <<>>).s, {"=", ":"})
      node(parent, l, fields) ==
        Node("TypeDecl", <<Peek(name), parent, l.decay>>, <<l.drop>> \o AsMap(fields))
      plain == [decay |-> "", drop |-> None]
      parented == IsName(Peek(a)) /\ Peek2(a) = "+"
      b == IF Peek(a) = "struct" THEN Bump(a)
           ELSE IF parented THEN Opt(Bump(Bump(a)), "struct") ELSE a
      before == Lifecycle(b, plain)
      list == IF Peek(before.s) = "{" THEN FieldDefs(Bump(before.s), <<>>) ELSE Got(<<>>, before.s)
      after == Lifecycle(list.s, before.n)
  IN  CASE ~IsName(Peek(name)) -> Stop(s)
        [] IsName(Peek(name)) /\ Peek(a) = "distinct" ->
             Got(node("", plain, <<FieldDef("", "value", Type(<<"any">>), ExprZero)>>),
                 IF IsName(Peek2(a)) THEN Bump(Bump(a)) ELSE Bump(a))
        [] IsName(Peek(name)) /\ IsName(Peek(a)) /\ ~parented ->
             Got(node("", plain, <<FieldDef("", Peek(a), Type(<<Peek(a)>>), ExprZero)>>), Bump(a))
        [] OTHER -> Got(node(IF parented THEN Peek(a) ELSE "", after.n, list.n), after.s)

RECURSIVE VariantDefs(_, _)
VariantDefs(s, seen) ==
  LET payload == IF Peek2(s) = "(" THEN Names(Bump(Bump(s)), ")", <<>>) ELSE Got(<<>>, Bump(s))
      def == Node("variant", <<IF Peek(s) = "lease" THEN "Leased" ELSE Peek(s)>> \o payload.n, <<>>)
  IN  IF Peek(s) \in {"}", "eof"} THEN Got(seen, Opt(s, "}"))
      ELSE IF IsVariant(Peek(s)) THEN VariantDefs(Opt(payload.s, ","), Append(seen, def))
      ELSE VariantDefs(Bump(s), seen)

EnumStmt(s) ==
  LET a == Bump(Bump(s))
      list == IF Peek(a) = "{" THEN VariantDefs(Bump(a), <<>>) ELSE Got(<<>>, a)
  IN  IF IsName(Peek2(s)) THEN Got(Node("Enum", <<Peek2(s)>>, list.n), list.s) ELSE Stop(s)

-----------------------------------------------------------------------------
(* Imports                                                                  *)

ImportStmt(s) ==
  LET a == Bump(Bump(s))
      named == Peek(a) = "as" /\ IsName(Peek2(a))
  IN  IF Peek2(s) \notin Texts THEN Stop(s)
      ELSE Got(Node("Import", <<Peek2(s), IF named THEN Peek2(a) ELSE "">>, <<>>),
               IF named THEN Bump(Bump(a)) ELSE Opt(a, "as"))

RECURSIVE Imported(_, _)
Imported(s, seen) ==
  LET a == Bump(s)
      named == Peek(a) = "as" /\ IsName(Peek2(a))
      b == IF named THEN Bump(Bump(a)) ELSE Opt(a, "as")
      item == Node("item", <<Peek(s), IF named THEN Peek2(a) ELSE "">>, <<>>)
  IN  IF Peek(s) = "*" THEN Got(Append(seen, Node("item", <<"*", "">>, <<>>)), a)
      ELSE IF IsName(Peek(s)) THEN Imported(Opt(b, ","), Append(seen, item)) ELSE Got(seen, s)

FromStmt(s) ==
  LET list == Imported(Opt(Bump(Bump(s)), "import"), <<>>)
  IN  IF Peek2(s) \notin Texts THEN Stop(s) ELSE Got(Node("From", <<Peek2(s)>>, list.n), list.s)

ForeignStmt(s) ==
  LET lib == IF Peek2(s) \in Texts THEN Peek2(s) ELSE ""
      a == OptIn(Bump(s), Texts)
      given == Peek(a) = "abi" /\ Peek2(a) = "("
      b == IF given THEN Bump(Bump(a)) ELSE Opt(a, "abi")
      abi == IF given /\ Peek(b) \in Texts THEN Peek(b) ELSE "'C'"
      c == IF given THEN Opt(OptIn(b, Texts), ")") ELSE b
      list == Sequence(Bump(c), {"}"}, <<>>)
  IN  IF Peek(c) # "{" THEN Got(Node("Foreign", <<lib, abi>>, <<Block(<<>>)>>), c)
      ELSE Got(Node("Foreign", <<lib, abi>>, <<Lowered(list.n)>>),
               PushedAll(Opt(list.s, "}"), "stmt", list.n))

-----------------------------------------------------------------------------
(* Timelines                                                                *)

Branches(s) ==
  LET a == Opt(s, "into") IN IF Peek(a) = "[" THEN Names(Bump(a), "]", <<>>) ELSE Got(<<>>, a)

SplitStmt(s) ==
  LET named == IsName(Peek2(s))
      list == Branches(IF named THEN Bump(Bump(s)) ELSE Bump(s))
  IN  Got(Node("Split", <<IF named THEN Peek2(s) ELSE "main">> \o list.n, <<>>), list.s)

(* The rules of a merge, and of a topology: key = strategy, ..., and        *)
(* on_invalid: rewind b to a                                                *)
Reversion(s) ==
  LET a == IF IsName(Peek(s)) THEN Bump(s) ELSE s
      b == Opt(a, "to")
      name(r) == IF IsName(Peek(r)) THEN Peek(r) ELSE ""
  IN  Got(Node("rule", <<"on_invalid", name(s), name(b)>>, <<>>), IF IsName(Peek(b)) THEN Bump(b) ELSE b)

RECURSIVE Rules(_, _, _)
Rules(s, close, seen) ==
  LET key == Peek(s)
      rule == Strategy(Bump(Bump(s)))
      given == Peek2(s) \in {":", "="}
      back == Reversion(Opt(Opt(Bump(s), ":"), "rewind"))
  IN  IF key \in {close, "eof"} THEN Got(seen, Opt(s, close))
      ELSE IF key = "on_invalid" /\ close = "}" THEN Rules(Opt(back.s, ","), close, Append(seen, back.n))
      ELSE IF (IsName(key) \/ key \in Texts) /\ given
      THEN Rules(Opt(rule.s, ","), close, Append(seen, Node("rule", <<key>>, <<rule.n>>)))
      ELSE Rules(Opt(Bump(s), ","), close, seen)

Strategy(s) ==
  LET t == Peek(s)
      a == Bump(s)
      named == Peek(a) = "(" /\ IsName(Peek2(a))
      b == IF named THEN Opt(Bump(Bump(a)), ")") ELSE IF Peek(a) = "(" THEN Opt(Bump(a), ")") ELSE a
      rules == Rules(Opt(a, "{"), "}", <<>>)
  IN  CASE t \in {"topology_union", "topology_intersect"} ->
             Got(Node(t, <<>>, AsMap(<<Node("rule", <<"_">>, <<Leaf("strategy", "decay")>>)>> \o rules.n)),
                 rules.s)
        [] t = "priority" -> Got(Leaf("priority", IF named THEN Peek2(a) ELSE ""), b)
        [] t \in {"first_wins", "decay", "auto"} -> Got(Leaf("strategy", t), a)
        [] OTHER -> Got(Leaf(IF IsName(t) THEN "priority" ELSE "custom", t), a)

MergeStmt(s) ==
  LET list == IF Peek2(s) = "[" THEN Names(Bump(Bump(s)), "]", <<>>) ELSE Got(<<>>, Bump(s))
      a == Opt(list.s, "into")
      b == IF IsName(Peek(a)) THEN Bump(a) ELSE a
      timed == Peek(b) \in {"taking", "for"} \/ IsCount(Peek(b))
      limit == IF timed THEN Limit(OptIn(b, {"taking", "for"})) ELSE Got("", b)
      c == Bump(limit.s)
      rules == Rules(Bump(c), ")", <<>>)
      reconcile == CASE Peek(limit.s) # "reconcile" -> Got(<<"", <<>>>>, limit.s)
                     [] Peek(limit.s) = "reconcile" /\ Peek(c) = "(" -> Got(<<"", rules.n>>, rules.s)
                     [] OTHER -> Got(<<"auto", <<>>>>, Opt(c, "auto"))
  IN  Got(Node("Merge", <<IF IsName(Peek(a)) THEN Peek(a) ELSE "main", reconcile.n[1], limit.n>> \o list.n,
               AsMap(reconcile.n[2])), reconcile.s)

(* `send(x) to b` is a message, whose payload the syntax tree leaves out;   *)
(* any other send is a call                                                 *)
RECURSIVE Closing(_, _, _)
Closing(t, i, depth) ==
  IF i > Len(t) THEN i
  ELSE IF t[i] = ")" /\ depth = 1 THEN i
  ELSE Closing(t, i + 1, CASE t[i] = "(" -> depth + 1 [] t[i] = ")" -> depth - 1 [] OTHER -> depth)

SendStmt(s) ==
  LET i == Closing(s.t, 2, 0)
      channel == Peek2(s) = "(" /\ i < Len(s.t) /\ s.t[i + 1] = "to"
      payload == Expr(OptIn(Bump(Bump(s)), Modes))
      a == Opt(Opt(payload.s, ")"), "to")
      e == Expr(s)
  IN  IF ~channel THEN Got(Node("Expr", <<>>, <<e.n>>), e.s)
      ELSE Got(Leaf("Send", IF IsName(Peek(a)) THEN Peek(a) ELSE "target"),
               IF IsName(Peek(a)) THEN Bump(a) ELSE a)

OnDecayStmt(s) ==
  LET a == Opt(Bump(s), "(")
      named == IsName(Peek(a))
      body == Body(Opt(IF named THEN Bump(a) ELSE a, ")"))
  IN  Got(Node("OnDecay", <<IF named THEN Peek(a) ELSE "">>, <<body.n>>), body.s)

EntangleStmt(s) ==
  LET list == IF Peek2(s) = "(" THEN Names(Bump(Bump(s)), ")", <<>>) ELSE Got(<<>>, Bump(s))
  IN  Got(Node("Entangle", list.n, <<>>), list.s)

(* Only an assignment is a case, without a body; what the timeout holds is  *)
(* looked through for assignments, and dropped                              *)
RECURSIVE Cases(_)
Cases(s) ==
  LET case == Statement(Bump(s))
  IN  CASE Peek(s) \in {"}", "eof"} -> Opt(s, "}")
        [] Peek(s) = "case" -> Cases(IF case.n = None THEN case.s ELSE Pushed(case.s, "stmt", case.n))
        [] Peek(s) = "timeout" -> Cases(Raw(Opt(Bump(s), ":")).s)
        [] OTHER -> Cases(Bump(s))
SelectStmt(s) ==
  LET limit == Limit(Bump(s))
      after == IF Peek(limit.s) = "{" THEN Cases(Bump(limit.s)) ELSE limit.s
      cases == SelectSeq(Since(limit.s, after, "stmt"), LAMBDA n : n.k = "Assign")
  IN  Got(Node("Select", <<IF limit.n = "" THEN "1000" ELSE limit.n>>,
               [i \in DOMAIN cases |-> [cases[i] EXCEPT !.k = "case", !.at = <<>>]]),
          Reconciled(after, {}, {"("}).s)

SpeculateStmtBare(s) ==                           \* mutant
  LET limit == Limit(Bump(s))
      body == Body(limit.s)
  IN  Got(Node("Speculate", <<IF limit.n = "" THEN "0" ELSE limit.n>>, <<body.n, None>>),
          BodyAfter(body.s, "fallback").s)
SpeculateStmt(s) ==
  LET limit == Limit(Bump(s))
      body == Body(limit.s)
      fallback == BodyAfter(body.s, "fallback")
  IN  Got(Node("Speculate", <<IF limit.n = "" THEN "0" ELSE limit.n>>, <<body.n, fallback.n>>),
          fallback.s)

(* assert_time(elapsed < 5ms) { ... }                                       *)
AssertTimeStmt(s) ==
  LET a == Opt(Bump(Bump(s)), "elapsed")
      compares == Peek(a) \in {"==", "!=", "<", "<=", ">", ">="}
      b == IF compares THEN Bump(a) ELSE a
      c == Opt(IF IsCount(Peek(b)) THEN Bump(b) ELSE b, ")")
      node(op, ms, fallback) == Node("AssertTime", <<op, ms>>, <<fallback>>)
      d == IF Peek2(s) = "(" THEN c ELSE Bump(s)
      fallback == IF Peek(d) = "{" THEN Body(d) ELSE Got(None, d)
  IN  IF Peek2(s) # "(" THEN Got(node("==", "0", fallback.n), fallback.s)
      ELSE Got(node(IF compares THEN Peek(a) ELSE "==", IF IsCount(Peek(b)) THEN Amount(Peek(b)) ELSE "0",
                    fallback.n), fallback.s)

LeaseStmt(s) ==
  LET name == Bump(s)
      source == Opt(Bump(name), "=")
      limit == Limit(OptIn(Bump(source), {"for", "taking"}))
      body == Body(limit.s)
      reconcile == Reconciled(body.s, {}, {"("})
  IN  Got(Node("Lease", <<IF AsName(Peek(name)) THEN Peek(name) ELSE "res",
                          IF AsName(Peek(source)) THEN Peek(source) ELSE "src",
                          IF limit.n = "" THEN "1000" ELSE limit.n, reconcile.n>>, <<body.n>>),
          reconcile.s)

PolicyStmt(s) ==
  LET a == Opt(Bump(Bump(s)), "=")
      target == Peek2(s)
      kind == Peek(a)
  IN  Got(Node("Policy", <<IF target \in {"on_deadline_breach", "on_overflow"} THEN target ELSE "on_full",
                           IF kind \in {"RingBuffer", "Throttle", "FailFast"} THEN kind
                           ELSE "EvictDecayed">>, <<>>), Bump(a))

-----------------------------------------------------------------------------
(* Control                                                                  *)

(* A test of a variable's type binds it; any other pattern is matched       *)
IfLetStmt(s) ==
  LET p == PatternUpTo(Bump(Bump(s)), {"="}, 0, <<>>)
      e == ExprBare(Opt(p.s, "="))
      yes == Body(e.s)
      no == BodyAfter(yes.s, "else")
      reconcile == Reconciled(no.s, {}, {})
      pattern == PatternOf(p.n)
  IN  Got(IF e.n.k = "Assertion" /\ pattern.k = "PIdent"
          THEN Node("If", <<reconcile.n>> \o pattern.v, <<e.n, yes.n, no.n>>)
          ELSE Node("IfLet", <<reconcile.n>>, <<e.n, yes.n, no.n, pattern>>), reconcile.s)

IfStmt(s) ==
  LET e == ExprBare(Bump(s))
      yes == Body(e.s)
      no == BodyAfter(yes.s, "else")
      reconcile == Reconciled(no.s, {"(", "{"}, {})
  IN  IF Peek2(s) = "let" THEN IfLetStmt(s)
      ELSE Got(Node("If", <<reconcile.n>>, <<e.n, yes.n, no.n>>), reconcile.s)

UsingStmt(s) ==
  LET e == Expr(Opt(Bump(Bump(s)), "="))
      body == Body(e.s)
  IN  IF IsName(Peek2(s)) THEN Got(Node("Using", <<Peek2(s)>>, <<e.n, body.n>>), body.s) ELSE Stop(s)

(* The pace of a loop is a slice at the end of its body                     *)
Paced(body, step) ==
  IF step = "" THEN body ELSE [body EXCEPT !.c = Append(@, Leaf("Slice", step))]
OrZero(ms) == IF ms = "" THEN "0" ELSE ms

LoopStmt(s) ==
  LET e == Expr(Bump(Bump(s)))
      on == Body(e.s)
      m == Modified(Bump(s))
      body == Body(m.s)
  IN  CASE Peek2(s) = "on" -> Got(Node("LoopOn", <<>>, <<e.n, on.n>>), on.s)
        [] Peek2(s) # "on" /\ (m.n.tick \/ (m.n.max = "" /\ m.n.step = "")) ->
             Got(Node("LoopTick", <<>>, <<body.n>>), body.s)
        [] OTHER -> Got(Node("Loop", <<OrZero(m.n.max)>>, <<Paced(body.n, m.n.step)>>), body.s)

WhileStmt(s) ==
  LET e == Expr(Bump(s))
      m == Modified(e.s)
      body == Body(m.s)
      valid == e.n.k = "Call" /\ e.n.v = <<"valid">> /\ Len(e.n.c) = 1
  IN  Got(Node("While", <<OrZero(m.n.max), IF valid THEN "valid" ELSE "">>,
               <<IF valid THEN e.n.c[1] ELSE e.n, Paced(body.n, m.n.step)>>), body.s)

(* Both bounds literal, a range is the array of its numbers, without the    *)
(* last one even after `..=`; otherwise its end is forgotten                *)
RangeOf(from, upto) ==
  IF from.k = "Int" /\ upto.k = "Int"
  THEN LET n == Value(from.v[1])
           size == Max({0, Value(upto.v[1]) - n})
       IN  Node("Array", <<>>, [i \in 1..size |-> Leaf("Int", ToString(n + i - 1))])
  ELSE from

ForStmt(s) ==
  LET var == IF AsName(Peek2(s)) THEN Peek2(s) ELSE "i"
      a == Bump(Bump(s))
      mode == IF Peek(a) \in Modes THEN Peek(a) ELSE "peek"
      e == Expr(IF Peek(a) = "in" THEN Bump(a) ELSE Opt(OptIn(a, Modes), "in"))
      ranged == Peek(e.s) \in {"..", "..="}
      upto == Expr(Bump(e.s))
      m == Modified(IF ranged THEN upto.s ELSE e.s)
      body == Body(m.s)
      step == IF m.n.step \in {"0", Forever} THEN "" ELSE m.n.step
      steps == mode = "peek" /\ m.n.max = "" /\ m.n.paced
  IN  IF ranged
      THEN Got(Node("ForStep", <<var, IF m.n.step = "" THEN "1" ELSE step>>,
                    <<RangeOf(e.n, upto.n), body.n>>), body.s)
      ELSE IF steps THEN Got(Node("ForStep", <<var, step>>, <<e.n, body.n>>), body.s)
      ELSE Got(Node("For", <<var, mode, IF e.n.k = "Ident" THEN e.n.v[1] ELSE "__iter",
                             m.n.step, m.n.max>>, <<body.n>>), body.s)

(* An arm without braces reaches to the next arm, or what looks like one    *)
RECURSIVE ArmBody(_, _)
ArmBody(s, start) ==
  LET next == \/ Peek(s) \in States
              \/ IsName(Peek(s)) /\ Peek2(s) \in {":", "=>", "("}
      a == Statement(s)
  IN  IF Peek(s) \in {"}", "eof"} \/ (next /\ Len(s.pool) > start) THEN s
      ELSE IF a.n = None THEN a.s
      ELSE ArmBody(Pushed(a.s, "stmt", a.n), start)

RECURSIVE Arms(_, _)
Arms(s, seen) ==
  LET p == PatternUpTo(s, ArmStops, 0, <<>>)
      guard == IF Peek(p.s) = "if" THEN Expr(Bump(p.s)) ELSE Got(None, p.s)
      a == OptIn(guard.s, {":", "=>"})
      braced == Body(a)
      after == ArmBody(a, Len(a.pool))
      body == IF Peek(a) = "{" THEN braced ELSE Got(Lowered(Since(a, after, "stmt")), after)
      arm == [p |-> p.n, guard |-> guard.n, body |-> body.n]
  IN  IF Peek(s) \in {"}", "eof"} THEN Got(seen, Opt(s, "}"))
      ELSE Arms(OptIn(body.s, {",", ";"}), Append(seen, arm))

(* Arms that begin with a state make it a match on entropy: the first for   *)
(* Valid, the last for the others, and arms of other patterns are dropped   *)
Entropic(arms) ==
  LET Starts(a, state) == a.p # <<>> /\ a.p[1] = state
      Of(state) == {i \in DOMAIN arms : IF state \in {"Valid", "Decayed"} THEN Starts(arms[i], state)
                                        ELSE arms[i].p = <<state>>}
      Binding(p) == IF Len(p) > 2 /\ p[2] = "(" THEN p[3] ELSE ""
      Taken(state) ==
        LET i == IF state = "Valid" THEN Min(Of(state)) ELSE Max(Of(state))
        IN  IF Of(state) = {} THEN None
            ELSE Branch(state, IF state = "Valid" THEN Binding(arms[i].p) ELSE "",
                        arms[i].guard, arms[i].body)
  IN  <<Taken("Valid"), Taken("Decayed"), Taken("Pending"), Taken("Consumed")>>

MatchStmt(s) ==
  LET target == Expr(Bump(s))
      list == IF Peek(target.s) = "{" THEN Arms(Bump(target.s), <<>>) ELSE Got(<<>>, target.s)
      states == Entropic(list.n)
      arms == [i \in DOMAIN list.n |->
                 Node("arm", <<>>, <<PatternOf(list.n[i].p), list.n[i].guard, list.n[i].body>>)]
      of == IF EntropyOf(target.n) THEN target.n.c[1] ELSE target.n
  IN  IF states = <<None, None, None, None>>
      THEN Got(Node("Match", <<>>, <<target.n>> \o arms), list.s)
      ELSE Got(Node("MatchEntropy", <<>>, <<of>> \o states), list.s)

-----------------------------------------------------------------------------
(* Macros: macro m!($x:expr => { ... }).  A kind that is a keyword stops    *)
(* the list of parameters for ever.                                         *)

RECURSIVE MacroParams(_, _), Template(_, _, _)
MacroParams(s, seen) ==
  LET a == Opt(s, "$")
      kind == IF Peek2(a) = ":" THEN Bump(Bump(a)) ELSE Bump(a)
      b == IF ~IsName(Peek(a)) THEN a
           ELSE IF Peek2(a) = ":" /\ IsName(Peek(kind)) THEN Bump(kind) ELSE kind
      c == Opt(b, ",")
  IN  IF Peek(s) \in {"=>", ")", "eof"} THEN Got(seen, Opt(s, "=>"))
      ELSE IF c.t = s.t THEN Got(seen, Failed(s, "hang"))
      ELSE MacroParams(c, IF IsName(Peek(a)) THEN Append(seen, Peek(a)) ELSE seen)

Template(s, depth, seen) ==
  LET t == Peek(s)
      now == CASE t = "{" -> depth + 1 [] t = "}" -> depth - 1 [] OTHER -> depth
  IN  IF t = "eof" THEN Got(<<>>, s)
      ELSE IF now = 0 THEN Got(seen, Bump(s))
      ELSE Template(Bump(s), now, Append(seen, t))

MacroStmt(s) ==
  LET a == Opt(Bump(Bump(s)), "!")
      params == IF Peek(a) = "(" THEN MacroParams(Bump(a), <<>>) ELSE Got(<<>>, a)
      body == IF Peek(params.s) = "{" THEN Template(Bump(params.s), 1, <<>>) ELSE Got(<<>>, params.s)
  IN  IF IsName(Peek2(s))
      THEN Got(Node("Macro", <<Peek2(s)>>, <<Node("params", params.n, <<>>), Node("body", body.n, <<>>)>>),
               Opt(body.s, ")"))
      ELSE Stop(s)

-----------------------------------------------------------------------------
(* Attributes, and blocks at a time                                         *)

AttributeNames == {"derive", "inline", "test", "doc"}
AttributeStmt(s) ==
  LET args == IF Peek2(s) = "(" THEN Names(Bump(Bump(s)), ")", <<>>) ELSE Got(<<>>, Bump(s))
      kept == IF Peek(s) \in {"derive", "doc"} THEN args.n ELSE <<>>
  IN  Statement([args.s EXCEPT !.attrs = Append(@, <<Peek(s)>> \o kept)])

Directives == {"no_z3", "chaos", "deterministic"}

(* The last coordinate given, or the first name if there is none            *)
RECURSIVE Coordinates(_, _, _, _)
Coordinates(s, relative, when, directives) ==
  LET plus == relative \/ Peek(s) = "+"
      a == Opt(s, "+")
      t == Peek(a)
      b == Bump(a)
      Next(r, w, d) ==
        IF Peek(r) = "," THEN Coordinates(Opt(Bump(r), "@"), plus, w, d)
        ELSE IF Peek(r) = "@" THEN Coordinates(Bump(r), plus, w, d)
        ELSE Got(<<w, d>>, Opt(r, ":"))
  IN  CASE IsCount(t) -> Next(b, <<IF plus THEN "relative" ELSE "global", Amount(t)>>, directives)
        [] t = "every" ->
             IF IsCount(Peek(b)) THEN Coordinates(Bump(b), plus, <<"periodic", Amount(Peek(b))>>, directives)
             ELSE Coordinates(b, plus, when, directives)
        [] t \in Directives -> Next(b, when, Append(directives, t))
        [] IsName(t) /\ t \notin Directives \cup {"every"} ->
             Next(b, IF when = <<>> THEN <<"branch", t>> ELSE when, directives)
        [] OTHER -> Next(a, when, directives)

AtStmt(s) ==
  LET a == OptIn(Bump(s), {"+", "-"})
      at == Coordinates(a, Peek2(s) = "+", <<>>, <<>>)
      body == Body(at.s)
      when == IF at.n[1] = <<>> THEN <<"global", "0">> ELSE at.n[1]
  IN  IF Peek(a) \in AttributeNames THEN AttributeStmt(a)
      ELSE Got(Node("Timeline", when \o at.n[2], <<body.n>>), body.s)

-----------------------------------------------------------------------------
(* Statements of a few tokens, and the choice among all of them             *)

PrintStmt(s) ==
  LET a == Bump(s)
      RECURSIVE Printed(_)
      Printed(r) == IF Peek(r) \in {")", "eof"} THEN r
                    ELSE LET e == Expr(r)
                             b == Pushed(e.s, "expr", e.n)
                         IN  IF Peek(b) = "," THEN Printed(Bump(b)) ELSE b
      after == IF Peek(a) = "(" THEN Printed(Bump(a)) ELSE a
  IN  Got(Node("Print", <<>>, Since(a, after, "expr")), IF Peek(a) = "(" THEN Opt(after, ")") ELSE after)

DebugStmt(s) ==
  LET e == Expr(Opt(Bump(s), "(")) IN Got(Node("Debug", <<>>, <<e.n>>), Opt(e.s, ")"))

ReturnStmt(s) ==
  LET e == Expr(Bump(s))
  IN  IF Peek2(s) \in {";", "}", "eof"} THEN Got(Node("Return", <<>>, <<>>), Bump(s))
      ELSE Got(Node("Return", <<>>, <<e.n>>), e.s)

RewindStmt(s) ==
  LET a == Opt(Bump(s), "(")
      name == IF IsName(Peek(a)) THEN Peek(a) ELSE ""
      b == OptIn(a, {name})
  IN  Got(Leaf("Rewind", name), IF Peek2(s) = "(" THEN Opt(b, ")") ELSE b)

SliceStmt(s) ==
  LET e == Expr(Bump(s))
  IN  Got(Leaf("Slice", IF e.n.k = "Int" THEN e.n.v[1] ELSE "0"), e.s)

One(kind, a) == Got(Node(kind, <<>>, <<a.n>>), a.s)

Inner(s) ==
  LET t == Peek(s)
  IN  CASE t \in {"eof", "}", "else"} -> Got(None, s)
        [] t = "@" -> AtStmt(s)
        [] t = "let" -> LetStmt(s)
        [] t = "return" -> ReturnStmt(s)
        [] t = "yield" -> One("Yield", Expr(Bump(s)))
        [] t \in {"pub", "routine"} -> RoutineStmt(s)
        [] t = "import" -> ImportStmt(s)
        [] t = "require" -> RequireStmt(s)
        [] t = "foreign" -> ForeignStmt(s)
        [] t = "on" -> OnStmt(s, <<>>)
        [] t \in {"isolate", "actor"} -> IsolateStmt(s)
        [] t = "enable" -> EnableStmt(s)
        [] t = "split" -> SplitStmt(s)
        [] t = "merge" -> MergeStmt(s)
        [] t = "send" -> SendStmt(s)
        [] t = "if" -> IfStmt(s)
        [] t = "print" -> PrintStmt(s)
        [] t = "debug" -> DebugStmt(s)
        [] t = "on_decay" -> OnDecayStmt(s)
        [] t = "using" -> UsingStmt(s)
        [] t = "break" -> Got(Node("Break", <<>>, <<>>), Bump(s))
        [] t = "continue" -> Got(Node("Continue", <<>>, <<>>), Bump(s))
        [] t = "collapse" -> Got(Node("Collapse", <<>>, <<>>), Bump(s))
        [] t = "loop" -> LoopStmt(s)
        [] t = "while" -> WhileStmt(s)
        [] t = "interface" -> InterfaceStmt(s)
        [] t = "type" \/ (t = "struct" /\ Peek2(s) # "{") -> TypeStmt(s)
        [] t = "struct" /\ Peek2(s) = "{" -> One("Expr", Expr(s))
        [] t = "enum" -> EnumStmt(s)
        [] t = "macro" -> MacroStmt(s)
        [] t = "from" -> FromStmt(s)
        [] t = "match" -> MatchStmt(s)
        [] t = "for" -> ForStmt(s)
        [] t = "lease" -> LeaseStmt(s)
        [] t = "anchor" -> Got(Leaf("Anchor", IF IsName(Peek2(s)) THEN Peek2(s) ELSE "anchor"), Bump(Bump(s)))
        [] t = "rewind_to" -> RewindStmt(s)
        [] t = "state" -> StateStmt(s)
        [] t = "policy" -> PolicyStmt(s)
        [] t = "select" -> SelectStmt(s)
        [] t = "entangle" -> EntangleStmt(s)
        [] t = "speculate" -> SpeculateStmt(s)
        [] t = "commit" -> One("Commit", Body(Bump(s)))
        [] t = "slice" -> SliceStmt(s)
        [] t = "assert_time" -> AssertTimeStmt(s)
        [] OTHER -> DefaultStmt(s)

RECURSIVE PastSemis(_)
PastSemis(s) == IF Peek(s) = ";" THEN PastSemis(Bump(s)) ELSE s

(* The attributes read so far go to the first statement that is complete:   *)
(* one inside a block before the statement the block belongs to             *)
Statement(s) ==
  LET a == IF s.err # "" THEN Got(None, s) ELSE Inner(PastSemis(s))
  IN  IF a.n = None \/ a.s.attrs = <<>> THEN a
      ELSE Got([a.n EXCEPT !.at = a.s.attrs], [a.s EXCEPT !.attrs = <<>>])

=============================================================================
