-------------------------------- MODULE Pratt --------------------------------
(* The expression parser (parser/pratt.rs) with the lowering of its nodes:  *)
(* operators by binding power, everything after a complete expression -- a  *)
(* call, an index, a field, `?`, `::` -- whatever the power.                *)
EXTENDS Tokens

RECURSIVE ExprFrom(_, _), Operators(_, _, _)
Expr(s) == ExprFrom(s, 0)

(* An expression before a block: `{` is not a struct literal                *)
ExprBare(s) ==
  LET a == ExprFrom([s EXCEPT !.bare = TRUE], 0) IN Got(a.n, [a.s EXCEPT !.bare = FALSE])

PrefixOps == {"+", "-", "&", "!", "~"}
PrefixPower == 17

LeftPower(t) ==
  CASE t \in {".", "::", "?"} -> 19
    [] t = "as" -> 17
    [] t = "**" -> 16
    [] t \in {"*", "/", "%"} -> 15
    [] t \in {"+", "-"} -> 13
    [] t \in {"<<", ">>"} -> 11
    [] t \in {"<", "<=", ">", ">="} -> 9
    [] t \in {"==", "!="} -> 7
    [] t \in {"&", "^", "|"} -> 6
    [] t \in {"&&", "||", "??"} -> 5
    [] t = "|>" -> 4
Infixes == {".", "::", "?", "as", "**", "*", "/", "%", "+", "-", "<<", ">>", "<", "<=", ">", ">=",
            "==", "!=", "&", "^", "|", "&&", "||", "??", "|>"}
RightPower(t) == IF t = "**" THEN 15 ELSE LeftPower(t) + 1
Operation(t) == IF t \in {".", "::", "?"} THEN "+" ELSE t
Tight(op) == CHOOSE t \in Infixes : op = t \o "="

(* Expression 0 of the file, which the code also uses for one that is not   *)
(* there: whatever expression was made first                                *)
Made(a) == IF a.s.zero = None THEN Got(a.n, [a.s EXCEPT !.zero = a.n]) ELSE a
ExprZero == Node("zero", <<>>, <<>>)

-----------------------------------------------------------------------------
(* Lists                                                                    *)

(* Expressions up to `)`; after one without a comma, most lists are over    *)
RECURSIVE Listed(_, _, _)
Listed(s, loose, seen) ==
  IF Peek(s) \in {")", "eof"} THEN Got(seen, Opt(s, ")"))
  ELSE LET a == Expr(s)
           new == Append(seen, a.n)
       IN  IF Peek(a.s) = "," \/ loose THEN Listed(Opt(a.s, ","), loose, new)
           ELSE Got(new, Opt(a.s, ")"))

Args(s) == LET a == Listed(Bump(s), FALSE, <<>>) IN Got(a.n, PushedAll(a.s, "expr", a.n))
LooseArgs(s) ==
  LET a == IF Peek(s) = "(" THEN Listed(Bump(s), TRUE, <<>>) ELSE Got(<<>>, s)
  IN  Got(a.n, PushedAll(a.s, "expr", a.n))

(* Further elements, each pushed as it is read: what the elements push      *)
(* themselves ends up between them                                          *)
RECURSIVE Elements(_, _)
Elements(s, close) ==
  IF Peek(s) # "," \/ (close # "" /\ Peek2(s) = close) THEN Opt(Opt(s, ","), close)
  ELSE LET a == Expr(Bump(s)) IN Elements(Pushed(a.s, "expr", a.n), close)

(* The fields of a struct literal, as a map; of a name alone its variable.  *)
(* A literal without a name keeps its fields in the pool all the while.     *)
RECURSIVE Fields(_, _, _)
Fields(s, pooled, seen) ==
  LET key == Peek(s)
      given == Peek2(s) \in {":", "="}
      a == IF given THEN Expr(Bump(Bump(s))) ELSE Made(Got(Leaf("Ident", key), Bump(s)))
      entry == Node("entry", <<key>>, <<a.n>>)
      b == IF pooled THEN Pushed(a.s, "field", entry) ELSE a.s
      keys == IsName(key) \/ (~pooled /\ (key \in Texts \/ AsName(key)))
  IN  IF ~keys THEN Got(seen, s)
      ELSE IF Peek(b) = "," THEN Fields(Bump(b), pooled, Append(seen, entry))
      ELSE Got(Append(seen, entry), b)

Struct(name, s) ==
  LET a == Fields(Bump(s), FALSE, <<>>)
  IN  Got(Node("Struct", <<name>>, AsMap(a.n)), PushedAll(Opt(a.s, "}"), "field", a.n))

(* `Name {` opens a struct literal when a field or `}` follows, on the same *)
(* line                                                                     *)
StructFollows(s) ==
  /\ ~s.bare /\ Peek(s) = "{" /\ ~Fresh(s)
  /\ \/ Peek2(s) = "}"
     \/ /\ IsName(Peek2(s)) \/ Peek2(s) \in Texts
        /\ Peek(Bump(Bump(s))) \in {":", ",", "="}

-----------------------------------------------------------------------------
(* Generic calls.  `<` opens type arguments when the first `>` anywhere     *)
(* after it is followed by `::`.                                            *)

Generic(s) ==
  LET ends == {i \in 2..Len(s.t) : s.t[i] = ">"}
  IN  Peek(s) = "<" /\ ends # {} /\ Min(ends) < Len(s.t) /\ s.t[Min(ends) + 1] = "::"

(* T<...>::m(...)                                                           *)
GenericCall(path, s, loose) ==
  LET a == Bump(Bump(SkipTo(s, {">"})))
      m == IF IsName(Peek(a)) THEN Peek(a) ELSE "new"
      b == OptIn(a, {m})
      args == IF loose THEN LooseArgs(b) ELSE IF Peek(b) = "(" THEN Args(b) ELSE Got(<<>>, b)
  IN  Got(Node("Call", Append(path, m), args.n), args.s)

RECURSIVE Path(_)
Path(n) == CASE n.k = "Ident" -> n.v
             [] n.k = "Field" -> Append(Path(n.c[1]), n.v[1])
             [] OTHER -> <<"unknown">>

-----------------------------------------------------------------------------
(* Patterns: the tokens of one, put together without spaces and taken apart *)
(* again.  The arguments of a variant are split at every comma.             *)

PatternToken(t) ==
  IF IsName(t) \/ t \in {"::", "(", ")", ","} \cup Numerals \cup Texts THEN t ELSE "_"

ArmToken(t) ==
  IF t \in States \cup {"{", "}", "[", "]", "true", "false"} THEN t ELSE PatternToken(t)
ArmStops == {"=>", ":", "if", "}"}

RECURSIVE PatternUpTo(_, _, _, _)
PatternUpTo(s, stops, depth, seen) ==
  IF Peek(s) = "eof" \/ (depth = 0 /\ Peek(s) \in stops) THEN Got(seen, s)
  ELSE LET t == Peek(s)
           kept == IF stops = ArmStops THEN ArmToken(t) ELSE PatternToken(t)
           now == CASE kept \in {"(", "{", "["} -> depth + 1
                    [] kept \in {")", "}", "]"} /\ depth > 0 -> depth - 1
                    [] OTHER -> depth
       IN  PatternUpTo(Bump(s), stops, now, Append(seen, kept))

Where(p, t) == {i \in DOMAIN p : p[i] = t}
RECURSIVE PatternOf(_), PatternList(_, _)
PatternList(p, nests) ==
  LET Depth(i) == Cardinality(Where(SubSeq(p, 1, i), "(")) - Cardinality(Where(SubSeq(p, 1, i), ")"))
      cuts == {i \in Where(p, ",") : ~nests \/ Depth(i) = 0}
  IN  IF p = <<>> THEN <<>>
      ELSE IF cuts = {} THEN <<PatternOf(p)>>
      ELSE LET cut == Min(cuts)
               rest == SubSeq(p, cut + 1, Len(p))
           IN  <<PatternOf(SubSeq(p, 1, cut - 1))>>
               \o (IF rest = <<>> /\ ~nests THEN <<PatternOf(rest)>> ELSE PatternList(rest, nests))

PatternOf(p) ==
  LET colons == Where(p, "::")
      rest == IF colons = {} THEN p ELSE SubSeq(p, Min(colons) + 1, Len(p))
      open == Where(rest, "(")
      close == IF Where(rest, ")") = {} THEN Len(rest) + 1 ELSE Max(Where(rest, ")"))
      variant == IF open = {} THEN rest ELSE SubSeq(rest, 1, Min(open) - 1)
      args == IF open = {} THEN <<>> ELSE PatternList(SubSeq(rest, Min(open) + 1, close - 1), FALSE)
      enum == IF colons = {} THEN <<>> ELSE SubSeq(p, 1, Min(colons) - 1)
  IN  CASE p \in {<<>>, <<"_">>} -> Node("PAny", <<>>, <<>>)
        [] Len(p) = 1 /\ p[1] \in Numerals \cup Texts \cup {"true", "false"} -> Leaf("PLiteral", p[1])
        [] Len(p) > 1 /\ p[1] = "(" /\ p[Len(p)] = ")" /\ colons = {} ->
             Node("PTuple", <<>>, PatternList(SubSeq(p, 2, Len(p) - 1), TRUE))
        [] (open # {} \/ colons # {}) /\ ~(p[1] = "(" /\ p[Len(p)] = ")" /\ colons = {}) ->
             Node("PVariant", enum \o (IF colons = {} THEN <<>> ELSE <<"::">>) \o variant, args)
        [] OTHER -> Node("PIdent", p, <<>>)

-----------------------------------------------------------------------------
(* The expressions that start with a token of their own                     *)

(* if c { a } else { b }                                                    *)
Braced(s) == IF Peek(s) = "{" THEN LET a == Expr(Bump(s)) IN Got(a.n, Opt(a.s, "}")) ELSE Expr(s)
IfExpr(s) ==
  LET c == Expr(Bump(s))
      yes == Braced(c.s)
      no == IF Peek(yes.s) = "else" THEN Braced(Bump(yes.s)) ELSE Got(Null, yes.s)
  IN  Got(Node("IfExpr", <<>>, <<c.n, yes.n, no.n>>), no.s)

(* An arm's pattern stops at `if`, but no guard is read: the arm is then an *)
(* expression that starts with `if`.  The pool of arms is not set aside for *)
(* the arms of an inner match.                                              *)
RECURSIVE ExprArms(_)
ExprArms(s) ==
  IF Peek(s) \in {"}", "eof"} THEN Opt(s, "}")
  ELSE LET p == PatternUpTo(s, ArmStops, 0, <<>>)
           body == Expr(OptIn(p.s, {"=>", ":"}))
           arm == Node("arm", <<>>, <<PatternOf(p.n), body.n>>)
           a == Pushed(Pushed(body.s, "stmt", Node("Expr", <<>>, <<body.n>>)), "arm", arm)
       IN  ExprArms(OptIn(a, {",", ";"}))

MatchExpr(s) ==
  LET target == Expr(Bump(s))
      after == IF Peek(target.s) = "{" THEN ExprArms(Bump(target.s)) ELSE target.s
  IN  Got(Node("MatchExpr", <<>>, <<target.n>> \o Since(target.s, after, "arm")), after)

Syscall(s) ==
  LET a == Bump(s)
      target == IF Peek(a) = "(" /\ Peek2(a) \in Texts \cup Numerals THEN Peek2(a) ELSE "0"
      b == IF Peek(a) = "(" THEN Elements(OptIn(Bump(a), {target}), "") ELSE a
      c == IF Peek(a) = "(" THEN Opt(b, ")") ELSE a
      timed == Peek(c) = "taking" /\ IsCount(Peek2(c))
  IN  Got(Node("Syscall", <<target, IF timed THEN Amount(Peek2(c)) ELSE "">>, Since(a, b, "expr")),
          IF timed THEN Bump(Bump(c)) ELSE Opt(c, "taking"))

Received(s) ==
  LET a == Bump(s)
      named == Peek(a) = "(" /\ IsName(Peek2(a))
  IN  Got(Leaf("Receive", IF named THEN Peek2(a) ELSE ""),
          IF Peek(a) = "(" THEN Opt(IF named THEN Bump(Bump(a)) ELSE Bump(a), ")") ELSE a)

Introspected(s) ==
  LET a == Bump(s)
      b == IF Peek(a) = "." THEN IF IsName(Peek2(a)) THEN Bump(Bump(a)) ELSE Bump(a) ELSE a
  IN  Got(Leaf("Introspect", IF Peek(a) = "." /\ Peek2(a) \in {"used_bytes", "capacity"}
                             THEN Peek2(a) ELSE "remaining"),
          IF Peek(a) = "." /\ Peek(b) = "(" THEN Opt(Bump(b), ")") ELSE b)

(* defer cap.path(params) for 5ms: the parameters are read and dropped      *)
RECURSIVE Dotted(_, _)
Dotted(s, seen) ==
  IF ~IsName(Peek(s)) THEN Got(seen, s)
  ELSE IF Peek2(s) = "." THEN Dotted(Bump(Bump(s)), Append(seen, Peek(s)))
  ELSE Got(Append(seen, Peek(s)), Bump(s))

Defer(s) ==
  LET path == Dotted(Bump(s), <<>>)
      params == IF Peek(path.s) = "(" THEN Fields(Bump(path.s), TRUE, <<>>).s ELSE path.s
      a == IF Peek(path.s) = "(" THEN Opt(params, ")") ELSE params
      b == OptIn(a, {"taking", "for", "deadline"})
  IN  Got(Node("Defer", <<IF IsCount(Peek(b)) THEN Amount(Peek(b)) ELSE "0">> \o path.n, <<>>),
          IF IsCount(Peek(b)) THEN Bump(b) ELSE b)

ArrayLit(s) ==
  LET a == Bump(s)
      first == Expr(a)
      count == Expr(Bump(first.s))
      after == Elements(Pushed(first.s, "expr", first.n), "]")
  IN  CASE Peek(a) = "]" -> Got(Node("Array", <<>>, <<>>), Bump(a))
        [] Peek(a) # "]" /\ Peek(first.s) = ";" ->
             Got(Node("Repeat", <<>>, <<first.n, count.n>>), Opt(count.s, "]"))
        [] OTHER -> Got(Node("Array", <<>>, Since(a, after, "expr")), after)

(* A tuple's first element is read before its range of the pool begins      *)
Parenthesised(s) ==
  LET a == Bump(s)
      first == Expr(a)
      after == Elements(Pushed(first.s, "expr", first.n), ")")
  IN  CASE Peek(a) = ")" -> Got(Node("Tuple", <<>>, <<>>), Bump(a))
        [] Peek(a) # ")" /\ Peek(first.s) = "," ->
             Got(Node("Tuple", <<>>, Since(first.s, after, "expr")), after)
        [] OTHER -> Got(first.n, Opt(first.s, ")"))

Unary(s) ==
  LET op == Peek(s)
      a == ExprFrom(Bump(s), PrefixPower)
  IN  Got(IF op = "&" THEN Node("Ref", <<>>, <<a.n>>)
          ELSE Node("Unary", <<IF op = "+" THEN "-" ELSE op>>, <<a.n>>), a.s)

(* m!(...) calls a routine of another name, each argument a string literal  *)
(* of those of its tokens that can be spelled again                         *)
RECURSIVE MacroArg(_, _, _), MacroArgs(_, _)
MacroArg(s, depth, seen) ==
  LET t == Peek(s)
      kept == IF IsName(t) \/ t \in Numerals \cup {"+", "-", "*", "/"} THEN <<t>> ELSE <<>>
  IN  IF t = "eof" \/ (depth = 0 /\ t \in {",", ")"}) THEN Got(seen, s)
      ELSE MacroArg(Bump(s), CASE t = "(" -> depth + 1 [] t = ")" -> depth - 1 [] OTHER -> depth,
                    seen \o kept)
MacroArgs(s, seen) ==
  LET a == MacroArg(s, 0, <<>>)
  IN  IF Peek(s) \in {")", "eof"} THEN Got(seen, Opt(s, ")"))
      ELSE MacroArgs(Opt(a.s, ","), Append(seen, Leaf("Str", Quoted(a.n))))

MacroName(m) == "__macro_call__" \o m
MacroCall(s) ==
  LET args == MacroArgs(Bump(Bump(Bump(s))), <<>>)
  IN  Got(Node("Call", <<MacroName(Peek(s))>>, args.n), PushedAll(args.s, "expr", args.n))

(* A call of a generic routine or of a macro ends the expression: no        *)
(* operator is read after f::<T>(...), T<...>::m(...) or m!(...).           *)
Turbofish(s) == Peek2(s) = "::" /\ Peek(Bump(Bump(s))) = "<"
Macro(s) == Peek2(s) = "!" /\ Peek(Bump(Bump(s))) = "("
Whole(s) == IsName(Peek(s)) /\ (Turbofish(s) \/ Generic(Bump(s)) \/ Macro(s))
WholeCall(s) ==
  LET args == LooseArgs(Bump(SkipTo(s, {">"})))
  IN  IF Turbofish(s) THEN Got(Node("Call", <<Peek(s)>>, args.n), args.s)
      ELSE IF ~Generic(Bump(s)) THEN MacroCall(s)
      ELSE GenericCall(<<Peek(s)>>, Bump(s), TRUE)

Primary(s) ==
  LET t == Peek(s)
  IN  CASE IsCount(t) -> Got(Leaf("Int", Amount(t)), Bump(s))
        [] t \in Texts -> Got(Leaf("Str", t), Bump(s))
        [] t \in {"true", "false"} -> Got(Leaf("Bool", t), Bump(s))
        [] t = "null" \/ (t = "struct" /\ Peek2(s) # "{") -> Got(Null, Bump(s))
        [] IsName(t) -> LET a == Opt(Bump(s), "!")
                        IN  IF StructFollows(a) THEN Struct(t, a) ELSE Got(Leaf("Ident", t), a)
        [] t \in {"send", "state", "slice", "step"} -> Got(Leaf("Ident", t), Bump(s))
        [] t = "struct" /\ Peek2(s) = "{" -> Struct("", Bump(s))
        [] t = "{" -> LET a == Fields(Bump(s), TRUE, <<>>)
                      IN  Got(Node("Struct", <<"">>, AsMap(Since(s, a.s, "field"))), Opt(a.s, "}"))
        [] t = "if" -> IfExpr(s)
        [] t = "match" -> MatchExpr(s)
        [] t = "syscall" -> Syscall(s)
        [] t = "chan_recv" -> Received(s)
        [] t = "arena" -> Introspected(s)
        [] t = "defer" -> Defer(s)
        [] t = "[" -> ArrayLit(s)
        [] t = "(" -> Parenthesised(s)
        [] t \in PrefixOps -> Unary(s)
        [] OTHER -> Stop(s)

-----------------------------------------------------------------------------
(* What may follow a complete expression, and the operators                 *)

(* a[i], a[i..j]                                                            *)
Indexed(n, s) ==
  LET a == Bump(s)
      from == IF Peek(a) \in {"..", "]"} THEN Got(None, a) ELSE Expr(a)
      ranged == Peek(from.s) \in {"..", "..="}
      b == Bump(from.s)
      upto == IF ranged /\ Peek(b) \notin {"]", "eof"} THEN Expr(b) ELSE Got(None, b)
  IN  IF ranged THEN Got(Node("Part", <<Peek(from.s)>>, <<n, from.n, upto.n>>), Opt(upto.s, "]"))
      ELSE Got(Node("Index", <<>>, <<n, IF from.n = None THEN ExprZero ELSE from.n>>), Opt(from.s, "]"))

Routine(n) == IF n.k = "Ident" THEN n.v ELSE <<"unknown">>

(* A method of a name that begins with a capital is a routine               *)
Capitals == {"T", "E", "Actor"}
MethodOf(n, m, args) ==
  IF n.k = "Ident" /\ n.v[1] \in Capitals THEN Node("Call", <<n.v[1], m>>, args)
  ELSE Node("Method", <<m>>, <<n>> \o args)

IsMember(t) == IsName(t) \/ t \in {"send", "type", "auto"}
Member(n, s) ==
  LET args == Args(Bump(s))
  IN  IF Peek2(s) = "(" THEN Got(MethodOf(n, Peek(s), args.n), args.s)
      ELSE Got(Node("Field", <<Peek(s)>>, <<n>>), Bump(s))

IsVariant(t) == IsName(t) \/ t \in States \cup {"lease"}
Variant(n, s) ==
  LET args == IF Peek2(s) = "(" THEN Args(Bump(s)) ELSE Got(<<>>, Bump(s))
  IN  Got(Node("Variant", <<IF n.k = "Ident" THEN n.v[1] ELSE "",
                            IF Peek(s) = "lease" THEN "Leased" ELSE Peek(s)>>, args.n), args.s)

(* x |> f(y) is f(x, y)                                                     *)
Piped(n, stage) ==
  CASE stage.k = "Call" -> [stage EXCEPT !.c = <<n>> \o @]
    [] stage.k = "Method" -> [stage EXCEPT !.c = <<@[1], n>> \o Tail(@)]
    [] stage.k = "Ident" -> Node("Call", stage.v, <<n>>)
    [] OTHER -> Node("Call", <<"unknown">>, <<n>>)

Infix(n, s, min) ==
  LET op == Peek(s)
      rhs == ExprFrom(Bump(s), RightPower(op))
      type == IF IsName(Peek2(s)) THEN Peek2(s) ELSE "int"
  IN  IF op \notin Infixes THEN Got(n, s)
      ELSE IF LeftPower(op) < min THEN Got(n, s)
      ELSE IF op = "as"
           THEN Operators(Node("Cast", <<type>>, <<n>>), OptIn(Bump(s), {type}), min)
      ELSE IF op = "|>" THEN
           LET call == Piped(n, rhs.n) IN Operators(call, PushedAll(rhs.s, "expr", call.c), min)
      ELSE Operators(Node("Binary", <<Operation(op)>>, <<n, rhs.n>>), rhs.s, min)

(* Below a dot that no member follows, the dot is lost                      *)
AfterDot(n, s, min) ==
  LET a == Opt(s, ".")
      call == GenericCall(Path(n), a, FALSE)
      variant == Variant(n, Bump(a))
  IN  CASE Generic(a) -> Operators(call.n, call.s, min)
        [] ~Generic(a) /\ Peek(a) = "::" /\ IsVariant(Peek2(a)) -> Operators(variant.n, variant.s, min)
        [] OTHER -> Infix(n, Opt(a, "::"), min)

Operators(n, s, min) ==
  LET t == Peek(s)
      call == Args(s)
      at == Indexed(n, s)
      member == Member(n, Bump(s))
  IN  CASE t \in {"{", "eof"} -> Got(n, s)
        [] t = "?" -> Operators(Node("Try", <<>>, <<n>>), Bump(s), min)
        [] t = "(" -> IF Fresh(s) \/ Peek2(s) \in {"max", "step", "taking"} THEN Got(n, s)
                      ELSE Operators(Node("Call", Routine(n), call.n), call.s, min)
        [] t = "[" -> IF Fresh(s) THEN Got(n, s) ELSE Operators(at.n, at.s, min)
        [] t = "." /\ Peek2(s) = "(" ->
             Operators(Node("Assertion", <<Peek(Bump(Bump(s)))>>, <<n>>),
                       Opt(Bump(Bump(Bump(s))), ")"), min)
        [] t = "." /\ IsMember(Peek2(s)) -> Operators(member.n, member.s, min)
        [] OTHER -> AfterDot(n, s, min)

ExprFrom(s, min) ==
  IF Whole(s) THEN Made(WholeCall(s))
  ELSE LET a == Primary(s)
       IN  IF a.s.err # "" THEN a ELSE Operators(a.n, Made(a).s, min)
=============================================================================
