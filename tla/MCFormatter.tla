---------------------------- MODULE MCFormatter ----------------------------
(* The formatter on every statement and every expression of the language,   *)
(* alone, in a timeline, in a branch and in a routine, on all pairs of      *)
(* operators, and on pairs of statements that follow each other.            *)
EXTENDS Formatter, Printer

RECURSIVE Within(_)
Within(n) == {n} \cup UNION {Within(n.c[i]) : i \in DOMAIN n.c}

(* Equality of trees, as the gate has it: not the attributes of a statement,*)
(* and of an isolate only the name and the body; no macro equals itself     *)
RECURSIVE Compared(_)
Compared(n) ==
  LET parts == IF n.k = "Isolate" THEN <<n.c[2]>> ELSE n.c
  IN  Node(n.k, n.v, [i \in DOMAIN parts |-> Compared(parts[i])])

programs_ast_eq(a, b) ==
  /\ Len(a.c) = Len(b.c)
  /\ \A n \in Within(a) : n.k # "Macro"
  /\ \A i \in DOMAIN a.c : a.c[i].v = b.c[i].v /\ Compared(a.c[i]).c = Compared(b.c[i]).c

-----------------------------------------------------------------------------

Expressions ==
  {<<"x">>, <<"1">>, <<"'t'">>, <<"null">>, <<"f", "(", "x", ",", "1", ")">>, <<"x", ".", "f", "(", "1", ")">>,
  <<"x", ".", "a", ".", "b">>, <<"a", ".", "f", "(", "x", ")">>, <<"-", "x">>, <<"-", "(", "x", "+", "1", ")">>,
  <<"(", "-", "x", ")", "+", "1">>, <<"!", "(", "x", "==", "1", ")">>, <<"&", "&", "x">>,
  <<"&", "(", "x", "+", "y", ")">>, <<"x", "?">>, <<"(", "x", "?", ")", "?">>, <<"(", "x", "+", "1", ")", "?">>,
  <<"(", "x", "+", "1", ")", ".", "f", "(", "y", ")">>, <<"{", "a", ":", "1", ",", "b", ":", "x", "}">>,
  <<"struct", "{", "b", "=", "1", ",", "a", "=", "x", "}">>, <<"T", "{", "a", ":", "1", "}">>, <<"T", "{", "}">>,
  <<"[", "1", ",", "x", "]">>, <<"[", "[", "1", ",", "2", "]", ",", "[", "3", "]", "]">>, <<"[", "x", ";", "3", "]">>,
  <<"x", "[", "1", "]">>, <<"x", "[", "1", "..", "2", "]">>, <<"x", "[", "..=", "y", "]">>,
  <<"f", "(", "g", "(", "1", ")", ",", "2", ")">>, <<"chan_recv", "(", "c", ")">>, <<"x", "as", "int">>,
  <<"x", "+", "1", "as", "int">>, <<"(", "x", "as", "int", ")", "**", "2">>, <<"x", ".", "(", "T", ")">>,
  <<"syscall", "(", "1", ",", "x", ")", "taking", "5ms">>, <<"syscall", "(", "'t'", ")">>,
  <<"E", "::", "A", "(", "1", ",", "x", ")">>, <<"E", "::", "B">>, <<"T", ".", "m", "(", "x", ")">>,
  <<"T", "<", "int", ">", "::", "m", "(", "x", ")">>, <<"f", "::", "<", "int", ">", "(", "x", ")">>,
  <<"defer", "a", ".", "b", "(", "k", ":", "1", ")", "for", "5ms">>,
  <<"if", "x", "{", "1", "}", "else", "{", "2", "}">>,
  <<"if", "x", "{", "1", "}", "else", "{", "if", "y", "{", "2", "}", "else", "{", "3", "}", "}">>,
  <<"(", "if", "x", "{", "1", "}", "else", "{", "2", "}", ")", "+", "1">>, <<"match", "x", "{", "1", "=>", "2", "}">>,
  <<"match", "x", "{", "E", "::", "A", "(", "b", ",", "_", ")", "=>", "b", ",", "(", "a", ",", "1", ")", "=>", "[", "1", "]", ",", "_", "=>", "0", "}">>,
  <<"arena", ".", "used_bytes", "(", ")">>, <<"(", "x", ",", "1", ")">>, <<"(", "x", ",", ")">>,
  <<"x", "|>", "f", "(", "y", ")">>, <<"valid", "(", "x", ")">>, <<"(", "x", "+", "1", ")", "as", "int">>,
  <<"(", "x", ",", "1", ",", "y", ")">>}

Stated ==
  {<<"let", "mut", "@", "decayed", "(", "5ms", ")", "x", ":", "int", "=", "f", "(", "1", ")">>,
  <<"let", "@", "valid", "x", ":", "array", "<", "int", ">", "=", "[", "1", "]">>, <<"let", "x">>,
  <<"let", "{", "a", ",", "b", "as", "c", "}", "=", "x">>, <<"state", "x", ":", "int", "=", "1">>,
  <<"state", "=", "1">>, <<"x", "+=", "1">>, <<"x", ".", "a", "=", "1">>, <<"x", "[", "1", "]", "=", "2">>,
  <<"routine", "f", "(", "consume", "x", ":", "int", ",", "self", ")", "->", "int", "require", "a", ".", "b", "taking", "5ms", "where", "x", ".", "state", "==", "Decayed", "{", "return", "x", "}">>,
  <<"routine", "f", "(", "x", ")", "{", "g", "(", "x", ")", "}">>,
  <<"routine", "f", "(", "x", ":", "array", "<", "int", ">", ")", "=>", "x", "+", "1">>,
  <<"routine", "f", "(", ")", "require", "a", "require", "b", ".", "c", "taking", "5ms", "{", "break", "}">>,
  <<"routine", "f", "(", ")", "{", "}">>,
  <<"routine", "T", ".", "m", "(", "&", "self", ",", "clone", "y", ":", "T", "<", "int", ">", ")", "{", "print", "(", "y", ")", "return", "}">>,
  <<"type", "T", "=", "P", "+", "struct", "decay_after", "5ms", "auto_drop", "(", "'t'", ",", "'m'", ",", "f", ")", "{", "a", ":", "int", "=", "1", ",", "const", "b", ":", "T", "}">>,
  <<"type", "T", "=", "distinct", "int">>, <<"type", "E", "=", "T">>,
  <<"interface", "T", "=", "P", "+", "interface", "{", "routine", "f", "(", "x", ":", "int", ")", "->", "int", "taking", "5ms", "routine", "g", "(", ")", "require", "a", "{", "return", "x", "}", "}">>,
  <<"enum", "E", "{", "A", "(", "int", ",", "T", ")", ",", "B", ",", "Pending", "}">>, <<"import", "'t'", "as", "a">>,
  <<"from", "'t'", "import", "a", "as", "b", ",", "c">>,
  <<"foreign", "'t'", "abi", "(", "'m'", ")", "{", "routine", "f", "(", "x", ":", "int", ")", "->", "int", "taking", "5ms", ";", "routine", "g", "(", ")", "}">>,
  <<"isolate", "a", "{", "enable", "cpu", "(", "5ms", ")", "enable", "memory", "(", "1", "KB", ")", "enable", "k", "(", "3", ")", "require", "a", ".", "b", "(", "k", "=", "'t'", ")", "require", "c", "print", "(", "x", ")", "}">>,
  <<"isolate", "{", "enable", "slice", "(", "5ms", ")", "require", "a", "print", "(", "x", ")", "}">>,
  <<"actor", "Actor", "{", "on", "x", "taking", "5ms", "{", "print", "(", "1", ")", "}", "slice", "2ms", "state", "a", "=", "1", "}">>,
  <<"require", "a", ".", "b", "(", "k", "=", "'t'", ",", "m", "=", "'m'", ")">>,
  <<"if", "x", "==", "1", "{", "print", "(", "x", ")", "}", "else", "{", "print", "(", "2", ")", "}", "reconcile", "auto">>,
  <<"if", "x", "{", "print", "(", "1", ")", "}", "else", "{", "if", "y", "{", "print", "(", "2", ")", "}", "else", "{", "print", "(", "3", ")", "}", "}">>,
  <<"if", "x", "{", "print", "(", "1", ")", "}", "else", "if", "y", "{", "print", "(", "2", ")", "}", "reconcile", "auto">>,
  <<"if", "x", "{", "print", "(", "1", ")", "}", "else", "{", "if", "y", "{", "print", "(", "2", ")", "}", "print", "(", "3", ")", "}">>,
  <<"if", "x", "{", "print", "(", "1", ")", "}", "else", "{", "if", "y", "{", "print", "(", "2", ")", "}", "}", "reconcile", "auto">>,
  <<"if", "let", "E", "::", "A", "(", "b", ")", "=", "x", "{", "print", "(", "b", ")", "}", "else", "{", "print", "(", "1", ")", "}", "reconcile", "auto">>,
  <<"if", "let", "b", "=", "x", ".", "(", "T", ")", "{", "print", "(", "b", ")", "}">>,
  <<"match", "x", "{", "1", "=>", "print", "(", "1", ")", "E", "::", "A", "(", "b", ",", "_", ")", "if", "b", "=>", "{", "print", "(", "b", ")", "}", "_", "=>", "{", "}", "}">>,
  <<"match", "x", "{", "(", "a", ",", "1", ")", ":", "{", "print", "(", "a", ")", "}", "A", "(", ")", ":", "print", "(", "2", ")", "}">>,
  <<"match", "entropy", "(", "x", ")", "{", "Valid", "(", "a", ")", ":", "print", "(", "a", ")", "Decayed", "if", "y", ":", "{", "}", "Consumed", ":", "print", "(", "1", ")", "}">>,
  <<"x", "=", "match", "entropy", "(", "y", ")", "{", "Valid", "(", "a", ")", "=>", "a", ",", "Pending", "=>", "2", "}">>,
  <<"x", "=", "match", "entropy", "(", "y", ")", "{", "Valid", "(", "a", ")", "=>", "a", ",", "Decayed", "(", "b", ")", "=>", "2", "}">>,
  <<"loop", "max", "5ms", "{", "print", "(", "1", ")", "break", "}">>, <<"loop", "{", "print", "(", "1", ")", "}">>,
  <<"loop", "step", "2ms", "{", "print", "(", "1", ")", "}">>,
  <<"loop", "on", "x", "{", "print", "(", "1", ")", "}">>,
  <<"while", "x", "<", "5", "taking", "5ms", "{", "x", "+=", "1", "}">>,
  <<"while", "valid", "(", "x", ")", "taking", "_", "{", "print", "(", "x", ")", "}">>,
  <<"while", "x", "taking", "5ms", "step", "2ms", "{", "print", "(", "x", ")", "}">>,
  <<"for", "a", "in", "x", "{", "print", "(", "a", ")", "}">>,
  <<"for", "a", "consume", "x", "pacing", "taking", "2ms", "{", "print", "(", "a", ")", "}">>,
  <<"for", "a", "clone", "x", "taking", "5ms", "{", "print", "(", "a", ")", "}">>,
  <<"for", "a", "consume", "x", "taking", "_", "{", "print", "(", "a", ")", "}">>,
  <<"for", "a", "in", "0", "..", "3", "{", "print", "(", "a", ")", "}">>,
  <<"for", "a", "in", "0", "..=", "3", "step", "2ms", "{", "print", "(", "a", ")", "}">>,
  <<"for", "a", "in", "0", "..", "y", "{", "print", "(", "a", ")", "}">>,
  <<"for", "a", "in", "f", "(", "x", ")", "step", "_", "{", "print", "(", "a", ")", "}">>,
  <<"using", "b", "=", "f", "(", "x", ")", "{", "print", "(", "b", ")", "}">>,
  <<"print", "(", "x", ",", "f", "(", "g", "(", "1", ")", ",", "2", ")", ")">>,
  <<"print", "(", "g", "(", "1", ")", ",", "[", "x", "]", ")">>, <<"debug", "(", "x", ")">>, <<"yield", "x">>,
  <<"split", "x", "into", "[", "a", ",", "b", "]">>,
  <<"merge", "[", "a", ",", "b", "]", "into", "x", "reconcile", "auto">>,
  <<"merge", "[", "a", ",", "b", "]", "into", "x", "reconcile", "(", "m", "=", "priority", "(", "a", ")", ",", "k", "=", "first_wins", ")">>,
  <<"merge", "[", "a", ",", "b", "]", "into", "x", "reconcile", "(", "m", "=", "topology_union", "{", "k", ":", "first_wins", ",", "on_invalid", ":", "rewind", "a", "to", "b", "}", ")">>,
  <<"merge", "[", "a", ",", "b", "]", "into", "x", "reconcile", "(", "m", "=", "topology_union", "{", "k", ":", "first_wins", ",", "_", ":", "decay", "}", ")">>,
  <<"merge", "[", "a", ",", "b", "]", "into", "x", "taking", "5ms">>, <<"send", "(", "x", ")", "to", "a">>,
  <<"send", "(", "x", ")">>, <<"anchor", "a">>, <<"rewind_to", "(", "a", ")">>,
  <<"commit", "{", "print", "(", "x", ")", "}">>, <<"collapse">>,
  <<"speculate", "(", "taking", "5ms", ")", "{", "print", "(", "1", ")", "}", "fallback", "{", "print", "(", "2", ")", "}">>,
  <<"speculate", "max", "_", "{", "commit", "{", "x", "=", "1", "}", "}">>,
  <<"lease", "a", "=", "x", "taking", "5ms", "{", "print", "(", "a", ")", "}", "reconcile", "auto">>,
  <<"lease", "a", "=", "x", "taking", "_", "{", "print", "(", "a", ")", "}">>,
  <<"entangle", "(", "x", ",", "y", ")">>, <<"await", "(", "x", ")">>,
  <<"assert_time", "(", "elapsed", "<", "5ms", ")">>,
  <<"assert_time", "(", "elapsed", ">=", "5ms", ")", "{", "print", "(", "1", ")", "}">>,
  <<"select", "(", "taking", "5ms", ")", "{", "case", "x", "=", "chan_recv", "(", "c", ")", "timeout", ":", "{", "y", "=", "2", "}", "}">>,
  <<"select", "{", "case", "x", "=", "f", "(", ")", ":", "{", "print", "(", "x", ")", "}", "}">>,
  <<"select", "{", "timeout", ":", "{", "print", "(", "1", ")", "}", "}">>,
  <<"on_decay", "(", "T", ")", "{", "print", "(", "1", ")", "}">>, <<"slice", "5ms">>,
  <<"policy", "on_overflow", "=", "RingBuffer">>, <<"@", "+", "5ms", ":", "{", "print", "(", "1", ")", "}">>,
  <<"@", "a", ":", "{", "print", "(", "1", ")", "}">>, <<"@", "every", "5ms", ":", "{", "print", "(", "1", ")", "}">>,
  <<"@", "no_z3", "@", "chaos", ":", "{", "print", "(", "1", ")", "}">>, <<"enable", "cpu", "(", "5ms", ")">>,
  <<"continue">>, <<"return">>, <<"@", "inline", "print", "(", "x", ")">>,
  <<"@", "doc", "(", "a", ")", "let", "x", "=", "1">>,
  <<"@", "derive", "(", "a", ",", "b", ")", "type", "T", "=", "struct", "{", "a", ":", "int", "}">>,
  <<"@", "test", "routine", "f", "(", ")", "{", "return", "1", "}">>,
  <<"@", "test", "routine", "f", "(", ")", "=>", "1">>, <<"@", "inline", "routine", "f", "(", ")", ";">>,
  <<"actor", "Actor", "{", "slice", "2ms", "on", "x", "taking", "5ms", "{", "print", "(", "1", ")", "}", "}">>,
  <<"(", "if", "x", "{", "1", "}", "else", "{", "2", "}", ")">>, <<"if", "x", "{", "}", "else", "{", "}">>,
  <<"@", "1ms", "chaos", ":", "{", "print", "(", "x", ")", "}">>,
  <<"@", "every", "5ms", "chaos", ":", "{", "print", "(", "1", ")", "}">>,
  <<"@", "branch", "a", ":", "{", "print", "(", "1", ")", "}">>,
  <<"select", "max", "_", "{", "case", "x", "=", "f", "(", ")", ":", "{", "print", "(", "x", ")", "}", "}">>,
  <<"else">>, <<"debug", "(", "x", ",", "y", ")", "=", "z">>, <<"let", "=", "1">>,
  <<"macro", "m", "!", "(", "$", "x", ":", "expr", "=>", "{", "print", "(", "$", "x", ")", "}", ")", "m", "!", "(", "y", ")">>,
  <<"macro", "m", "!", "(", "$", "x", "=>", "{", "let", "y", "=", "$", "x", "f", "(", "$", "x", ")", "}", ")", "if", "x", "{", "m", "!", "(", "x", "+", "1", ")", "}", "else", "{", "m", "!", "(", "1", ")", "}">>,
  <<"macro", "m", "!", "(", "$", "x", ":", "type", "=>", "{", "print", "(", "$", "x", ")", "}", ")">>,
  <<"macro", "m", "!", "(", "=>", "{", "m", "!", "(", ")", "}", ")", "m", "!", "(", ")">>,
  <<"macro", "m", "!", "(", "$", "x", "=>", "{", "k", "!", "(", "$", "x", ")", "}", ")", "macro", "k", "!", "(", "$", "y", ":", "ident", "=>", "{", "print", "(", "$", "y", ")", "}", ")", "loop", "on", "x", "{", "m", "!", "(", "x", ")", "}">>,
  <<"for", "a", "in", "x", "{", "m", "!", "(", "x", ")", "}">>,
  <<"for", "a", "in", "x", "{", "macro", "m", "!", "(", "$", "x", "=>", "{", "print", "(", "$", "x", ")", "}", ")", "}">>,
  <<"macro", "m", "!", "(", "$", "x", "=>", "{", "let", "=", "}", ")", "m", "!", "(", "x", ")">>,
  <<"if", "x", "{", "macro", "m", "!", "(", "$", "x", "=>", "{", "print", "(", "$", "x", ")", "}", ")", "}", "while", "x", "{", "m", "!", "(", "x", ".", "f", ")", "}">>,
  <<"@", "derive", "(", "Clone", ")", "type", "T", "=", "struct", "{", "a", ":", "int", "}">>,
  <<"@", "derive", "(", "PartialEq", ",", "a", ")", "type", "T", "=", "struct", "{", "b", ":", "int", ",", "a", ":", "T", "}">>,
  <<"@", "derive", "(", "Clone", ")", "enum", "E", "{", "A", "}">>,
  <<"@", "derive", "(", "PartialEq", ")", "type", "T", "=", "struct", "{", "}">>}

Symbols == {<<"??">>, <<"||">>, <<"&&">>, <<"|">>, <<"^">>, <<"&">>, <<"==">>, <<"<">>, <<"<<">>, <<"-">>, <<"%">>,
              <<"**">>}
Enders == {<<"f", "(", ")">>, <<"return">>, <<"x", "=", "y">>, <<"yield", "x">>, <<"routine", "f", "(", ")", "{", "}">>,
           <<"let", "x">>, <<"break">>}
Starters == {<<"(", "x", ",", "y", ")">>, <<"-", "x">>, <<"[", "1", "]">>, <<"&", "x">>, <<"{", "a", ":", "1", "}">>,
             <<"let", "z", "=", "1">>, <<"if", "x", "{", "print", "(", "x", ")", "}">>, <<"return", "x">>}

Before(p, e) == p \o e
Around(p, e, q) == p \o e \o q

OfStatement(s) ==
  {s,
   Around(<<"@", "0ms", ":", "{">>, s, <<"}">>),
   Around(<<"if", "x", "{">>, s, <<"}">>),
   Around(<<"routine", "f", "(", "x", ")", "taking", "5ms", "{">>, s, <<"print", "(", "y", ")", "}">>)}
OfExpression(e) ==
  {e,
   Before(<<"let", "x", "=">>, e),
   Before(<<"return">>, e),
   Before(<<"let", "y", "=", "1", "+">>, Around(<<"(">>, e, <<")">>)),
   Around(<<"print", "(">>, e, <<",", "y", ")">>),
   Around(<<"if">>, e, <<"{", "print", "(", "x", ")", "}">>),
   Around(<<"-", "(">>, e, <<")">>),
   Around(<<"let", "y", "=", "(">>, e, <<")", ".", "f", "(", "x", ")">>),
   Around(<<"let", "y", "=", "(">>, e, <<")", "?">>)}
OfOperators(o, p) ==
  {<<"let", "x", "=", "(", "a">> \o o \o <<"b", ")">> \o p \o <<"c">>,
   <<"let", "x", "=", "a">> \o o \o <<"(", "b">> \o p \o <<"c", ")">>}
OfPair(s, t) ==
  {Around(<<"@", "0ms", ":", "{">>, s \o <<";">> \o t, <<";", "}">>),
   Around(<<"@", "0ms", ":", "{">>, s \o [t EXCEPT ![1] = Starting(@)], <<"}">>)}

Sources ==
  UNION {OfStatement(s) : s \in Stated}
  \cup UNION {OfExpression(e) : e \in Expressions}
  \cup UNION {OfOperators(o, p) : o, p \in Symbols}
  \cup UNION {OfPair(s, t) : s \in Enders, t \in Starters}

(* Commands of two files, the first of which may be refused or not parse    *)
Several == {<<"let", "=", "1">>, <<"continue">>, <<"x", "=", "a", "**", "b">>, <<"print", "(", "x", ")">>}

AllCommands == {<<s>> : s \in Sources} \cup {<<s, t>> : s, t \in Several}

-----------------------------------------------------------------------------
(* What the printer cannot write so that the parser reads it back           *)

(* Operators: a power; the right operand of an operator that the parser     *)
(* does not tell from its own, but the printer does; the operand of a sign, *)
(* a cast, or of what follows an expression                                 *)
Misread(n) ==
  \/ n.k = "Binary" /\ n.v = <<"**">>
  \/ /\ n.k = "Binary" /\ n.c[2].k = "Binary"
     /\ LeftPower(n.c[2].v[1]) = LeftPower(n.v[1])
     /\ op_precedence(n.c[2].v[1]) > op_precedence(n.v[1])
  \/ n.k \in {"Unary", "Ref"} /\ n.c[1].k = "Binary"
  \/ /\ n.k \in {"Method", "Field", "Index", "Part", "Try", "Assertion", "Cast"}
     /\ n.c[1].k \in {"Binary", "Unary", "Ref"}
  \/ n.k \in {"Ref", "Try"} /\ n.c[1].k = n.k

(* Lists that hold what their elements have put into the pool of expressions*)
Pools(n) == n.k \in {"Call", "Method", "Variant", "Array", "Tuple", "Syscall"}
            /\ Len(n.c) > IF n.k = "Method" THEN 1 ELSE 0
Overfull(n) ==
  LET elements == IF n.k = "Tuple" /\ n.c # <<>> THEN Range(Tail(n.c)) ELSE Range(n.c)
  IN  \/ n.k \in {"Print", "Array", "Syscall", "Tuple"} /\ \E e \in elements : \E m \in Within(e) : Pools(m)
      \/ n.k = "MatchExpr" /\ \E arm \in Range(Tail(n.c)) : \E m \in Within(arm) : m.k = "MatchExpr"

(* Literals, patterns and types of a form that is not their own             *)
Misnamed(n) ==
  \/ n.k = "Struct" /\ n.v[1] # ""
  \/ n.k = "Tuple" /\ Len(n.c) = 1
  \/ n.k = "PVariant" /\ Len(n.v) = 1 /\ n.c = <<>>
  \/ n.k = "type" /\ Len(n.v) = 4 /\ n.v[1] = "array"

(* Statements of which a part is not written, or not where it is read       *)
LossyRule(r) ==
  /\ r.c # <<>> /\ r.c[1].k \in {"topology_union", "topology_intersect"}
  /\ \E s \in Range(r.c[1].c) :
       \/ s.v[1] = "on_invalid"
       \/ s.v[1] = "_" /\ s.c[1] # Leaf("strategy", "decay")
       \/ s.v[1] \notin {"_", "on_invalid"} /\ s.c[1] # Leaf("strategy", "first_wins")
Partial(n) ==
  \/ n.k \in {"Send", "Macro"}
  \/ n.k = "AssertTime" /\ n.c[1] # None
  \/ n.k = "Select" /\ n.c # <<>>
  \/ n.k = "While" /\ n.v[2] = "valid"
  \/ n.k = "For" /\ n.v[5] = Forever
  \/ n.k \in {"Speculate", "Select"} /\ n.v[1] = Forever
  \/ n.k = "Lease" /\ n.v[3] = Forever
  \/ n.k = "Merge" /\ (n.v[3] # "" \/ \E r \in Range(n.c) : LossyRule(r))
  \/ n.k = "branch" /\ n.v[1] # "Valid" /\ n.v[2] # ""
  \/ n.k = "If" /\ n.v[1] # "" /\ n.c[3] # None /\ Len(n.c[3].c) = 1 /\ n.c[3].c[1].k = "If"
  \/ n.k = "Isolate" /\ n.c[1].v[3] # ""
  \/ n.k = "timeline" /\ n.v[4] # ""

(* Routines: on a single expression, of more than one capability, or of a   *)
(* message                                                                  *)
Headless(n) ==
  /\ n.k = "Routine"
  /\ \/ Len(n.c[6].c) = 1 /\ n.c[6].c[1].k = "Expr"
     \/ Len(n.c[5].c) > 1
     \/ "::" \in Range(n.v)

(* Statements that run into the next one: nothing is written between them   *)
Begin(n) == Layout(Node("program", <<>>, <<Node("timeline", <<"global", "0", "", "">>, <<n>>)>>))[5]
Openers == {"-", "+", "&"}
Open(n) ==
  \/ n.k \in {"Assignment", "State", "Update", "Yield", "Expr", "Return", "Destructure"}
Runs(a, b) ==
  \/ a.k = "Return" /\ a.c = <<>>
  \/ Open(a) /\ Begin(b) \in Openers
  \/ a.k = "Routine" /\ a.c[6].c = <<>> /\ Begin(b) # "routine"
Adjacent(n) ==
  /\ n.k \in {"Block", "block", "timeline"}
  /\ \E i \in 1..Len(n.c) - 1 : Runs(n.c[i], n.c[i + 1])

(* An expression that begins with a keyword of a statement                  *)
RECURSIVE Begins(_)
Begins(n) == IF n.k \in {"IfExpr", "MatchExpr"} THEN TRUE
             ELSE n.k \in {"Method", "Field", "Index", "Part", "Try", "Assertion", "Cast"} /\ Begins(n.c[1])
Disguised(n) == n.k = "Expr" /\ Begins(n.c[1])

Unwritable(tree) ==
  \E n \in Within(tree) :
    Misread(n) \/ Overfull(n) \/ Misnamed(n) \/ Partial(n) \/ Headless(n) \/ Adjacent(n) \/ Disguised(n)

-----------------------------------------------------------------------------
(* Properties                                                               *)

Source == original[file]
Outcome == text # <<>> /\ phase \in {"refused", "stuck", "validate"}

(* What the printer writes is read back as what was printed, unless the     *)
(* program holds one of the forms above, and then the gate stops it: no more*)
(* and no fewer files are refused.  The printer decides on parentheses, on  *)
(* separators and on the form of each statement by tables of its own        *)
(* (printer.rs), the parser by others (pratt.rs).                           *)
RefusedExactly == Outcome => (phase \in {"refused", "stuck"} <=> Unwritable(program))

(* Routines with attributes: `@a routine f() => x` is written with its      *)
(* attributes inside, where they are the statement's                        *)
Shorthand(tree) == \E n \in Within(tree) : n.k = "Routine" /\ n.at # <<>>

(* After any number of runs a file that was written has the tree it had     *)
(* before the first, attributes and manifests included, which the equality  *)
(* of the gate does not look at (main.rs: "formatted AST must match original *)
(* AST").                                                                   *)
MeaningKept == phase = "written" /\ ~Shorthand(Source.tree) => back = Source.tree

(* A second run finds nothing to write: what the printer makes of its own   *)
(* text is that text.                                                       *)
FormattingSettles == phase = "written" /\ run > 1 => Shorthand(Source.tree)

(* What the parser passes over or does not keep                             *)
Unkept ==
  {<<"::", "<">>, <<">", "::">>, <<"_", ":">>, <<"..">>, <<"..=">>, <<"timeout">>, <<"defer">>, <<"distinct">>,
   <<"enable">>, <<"every">>, <<"macro">>}
Unread(t) ==
  \E i \in DOMAIN t :
    \/ <<t[i]>> \in Unkept
    \/ i < Len(t) /\ <<t[i], t[i + 1]>> \in Unkept
    \/ i < Len(t) - 1 /\ IsName(t[i]) /\ t[i + 1] = "!" /\ t[i + 2] = "("
    \/ i < Len(t) - 1 /\ t[i] = "state" /\ t[i + 2] = ":"
    \/ i < Len(t) - 2 /\ t[i] = "type" /\ IsName(t[i + 3])
Held(t) == {t[i] : i \in {j \in DOMAIN t : IsName(t[j]) \/ t[j] \in Numerals \cup Durations \cup Texts}}

(* No name and no literal of the source is missing in the file that was     *)
(* written, unless the parser did not keep it.  The gate cannot tell: it    *)
(* compares what the parser made of both.                                   *)
NothingLost == phase = "written" /\ ~Unread(Source.text) => Held(Source.text) \subseteq Held(text)
=============================================================================
