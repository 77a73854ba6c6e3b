------------------------------- MODULE Printer -------------------------------
(* The formatter's printer (causm-devtools, fmt/printer.rs): the text of a   *)
(* syntax tree, as the tokens the lexer finds in it.  Lines, indentation and *)
(* what is put on lines of its own for its width are left out; what two      *)
(* pieces of text written without a space become is not.                     *)
EXTENDS Programs

RECURSIVE Text(_), KeywordText(_), PatternText(_), StatementText(_), Joined(_, _)

Joined(texts, separator) ==
  IF texts = <<>> THEN <<>>
  ELSE IF Len(texts) = 1 THEN texts[1]
  ELSE texts[1] \o separator \o Joined(Tail(texts), separator)

Commas(texts) == Joined(texts, <<",">>)
Words(names) == Commas([i \in DOMAIN names |-> <<names[i]>>])
Dots(names) == Joined([i \in DOMAIN names |-> <<names[i]>>], <<".">>)
InParens(text) == <<"(">> \o text \o <<")">>
Optional(x, text) == IF x = "" THEN <<>> ELSE text

TextOfEach(nodes) == [i \in DOMAIN nodes |-> Text(nodes[i])]
Arguments(nodes) == InParens(Commas(TextOfEach(nodes)))

(* `&` and `?` written before or after another of their kind are one token  *)
Prefixed(sign, text) ==
  IF sign = "&" /\ text[1] = "&" THEN <<"&&">> \o Tail(text) ELSE <<sign>> \o text
Suffixed(text) ==
  IF text[Len(text)] = "?" THEN SubSeq(text, 1, Len(text) - 1) \o <<"??">> ELSE text \o <<"?">>

(* array<T> is written [T]                                                  *)
TypeText(type) ==
  IF Len(type.v) = 4 /\ type.v[1] = "array" THEN <<"[", type.v[3], "]">> ELSE type.v

-----------------------------------------------------------------------------
(* Operators: the printer's own order of precedence, one level for each     *)
(* operator of logic, where the parser has one for all of them              *)

op_precedence(op) ==
  CASE op = "??" -> 3
    [] op = "||" -> 5
    [] op = "&&" -> 10
    [] op = "|" -> 12
    [] op = "^" -> 14
    [] op = "&" -> 16
    [] op \in {"==", "!="} -> 20
    [] op \in {"<", "<=", ">", ">="} -> 30
    [] op \in {"<<", ">>"} -> 35
    [] op \in {"+", "-"} -> 40
    [] op \in {"*", "/", "%"} -> 50
    [] op = "**" -> 60

SubLeft(child, parent, right) ==                  \* mutant
  IF child.k \in {"IfExpr", "MatchExpr"}
     \/ (child.k = "Binary" /\ op_precedence(child.v[1]) < op_precedence(parent))
  THEN InParens(Text(child)) ELSE Text(child)
Sub(child, parent, right) ==
  LET op == child.v[1]
      looser == op_precedence(op) < op_precedence(parent)
      level == op_precedence(op) = op_precedence(parent)
      inside == \/ child.k \in {"IfExpr", "MatchExpr"}
                \/ child.k = "Binary" /\ (looser \/ (level /\ (right \/ op \in {"%", "/", "-"})))
  IN  IF inside THEN InParens(Text(child)) ELSE Text(child)

(* A power is written `^`, which is read as an exclusive or                 *)
BinaryText(n) ==
  LET op == n.v[1]
  IN  Sub(n.c[1], op, FALSE) \o <<IF op = "**" THEN "^" ELSE op>> \o Sub(n.c[2], op, TRUE)

-----------------------------------------------------------------------------
(* Expressions                                                              *)

(* A literal of a type is written `Name: struct { ... }`                    *)
StructText(n) ==
  LET entries == [i \in DOMAIN n.c |-> <<n.c[i].v[1], "=">> \o Text(n.c[i].c[1])]
  IN  Optional(n.v[1], <<n.v[1], ":">>) \o <<"struct", "{">> \o Commas(entries) \o <<"}">>

SyscallText(n) ==
  LET args == IF n.c = <<>> THEN <<>> ELSE <<",">> \o Commas(TextOfEach(n.c))
  IN  <<"syscall", "(", n.v[1]>> \o args \o <<")">> \o Optional(n.v[2], <<"taking", Ms(n.v[2])>>)

(* an if in the else branch of a long one is written without these braces,  *)
(* and read back alike                                                      *)
IfExprText(n) ==
  <<"if">> \o InParens(Text(n.c[1])) \o <<"{">> \o Text(n.c[2]) \o <<"}", "else", "{">>
  \o Text(n.c[3]) \o <<"}">>

(* Two arms or more are each followed by a comma                            *)
MatchExprText(n) ==
  LET arms == Tail(n.c)
      Arm(i) == PatternText(arms[i].c[1]) \o <<"=>">> \o Text(arms[i].c[2])
      texts == [i \in DOMAIN arms |-> Arm(i) \o IF Len(arms) = 1 THEN <<>> ELSE <<",">>]
  IN  <<"match">> \o Text(n.c[1]) \o <<"{">> \o Joined(texts, <<>>) \o <<"}">>

Bound(n) == IF n = None THEN <<>> ELSE Text(n)

Text(n) ==
  CASE n.k \in {"Int", "Str", "Bool", "Ident"} -> n.v
    [] n.k = "Null" -> <<"null">>
    [] n.k = "Call" -> Dots(n.v) \o Arguments(n.c)
    [] n.k = "Method" -> Text(n.c[1]) \o <<".", n.v[1]>> \o Arguments(Tail(n.c))
    [] n.k = "Field" -> Text(n.c[1]) \o <<".", n.v[1]>>
    [] n.k = "Binary" -> BinaryText(n)
    [] n.k = "Unary" -> Prefixed(n.v[1], Text(n.c[1]))
    [] n.k = "Ref" -> Prefixed("&", Text(n.c[1]))
    [] n.k = "Try" -> Suffixed(Text(n.c[1]))
    [] n.k = "Struct" -> StructText(n)
    [] n.k = "Array" -> <<"[">> \o Commas(TextOfEach(n.c)) \o <<"]">>
    [] n.k = "Repeat" -> <<"[">> \o Text(n.c[1]) \o <<";">> \o Text(n.c[2]) \o <<"]">>
    [] n.k = "Part" -> Text(n.c[1]) \o <<"[">> \o Bound(n.c[2]) \o n.v \o Bound(n.c[3]) \o <<"]">>
    [] n.k = "Index" -> Text(n.c[1]) \o <<"[">> \o Text(n.c[2]) \o <<"]">>
    [] OTHER -> KeywordText(n)

KeywordText(n) ==
  CASE n.k = "Receive" -> <<"chan_recv">> \o InParens(Optional(n.v[1], n.v))
    [] n.k = "Cast" -> Text(n.c[1]) \o <<"as">> \o n.v
    [] n.k = "Assertion" -> Text(n.c[1]) \o <<".", "(">> \o n.v \o <<")">>
    [] n.k = "Syscall" -> SyscallText(n)
    [] n.k = "Variant" ->
         Optional(n.v[1], <<n.v[1]>>) \o <<"::", n.v[2]>>
         \o (IF n.c = <<>> THEN <<>> ELSE Arguments(n.c))
    [] n.k = "Defer" -> <<"defer">> \o Dots(Tail(n.v)) \o <<"(", ")", "taking", Ms(n.v[1])>>
    [] n.k = "IfExpr" -> IfExprText(n)
    [] n.k = "MatchExpr" -> MatchExprText(n)
    [] n.k = "Introspect" -> <<"arena", ".", n.v[1], "(", ")">>
    [] n.k = "Tuple" -> Arguments(n.c)

PatternText(p) ==
  LET args == Commas([i \in DOMAIN p.c |-> PatternText(p.c[i])])
  IN  CASE p.k = "PAny" -> <<"_">>
        [] p.k \in {"PIdent", "PLiteral"} -> p.v
        [] p.k = "PTuple" -> InParens(args)
        [] p.k = "PVariant" -> p.v \o IF p.c = <<>> THEN <<>> ELSE InParens(args)

-----------------------------------------------------------------------------
(* Parts of statements                                                      *)

AttributeText(at) ==
  <<"@", at[1]>> \o IF at[1] = "derive" \/ Len(at) > 1 THEN InParens(Words(Tail(at))) ELSE <<>>

Attributed(n, text) == Joined([i \in DOMAIN n.at |-> AttributeText(n.at[i])], <<>>)
  \o (IF text = <<>> THEN text ELSE [text EXCEPT ![1] = Starting(@)])

Lines(block) == Joined([i \in DOMAIN block.c |-> StatementText(block.c[i])], <<>>)
BlockText(block) == <<"{">> \o Lines(block) \o <<"}">>
BlockAfter(word, block) == IF block = None THEN <<>> ELSE <<word>> \o BlockText(block)
ReconcileText(r) == Optional(r, <<"reconcile", "auto">>)
GuardText(guard) == IF guard = None THEN <<>> ELSE <<"if">> \o Text(guard)
LimitText(max) == <<"taking", IF max = Forever THEN "_" ELSE Ms(max)>>
LimitParens(max) == IF max = Forever THEN <<>> ELSE <<"(", "taking", Ms(max), ")">>

(* No limit is written as the largest number, which does not fit and is     *)
(* read as 0                                                                *)
LastingText(ms) == <<"taking", IF ms = Forever THEN "0ms" ELSE Ms(ms)>>

TimeText(kind, when) ==
  CASE kind = "global" -> <<"@", Ms(when)>>
    [] kind = "relative" -> <<"@", "+", Ms(when)>>
    [] kind = "branch" -> <<"@", when>>
    [] kind = "periodic" -> <<"@", "every", Ms(when)>>

SettingsText(c) ==
  IF c = <<>> THEN <<>>
  ELSE InParens(Commas([i \in DOMAIN c |-> <<c[i].v[1], "=", c[i].v[2]>>]))
CapabilityText(n) == <<"require">> \o Dots(n.v) \o SettingsText(n.c)

ModeText(mode) == IF mode = "peek" THEN <<"&">> ELSE <<mode>>
ParamText(p) ==
  ModeText(p.v[1]) \o <<p.v[2]>>
  \o IF p.v[2] = "self" \/ p.c[1] = None THEN <<>> ELSE <<":">> \o TypeText(p.c[1])

(* What a routine's head says after its name                                *)
HeadText(n, taking) ==
  LET params == [i \in DOMAIN n.c[1].c |-> ParamText(n.c[1].c[i])]
      requires == [i \in DOMAIN n.c[5].c |-> n.c[5].c[i].v]
  IN  InParens(Commas(params))
      \o (IF n.c[2] = None THEN <<>> ELSE <<"->">> \o TypeText(n.c[2]))
      \o (IF requires = <<>> THEN <<>> ELSE <<"require">> \o Commas(requires))
      \o taking
      \o IF n.c[4] = None THEN <<>>
         ELSE <<"where", n.c[4].v[1], ".", "state", "==", n.c[4].v[2]>>

(* The rules of a topology are all written first_wins, without the default  *)
StrategyText(s) ==
  LET keys == SelectSeq(s.c, LAMBDA r : r.v[1] \notin {"_", "on_invalid"})
  IN  CASE s.k = "priority" -> <<"priority", "(", s.v[1], ")">>
        [] s.k \in {"strategy", "custom"} -> s.v
        [] OTHER -> <<s.k, "{">>
                    \o Commas([i \in DOMAIN keys |-> <<keys[i].v[1], "=", "first_wins">>]) \o <<"}">>

ResolutionText(auto, rules) ==
  IF auto = "auto" THEN ReconcileText(auto)
  ELSE IF rules = <<>> THEN <<>>
  ELSE <<"reconcile">>
       \o InParens(Commas([i \in DOMAIN rules |-> <<rules[i].v[1], "=">> \o StrategyText(rules[i].c[1])]))

-----------------------------------------------------------------------------
(* Declarations                                                             *)

AssignmentText(n) ==
  LET life == CASE n.v[3] = "" -> <<>>
                [] n.v[3] = "valid" -> <<"@", "valid">>
                [] OTHER -> <<"@", n.v[3], "(", Ms(n.v[4]), ")">>
      type == IF n.c[1] = None THEN <<>> ELSE <<":">> \o TypeText(n.c[1])
  IN  <<"let">> \o Optional(n.v[2], <<"mut">>) \o life \o <<n.v[1]>> \o type \o <<"=">> \o Text(n.c[2])

DestructureText(n) ==
  LET Pair(i) == IF n.v[2 * i - 1] = n.v[2 * i] THEN <<n.v[2 * i]>>
                 ELSE <<n.v[2 * i - 1], "as", n.v[2 * i]>>
  IN  <<"let", "{">> \o Commas([i \in 1..(Len(n.v) \div 2) |-> Pair(i)]) \o <<"}", "=">> \o Text(n.c[1])

(* A routine of a single expression is one line; the attributes of that     *)
(* expression are not written                                               *)
RoutineText(n) ==
  LET body == n.c[6]
      taking == IF n.c[3].v[1] = "" THEN <<"taking", "_">> ELSE <<"taking", Ms(n.c[3].v[1])>>
      head == <<"routine">> \o n.v \o HeadText(n, taking)
  IN  CASE Len(body.c) = 1 /\ body.c[1].k = "Expr" -> head \o <<"=>">> \o Text(body.c[1].c[1])
        [] body.c = <<>> -> head
        [] OTHER -> head \o BlockText(body)

MethodText(n) ==
  <<"routine">> \o n.v \o HeadText(n, Optional(n.c[3].v[1], <<"taking", Ms(n.c[3].v[1])>>))
  \o IF n.c[6].c = <<>> THEN <<>> ELSE BlockText(n.c[6])

InterfaceText(n) ==
  LET parents == Joined([i \in 1..Len(n.v) - 1 |-> <<n.v[i + 1]>>], <<"+">>)
  IN  <<"interface", n.v[1]>> \o (IF parents = <<>> THEN <<>> ELSE <<"=">> \o parents \o <<"+", "interface">>)
      \o <<"{">> \o Joined([i \in DOMAIN n.c |-> MethodText(n.c[i])], <<>>) \o <<"}">>

TypeDeclText(n) ==
  LET drop == n.c[1]
      Field(f) == Optional(f.v[2], <<"const">>) \o <<f.v[1], ":">> \o TypeText(f.c[1])
                  \o IF f.c[2] = None THEN <<>> ELSE <<"=">> \o Text(f.c[2])
      fields == [i \in 1..Len(n.c) - 1 |-> Field(n.c[i + 1])]
  IN  <<"type", n.v[1], "=">> \o Optional(n.v[2], <<n.v[2], "+">>) \o <<"struct">>
      \o Optional(n.v[3], <<"decay_after", Ms(n.v[3])>>)
      \o (IF drop = None THEN <<>>
          ELSE <<"auto_drop">> \o InParens(Words(drop.v)))
      \o <<"{">> \o Commas(fields) \o <<"}">>

EnumText(n) ==
  LET Item(v) == <<v[1]>> \o IF Len(v) = 1 THEN <<>> ELSE InParens(Words(Tail(v)))
  IN  <<"enum", n.v[1], "{">> \o Commas([i \in DOMAIN n.c |-> Item(n.c[i].v)]) \o <<"}">>

ItemText(v) == <<v[1]>> \o Optional(v[2], <<"as", v[2]>>)

MemoryTextDropped(bytes) == <<>>                  \* mutant
MemoryText(bytes) == Optional(bytes, <<"enable", "memory", "(", bytes, "bytes", ")">>)

CapabilitiesTextLess(nodes) ==                    \* mutant
  Joined([i \in 1..Len(nodes) - 1 |-> CapabilityText(nodes[i])], <<>>)
CapabilitiesText(nodes) == Joined([i \in DOMAIN nodes |-> CapabilityText(nodes[i])], <<>>)

(* The manifest first, a slice among its budgets                            *)
IsolateText(n) ==
  LET manifest == n.c[1]
      budgets == manifest.c[2].c
      Budget(v) == <<"enable", v[1], "(", v[2], ")">>
  IN  <<"isolate">> \o Optional(n.v[1], n.v) \o <<"{">>
      \o Optional(manifest.v[1], <<"enable", "cpu", "(", Ms(manifest.v[1]), ")">>)
      \o MemoryText(manifest.v[2])
      \o Optional(manifest.v[3], <<"slice", Ms(manifest.v[3])>>)
      \o Joined([i \in DOMAIN budgets |-> Budget(budgets[i].v)], <<>>)
      \o CapabilitiesText(manifest.c[1].c) \o Lines(n.c[2]) \o <<"}">>

DeclarationText(n) ==
  CASE n.k = "Assignment" -> AssignmentText(n)
    [] n.k = "Destructure" -> DestructureText(n)
    [] n.k = "State" -> <<"state", n.v[1], "=">> \o Text(n.c[1])
    [] n.k = "Update" -> Text(n.c[1]) \o Optional(n.v[1], <<".", n.v[1]>>) \o <<"=">> \o Text(n.c[2])
    [] n.k = "Routine" -> RoutineText(n)
    [] n.k = "Interface" -> InterfaceText(n)
    [] n.k = "TypeDecl" -> TypeDeclText(n)
    [] n.k = "Enum" -> EnumText(n)
    [] n.k = "Import" -> <<"import">> \o ItemText(n.v)
    [] n.k = "From" ->
         <<"from", n.v[1], "import">> \o Commas([i \in DOMAIN n.c |-> ItemText(n.c[i].v)])
    [] n.k = "Foreign" -> <<"foreign", n.v[1], "abi", "(", n.v[2], ")">> \o BlockText(n.c[1])
    [] n.k = "Isolate" -> IsolateText(n)
    [] n.k = "Capability" -> CapabilityText(n)
Declarations ==
  {"Assignment", "Destructure", "State", "Update", "Routine", "Interface", "TypeDecl", "Enum",
   "Import", "From", "Foreign", "Isolate", "Capability"}

-----------------------------------------------------------------------------
(* Control                                                                  *)

IfHead(n) ==
  IF Len(n.v) > 1 THEN <<"if", "let">> \o Tail(n.v) \o <<"=">> \o Text(n.c[1])
  ELSE <<"if">> \o InParens(Text(n.c[1]))

(* An else that is an if alone goes on in the same chain, without its       *)
(* attributes; a reconcile is written once, at the end: that of the last if *)
(* of the chain that has one                                                *)
RECURSIVE IfText(_, _)
IfText(n, outer) ==
  LET no == n.c[3]
      reconcile == IF n.v[1] = "" THEN outer ELSE n.v[1]
      chained == no # None /\ Len(no.c) = 1 /\ no.c[1].k = "If"
  IN  IfHead(n) \o BlockText(n.c[2])
      \o IF chained THEN <<"else">> \o IfText(no.c[1], reconcile)
         ELSE BlockAfter("else", no) \o ReconcileText(reconcile)

IfLetText(n) ==
  <<"if", "let">> \o PatternText(n.c[4]) \o <<"=">> \o Text(n.c[1]) \o BlockText(n.c[2])
  \o BlockAfter("else", n.c[3]) \o ReconcileText(n.v[1])

ArmText(arm) == PatternText(arm.c[1]) \o GuardText(arm.c[2]) \o <<"=>">> \o BlockText(arm.c[3])
BranchText(b) ==
  IF b = None THEN <<>>
  ELSE <<b.v[1]>> \o Optional(b.v[2], InParens(<<b.v[2]>>)) \o GuardText(b.c[1]) \o <<":">> \o BlockText(b.c[2])

MatchText(n) ==
  LET each == Tail(n.c)
  IN  IF n.k = "Match"
      THEN <<"match">> \o Text(n.c[1]) \o <<"{">>
           \o Joined([i \in DOMAIN each |-> ArmText(each[i])], <<>>) \o <<"}">>
      ELSE <<"match", "entropy">> \o InParens(Text(n.c[1])) \o <<"{">>
           \o Joined([i \in DOMAIN each |-> BranchText(each[i])], <<>>) \o <<"}">>

(* The check that a variable is valid is written as the variable            *)
WhileText(n) == <<"while">> \o InParens(Text(n.c[1])) \o LimitText(n.v[1]) \o BlockText(n.c[2])

ForText(n) ==
  IF n.k = "For"
  THEN <<"for", n.v[1], n.v[2], n.v[3]>> \o Optional(n.v[4], <<"pacing", "taking", Ms(n.v[4])>>)
       \o (IF n.v[5] = Forever THEN <<>> ELSE Optional(n.v[5], <<"taking", Ms(n.v[5])>>)) \o BlockText(n.c[1])
  ELSE <<"for", n.v[1], "in">> \o Text(n.c[1])
       \o <<"step", IF n.v[2] = "" THEN "_" ELSE Ms(n.v[2])>> \o BlockText(n.c[2])

ControlText(n) ==
  CASE n.k = "If" -> IfText(n, "")
    [] n.k = "IfLet" -> IfLetText(n)
    [] n.k \in {"Match", "MatchEntropy"} -> MatchText(n)
    [] n.k = "Loop" -> <<"loop">> \o LimitText(n.v[1]) \o BlockText(n.c[1])
    [] n.k = "LoopTick" -> <<"loop", "tick">> \o BlockText(n.c[1])
    [] n.k = "LoopOn" -> <<"loop", "on">> \o Text(n.c[1]) \o BlockText(n.c[2])
    [] n.k = "While" -> WhileText(n)
    [] n.k \in {"For", "ForStep"} -> ForText(n)
    [] n.k = "Using" -> <<"using", n.v[1], "=">> \o Text(n.c[1]) \o BlockText(n.c[2])
    [] n.k = "Break" -> <<"break">>
    [] n.k = "Return" -> <<"return">> \o Commas(TextOfEach(n.c))
    [] n.k = "Yield" -> <<"yield">> \o Text(n.c[1])
    [] n.k = "Print" -> <<"print">> \o Arguments(n.c)
    [] n.k = "Debug" -> <<"debug">> \o Arguments(n.c)
    [] n.k = "Expr" -> Text(n.c[1])
Control ==
  {"If", "IfLet", "Match", "MatchEntropy", "Loop", "LoopTick", "LoopOn", "While", "For", "ForStep",
   "Using", "Break", "Return", "Yield", "Print", "Debug", "Expr"}

-----------------------------------------------------------------------------
(* Time, branches and messages                                              *)

SelectText(n) ==
  LET Case(c) == <<"case", c.v[1], "=">> \o Text(c.c[1]) \o <<":", "{", "}">>
  IN  <<"select">> \o LimitParens(n.v[1]) \o <<"{">>
      \o Joined([i \in DOMAIN n.c |-> Case(n.c[i])], <<>>) \o <<"}">>

(* A fallback is written after an `else`, which the parser does not expect  *)
AssertTimeText(n) ==
  <<"assert_time", "(", "elapsed", n.v[1], Ms(n.v[2]), ")">> \o BlockAfter("else", n.c[1])

(* What is sent is the name the lowering gave it, and where to has an `@`   *)
SendText(n) == <<"send", "(", "__send_value", ",", "@", n.v[1], ")">>

SpeculateText(n) ==
  <<"speculate">> \o LimitParens(n.v[1]) \o BlockText(n.c[1]) \o BlockAfter("fallback", n.c[2])

LeaseText(n) ==
  <<"lease", n.v[1], "=", n.v[2]>> \o LastingText(n.v[3]) \o BlockText(n.c[1]) \o ReconcileText(n.v[4])

DirectivesText(n) ==
  Joined([i \in DOMAIN n.v |-> <<"@", n.v[i]>>], <<>>) \o <<":">> \o BlockText(n.c[1])

(* How long a merge may take is not written                                 *)
MergeText(n) ==
  <<"merge", "[">> \o Words(SubSeq(n.v, 4, Len(n.v))) \o <<"]", "into", n.v[1]>>
  \o ResolutionText(n.v[2], n.c)

MacroText(n) ==
  <<"macro", n.v[1], "!", "(">> \o Commas([i \in DOMAIN n.c[1].v |-> <<"$", n.c[1].v[i], ":", "expr">>])
  \o <<"=>", "{">> \o n.c[2].v \o <<"}", ")">>

StatementText(n) ==
  Attributed(n,
    CASE n.k \in Declarations -> DeclarationText(n)
      [] n.k \in Control -> ControlText(n)
      [] n.k = "Split" -> <<"split", n.v[1], "into", "[">> \o Words(Tail(n.v)) \o <<"]">>
      [] n.k = "Merge" -> MergeText(n)
      [] n.k = "Anchor" -> <<"anchor">> \o n.v
      [] n.k = "Rewind" -> <<"rewind_to">> \o InParens(Optional(n.v[1], n.v))
      [] n.k = "Commit" -> <<"commit">> \o BlockText(n.c[1])
      [] n.k = "Collapse" -> <<"collapse">>
      [] n.k = "Speculate" -> SpeculateText(n)
      [] n.k = "Lease" -> LeaseText(n)
      [] n.k = "At" -> TimeText(n.v[1], n.v[2]) \o <<":">> \o BlockText(n.c[1])
      [] n.k = "Directives" -> DirectivesText(n)
      [] n.k = "Await" -> <<"await">> \o InParens(n.v)
      [] n.k = "AssertTime" -> AssertTimeText(n)
      [] n.k = "Select" -> SelectText(n)
      [] n.k = "OnDecay" -> <<"on_decay">> \o InParens(n.v) \o BlockText(n.c[1])
      [] n.k = "Slice" -> <<"slice", Ms(n.v[1])>>
      [] n.k = "Policy" -> <<"policy", n.v[1], "=", n.v[2]>>
      [] n.k = "Entangle" -> <<"entangle">> \o InParens(Words(n.v))
      [] n.k = "Macro" -> MacroText(n)
      [] n.k = "Send" -> SendText(n))

-----------------------------------------------------------------------------
(* A program: its timelines, without the mode of chaos or determinism       *)

TimelineText(t) ==
  TimeText(t.v[1], t.v[2]) \o (IF t.v[3] = "no_z3" THEN <<"@", "no_z3">> ELSE <<>>)
  \o <<":", "{">> \o Lines(t) \o <<"}">>

format_program(program) == Joined([i \in DOMAIN program.c |-> TimelineText(program.c[i])], <<>>)
=============================================================================
