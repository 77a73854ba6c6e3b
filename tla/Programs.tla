------------------------------ MODULE Programs ------------------------------
(* The tree of a file: its timelines, with the calls of macros replaced by  *)
(* what they stand for (macro_expand.rs) and the routines derived for its   *)
(* types added (derive.rs).                                                 *)
EXTENDS Statements

RECURSIVE Program(_)

-----------------------------------------------------------------------------
(* Programs.  A block at a time becomes a timeline; what stands outside of  *)
(* any comes first, at 0.                                                   *)

RECURSIVE UsesZero(_), Resolved(_, _)
UsesZero(n) == n = ExprZero \/ \E i \in DOMAIN n.c : UsesZero(n.c[i])
Resolved(n, zero) ==
  IF n = ExprZero THEN zero
  ELSE [n EXCEPT !.c = [i \in DOMAIN n.c |-> Resolved(n.c[i], zero)]]

TimelineOf(n) ==
  LET given == SubSeq(n.v, 3, Len(n.v))
      modes == SelectSeq(given, LAMBDA d : d # "no_z3")
  IN  Node("timeline", SubSeq(n.v, 1, 2) \o <<IF "no_z3" \in Range(given) THEN "no_z3" ELSE "",
                                              IF modes = <<>> THEN "" ELSE modes[Len(modes)]>>,
           n.c[1].c)

-----------------------------------------------------------------------------
(* Macros.  Definitions are taken out of the tree; they and their calls are *)
(* looked for in some statements only.                                      *)

Opened(n) ==
  CASE n.k = "If" -> {i \in {2, 3} : n.c[i] # None}
    [] n.k \in {"While", "LoopOn"} -> {2}
    [] n.k \in {"Loop", "LoopTick"} -> {1}
    [] n.k = "Routine" -> {6}
    [] OTHER -> {}

RECURSIVE Defined(_), Stripped(_), Expanded(_, _, _), Filled(_, _)
Defined(nodes) ==
  IF nodes = <<>> THEN <<>>
  ELSE LET n == nodes[1]
           inner == IF 2 \in Opened(n) /\ 3 \in Opened(n) THEN n.c[2].c \o n.c[3].c
                    ELSE IF Opened(n) = {} THEN <<>> ELSE n.c[Max(Opened(n))].c
       IN  (IF n.k = "Macro" THEN <<n>> ELSE Defined(inner)) \o Defined(Tail(nodes))

Stripped(nodes) ==
  LET left == SelectSeq(nodes, LAMBDA n : n.k # "Macro")
  IN  [i \in DOMAIN left |->
        [left[i] EXCEPT !.c = [j \in DOMAIN @ |->
           IF j \in Opened(left[i]) THEN [@[j] EXCEPT !.c = Stripped(@)] ELSE @[j]]]]

(* The template with an argument for each $x                                *)
Filled(template, args) ==
  IF template = <<>> THEN <<>>
  ELSE IF template[1] = "$" /\ Len(template) > 1 /\ template[2] \in DOMAIN args
       THEN args[template[2]] \o Filled(SubSeq(template, 3, Len(template)), args)
  ELSE <<template[1]>> \o Filled(Tail(template), args)

Calls(n, macro) == n.k = "Expr" /\ n.c[1].k = "Call" /\ n.c[1].v = <<MacroName(macro.v[1])>>
Spent(n, macro) ==
  LET names == macro.c[1].v
      args == n.c[1].c
      given == 1..Min({Len(names), Len(args)})
      Given(x) == CHOOSE i \in given : names[i] = x
      a == Program(<<"@", "0ms", ":", "{">>
                   \o Filled(macro.c[2].v, [x \in {names[i] : i \in given} |-> Unquoted(args[Given(x)].v[1])])
                   \o <<"}">>)
  IN  CASE a.err = "" -> FlattenSeq([i \in DOMAIN a.tree.c |-> a.tree.c[i].c])
        [] a.err = "error" -> <<>>
        [] OTHER -> <<Leaf("failed", a.err)>>

(* What a call stands for is looked through again; one that comes back to   *)
(* itself never ends                                                        *)
Expanded(nodes, macros, depth) ==
  IF nodes = <<>> THEN <<>>
  ELSE LET n == [nodes[1] EXCEPT !.c = [j \in DOMAIN @ |->
                   IF j \in Opened(nodes[1]) THEN [@[j] EXCEPT !.c = Expanded(@, macros, depth)] ELSE @[j]]]
           called == {i \in DOMAIN macros : Calls(n, macros[i])}
           now == CASE called = {} -> <<n>>
                    [] called # {} /\ depth > Len(macros) -> <<Leaf("failed", "hang")>>
                    [] OTHER -> Expanded(Spent(n, macros[Max(called)]), macros, depth + 1)
       IN  now \o Expanded(Tail(nodes), macros, depth)

-----------------------------------------------------------------------------
(* Derived routines (of a struct's or an enum's copy, of equality; those    *)
(* that print are left out)                                                 *)

Self(mode, name, type) == Node("param", <<mode, name>>, <<Type(<<type>>)>>)
Derives(n, trait) ==
  LET type == n.v[1]
      keys == [i \in 1..Len(n.c) - 1 |-> n.c[i + 1].v[1]]
      Field(of, key) == Node("Field", <<key>>, <<Leaf("Ident", of)>>)
      Equal(key) == Node("Binary", <<"==">>, <<Field("self", key), Field("other", key)>>)
      all[i \in DOMAIN keys] ==
        IF i = 1 THEN Equal(keys[1]) ELSE Node("Binary", <<"&&">>, <<all[i - 1], Equal(keys[i])>>)
      Made2(name, params, returns, e) ==
        RoutineNode(<<type, ".", name>>, Block(params), [NoClauses EXCEPT !.returns = Type(<<returns>>)],
                    Block(<<Node("Expr", <<>>, <<e>>)>>))
  IN  CASE trait = "Clone" ->
             <<Made2("clone", <<Self("peek", "self", type)>>, type,
                     Node("Call", <<"clone">>, <<Leaf("Ident", "self")>>))>>
        [] trait = "PartialEq" /\ n.k = "TypeDecl" ->
             <<Made2("equals", <<Self("peek", "self", type), Self("peek", "other", type)>>, "bool",
                     IF keys = <<>> THEN Leaf("Bool", "true") ELSE all[Len(keys)])>>
        [] OTHER -> <<>>

(* One for each trait of each type at the top of a timeline, at its end     *)
Derived(nodes) ==
  LET Traits(n) == FlattenSeq([i \in DOMAIN n.at |-> IF n.at[i][1] = "derive" THEN Tail(n.at[i]) ELSE <<>>])
      Of(n) == IF n.k \notin {"TypeDecl", "Enum"} THEN <<>>
               ELSE FlattenSeq([i \in DOMAIN Traits(n) |-> Derives(n, Traits(n)[i])])
  IN  FlattenSeq([i \in DOMAIN nodes |-> Of(nodes[i])])

-----------------------------------------------------------------------------
RECURSIVE Failures(_)
Failures(n) == (IF n.k = "failed" THEN {n.v[1]} ELSE {}) \cup UNION {Failures(n.c[i]) : i \in DOMAIN n.c}

Program(tokens) ==
  LET a == Sequence(Reading(tokens), {}, <<>>)
      blocks == SelectSeq(a.n, LAMBDA n : n.k = "Timeline")
      others == SelectSeq(a.n, LAMBDA n : n.k # "Timeline")
      root == Node("timeline", <<"global", "0", "", "">>, Lowered(others).c)
      all == (IF others = <<>> THEN <<>> ELSE <<root>>)
             \o [i \in DOMAIN blocks |-> TimelineOf(blocks[i])]
      zero == UsesZero(Node("program", <<>>, all))
      macros == Defined(FlattenSeq([i \in DOMAIN all |-> all[i].c]))
      whole == [i \in DOMAIN all |-> Resolved(all[i], a.s.zero)]
      expanded == [i \in DOMAIN all |-> [whole[i] EXCEPT !.c = Expanded(Stripped(@), macros, 0)]]
      tree == Node("program", <<>>, [i \in DOMAIN all |-> [expanded[i] EXCEPT !.c = @ \o Derived(@)]])
      err == CASE a.s.err # "" -> a.s.err
               [] a.s.err = "" /\ zero /\ a.s.zero = None -> "panic"
               [] a.s.err = "" /\ ~(zero /\ a.s.zero = None) /\ Failures(tree) # {} ->
                    CHOOSE f \in Failures(tree) : TRUE
               [] OTHER -> ""
  IN  [tree |-> IF err # "" THEN None ELSE tree, err |-> err]
=============================================================================
