------------------------------- MODULE Tokens -------------------------------
(* What the parser reads and builds: tokens, as the lexer leaves them, and  *)
(* nodes of the syntax tree.  A node has a kind, the names and literals it  *)
(* holds, the nodes below it, and, if it is a statement, its attributes;    *)
(* what the tree leaves out is "" or None.                                  *)
EXTENDS Naturals, Sequences, SequencesExt, FiniteSetsExt, TLC

Node(k, v, c) == [k |-> k, v |-> v, c |-> c, at |-> <<>>]
Leaf(k, x) == Node(k, <<x>>, <<>>)
None == Node("none", <<>>, <<>>)
Null == Node("Null", <<>>, <<>>)
Type(tokens) == Node("type", tokens, <<>>)
Block(nodes) == Node("block", <<>>, nodes)

Quantities == 0..5 \cup {1000, 1024}
Numerals == {ToString(n) : n \in Quantities}
Durations == {n \o "ms" : n \in Numerals}
Value(n) == CHOOSE i \in Quantities : ToString(i) = n

(* String literals, and those that hold an argument of a macro              *)
Arguable == {<<>>, <<"x">>, <<"y">>, <<"1">>, <<"x", "+", "1">>, <<"x", "f">>}
RECURSIVE Spelled(_)
Spelled(tokens) ==
  IF tokens = <<>> THEN "" ELSE IF Len(tokens) = 1 THEN tokens[1]
  ELSE tokens[1] \o " " \o Spelled(Tail(tokens))
Quoted(tokens) == "'" \o Spelled(tokens) \o "'"
Unquoted(text) == CHOOSE tokens \in Arguable : Quoted(tokens) = text
Texts == {"'t'", "'m'", "'C'"} \cup {Quoted(tokens) : tokens \in Arguable}
Forever == "max"                      \* u64::MAX, written `_`

Ms(n) == n \o "ms"
Amount(t) == IF t \in Durations THEN CHOOSE n \in Numerals : Ms(n) = t ELSE t

Keywords ==
  {"let", "mut", "pub", "yield", "return", "if", "else", "match", "loop", "while", "break",
   "continue", "routine", "taking", "actor", "require", "on", "send", "to", "isolate", "enable",
   "lease", "for", "in", "step", "import", "from", "as", "type", "struct", "enum", "interface",
   "using", "reconcile", "speculate", "commit", "fallback", "collapse", "anchor", "rewind_to",
   "entangle", "assert_time", "print", "tick", "max", "foreign", "macro", "slice", "state",
   "policy", "select", "case", "timeout", "Valid", "Decayed", "Pending", "Consumed", "defer",
   "chan_recv", "syscall", "arena", "distinct", "split", "merge", "into", "auto", "debug",
   "on_decay", "where", "true", "false", "null"}

Compounds == {"+=", "-=", "*=", "/=", "%=", "<<=", ">>=", "&=", "|=", "^="}

(* What an expression does not go on with on the next line is told apart    *)
(* when it begins one; no other end of a line matters                       *)
LineStarts == {"\n(", "\n[", "\n{"}
Plain(t) == CASE t = "\n(" -> "(" [] t = "\n[" -> "[" [] t = "\n{" -> "{" [] OTHER -> t
Starting(t) == CASE t = "(" -> "\n(" [] t = "[" -> "\n[" [] t = "{" -> "\n{" [] OTHER -> t
Signs ==
  LineStarts \cup {"(", ")", "[", "]", "{", "}", ",", ";", ":", "::", ".", "..", "..=", "=", "=>", "->", "@",
   "+", "-", "*", "/", "%", "**", "<<", ">>", "<", "<=", ">", ">=", "==", "!=", "&", "^", "|",
   "&&", "||", "??", "|>", "!", "~", "?", "$"} \cup Compounds

States == {"Valid", "Decayed", "Pending", "Consumed"}
IsName(t) == t \notin Keywords \cup Signs \cup Numerals \cup Durations \cup Texts \cup {"eof"}
IsCount(t) == t \in Numerals \cup Durations

(* Keywords that may also be names, after `let` and `lease`                 *)
AsName(t) == IsName(t) \/ t \in States \cup {"state", "policy", "select", "tick", "max", "auto",
                                             "debug", "slice", "print", "step"}

-----------------------------------------------------------------------------
(* The parser: the tokens left, whether `{` may open a struct literal, the  *)
(* attributes no statement has taken yet, the first expression of the file, *)
(* what it has put into its pools of expressions, fields, arms and          *)
(* statements, and how it failed, if it did.  A node with a list below it   *)
(* names a range of a pool; Since is what such a range holds, from where    *)
(* the pool ended before to where it ends after.                            *)

Reading(tokens) ==
  [t |-> tokens, bare |-> FALSE, attrs |-> <<>>, zero |-> None, pool |-> <<>>, err |-> ""]
Got(n, s) == [n |-> n, s |-> s]

Peek(s) == IF s.t = <<>> THEN "eof" ELSE Plain(s.t[1])
Peek2(s) == IF Len(s.t) < 2 THEN "eof" ELSE Plain(s.t[2])
Fresh(s) == s.t # <<>> /\ s.t[1] \in LineStarts
Bump(s) == IF s.t = <<>> THEN s ELSE [s EXCEPT !.t = Tail(@)]
Opt(s, t) == IF Peek(s) = t THEN Bump(s) ELSE s
OptIn(s, T) == IF Peek(s) \in T THEN Bump(s) ELSE s

PushedAll(s, p, nodes) ==
  [s EXCEPT !.pool = @ \o [i \in DOMAIN nodes |-> [in |-> p, n |-> nodes[i]]]]
Pushed(s, p, n) == PushedAll(s, p, <<n>>)
Since(before, after, p) ==
  LET new == SelectSeq(SubSeq(after.pool, Len(before.pool) + 1, Len(after.pool)),
                       LAMBDA x : x.in = p)
  IN  [i \in DOMAIN new |-> new[i].n]

(* An error ends the parse; a parser that no longer moves ends it as well,  *)
(* but never reports it                                                     *)
Failed(s, why) == [s EXCEPT !.t = <<>>, !.err = IF @ = "" THEN why ELSE @]
Stop(s) == Got(None, Failed(s, "error"))

(* A HashMap: the last entry of each key, shown in alphabetical order       *)
Alphabet == <<"_", "a", "b", "c", "cpu", "f", "g", "k", "m", "on_invalid", "value", "x", "y", "z">>
AsMap(entries) ==
  LET Of(key) == {i \in DOMAIN entries : entries[i].v[1] = key}
      keys == SelectSeq(Alphabet, LAMBDA key : Of(key) # {})
  IN  [i \in DOMAIN keys |-> entries[Max(Of(keys[i]))]]

(* The names up to a closing token; anything else is skipped                *)
RECURSIVE Names(_, _, _)
Names(s, close, seen) ==
  IF Peek(s) \in {close, "eof"} THEN Got(seen, Opt(s, close))
  ELSE Names(Opt(Bump(s), ","), close, IF IsName(Peek(s)) THEN Append(seen, Peek(s)) ELSE seen)

RECURSIVE SkipTo(_, _)
SkipTo(s, T) == IF Peek(s) \in T \cup {"eof"} THEN s ELSE SkipTo(Bump(s), T)
=============================================================================
