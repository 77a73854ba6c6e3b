-------------------------------- MODULE Cfg ---------------------------------
(* The control-flow graph of flat code (causm-ir cfg.rs) and its way back   *)
(* to flat code (flatten_cfg).  Blocks and program counters count from 1.  *)
EXTENDS Integers, SequencesExt, FiniteSetsExt

LoopOps == {"for", "endFor", "while", "endWhile", "loop", "endLoop"}
EndsBlock == {"jump", "jumpIf", "jumpIfNot", "return", "match", "speculate", "endSpeculate"}

(* a set of numbers in order                                               *)
Ascending(s) == [k \in 1..Cardinality(s) |-> CHOOSE n \in s : Cardinality({m \in s : m < n}) = k - 1]

(* where an instruction may send the program counter                       *)
Targets(i) ==
  CASE i.op \in {"jump", "jumpIf", "jumpIfNot"} -> {i.to}
    [] i.op = "match" -> {i.valid, i.consumed}
    [] i.op \in {"speculate", "endSpeculate"} -> {i.fallback}
    [] OTHER -> {}

Leaders(code) ==
  LET pcs == DOMAIN code
  IN {1} \cup UNION {Targets(code[pc]) : pc \in pcs}
         \cup {pc + 1 : pc \in {q \in pcs : code[q].op \in EndsBlock}}
         \cup {pc \in pcs : code[pc].op \in LoopOps}

(* find_block_id                                                           *)
BlockAt(leaders, pc) == Cardinality({l \in leaders : l <= pc})

(* The block from first up to next.  One that does not end in a terminator *)
(* runs into the block after it, and at the end of the code it returns.    *)
Block(leaders, code, b, first, next) ==
  LET at(pc) == BlockAt(leaders, pc)
      body == SubSeq(code, first, next - 1)
      i == code[next - 1]
      ends(term) == [code |-> Front(body), term |-> term]
  IN IF first > Len(code) THEN [code |-> <<>>, term |-> [op |-> "return"]]
     ELSE CASE i.op = "jump" -> ends([op |-> "jump", to |-> at(i.to)])
            [] i.op = "jumpIf" ->
                 ends([op |-> "branch", cond |-> i.cond, then |-> at(i.to), else |-> b + 1])
            [] i.op = "jumpIfNot" ->
                 ends([op |-> "branch", cond |-> i.cond, then |-> b + 1, else |-> at(i.to)])
            [] i.op = "return" -> ends(i)
            [] i.op = "match" ->
                 ends([i EXCEPT !.valid = at(i.valid), !.consumed = at(i.consumed)])
            [] OTHER -> [code |-> body, term |-> IF next <= Len(code) THEN [op |-> "jump", to |-> b + 1]
                                                 ELSE [op |-> "return"]]

(* at: original_pc_to_block_id, which takes the end of the code for its    *)
(* last instruction                                                        *)
FromFlat(code) ==
  LET leaders == Leaders(code)
      starts == Ascending(leaders)
      next(b) == IF b < Len(starts) THEN starts[b + 1] ELSE Len(code) + 1
  IN [blocks |-> [b \in DOMAIN starts |-> Block(leaders, code, b, starts[b], next(b))],
      at |-> [pc \in 1..Len(code) + 1 |-> BlockAt(leaders, IF pc > Len(code) THEN Len(code) ELSE pc)]]

(* the targets of a terminator, one for every edge                         *)
Successors(term) ==
  CASE term.op = "jump" -> <<term.to>>
    [] term.op = "branch" -> <<term.then, term.else>>
    [] term.op = "match" -> <<term.valid, term.consumed>>
    [] term.op = "return" -> <<>>

(* the blocks a block's speculate instructions name and its terminator      *)
(* does not                                                                *)
Named(cfg, block) ==
  {cfg.at[i.fallback] : i \in {j \in Range(block.code) : j.op \in {"speculate", "endSpeculate"}}}
    \ Range(Successors(block.term))

(* The edges the SSA transformer follows, <<from, n, to>>: one for every    *)
(* target of the terminator, number n, and one (0) for every block that is  *)
(* only named.                                                             *)
Edges(cfg) ==
  UNION {LET block == cfg.blocks[b]
         IN {<<b, n, Successors(block.term)[n]>> : n \in DOMAIN Successors(block.term)}
            \cup {<<b, 0, to>> : to \in Named(cfg, block)} : b \in DOMAIN cfg.blocks}

-----------------------------------------------------------------------------
(* flatten_cfg                                                             *)

FlatTerm(term) ==
  CASE term.op = "branch" ->
         <<[op |-> "jumpIf", cond |-> term.cond, to |-> term.then],
           [op |-> "jump", to |-> term.else]>>
    [] OTHER -> <<term>>

(* every block a branch or an instruction names has to be there, or the    *)
(* lookup of its offset panics                                             *)
Flattens(cfg) ==
  \A b \in DOMAIN cfg.blocks :
    /\ Range(Successors(cfg.blocks[b].term)) \subseteq DOMAIN cfg.blocks
    /\ \A i \in Range(cfg.blocks[b].code) :
         i.op \in {"speculate", "endSpeculate"} => cfg.at[i.fallback] \in DOMAIN cfg.blocks

Flatten(cfg) ==
  LET ids == Ascending(DOMAIN cfg.blocks)
      size(b) == Len(cfg.blocks[b].code) + Len(FlatTerm(cfg.blocks[b].term))
      offset == [b \in DOMAIN cfg.blocks |->
                   1 + MapThenSumSet(size, {c \in DOMAIN cfg.blocks : c < b})]
      fixed(i) == CASE i.op \in {"speculate", "endSpeculate"} ->
                         [i EXCEPT !.fallback = offset[cfg.at[@]]]
                    [] OTHER -> i
      fixedTerm(i) == CASE i.op \in {"jump", "jumpIf"} -> [i EXCEPT !.to = offset[@]]
                        [] i.op = "match" -> [i EXCEPT !.valid = offset[@], !.consumed = offset[@]]
                        [] OTHER -> i
      flat(b) == [k \in DOMAIN cfg.blocks[b].code |-> fixed(cfg.blocks[b].code[k])]
                 \o [k \in DOMAIN FlatTerm(cfg.blocks[b].term) |->
                       fixedTerm(FlatTerm(cfg.blocks[b].term)[k])]
  IN FlattenSeq([n \in DOMAIN ids |-> flat(ids[n])])
=============================================================================
