------------------------------- MODULE Passes -------------------------------
(* The optimisation passes of causm-ir optimize/*.rs over code in SSA form. *)
(* A pass is an operator from a graph to what it makes of it; CfgSimplified *)
(* gives every outcome, the code going through its blocks in the order of a *)
(* HashMap.                                                                *)
EXTENDS Ssa, Machine

Ids(ssa) == DOMAIN ssa.blocks
InBlock(block) == Range(block.code)
Instructions(ssa) == UNION {InBlock(ssa.blocks[b]) : b \in Ids(ssa)}
Phis(ssa) == UNION {Range(ssa.blocks[b].phis) : b \in Ids(ssa)}
IncomingRegs(phi) == {phi.incoming[k].reg : k \in DOMAIN phi.incoming}

(* used_ssa_regs over phis, instructions and terminators                   *)
Used(ssa) == UNION {IncomingRegs(phi) : phi \in Phis(ssa)}
             \cup UNION {Reads(i) : i \in Instructions(ssa)}
             \cup UNION {Reads(ssa.blocks[b].term) : b \in Ids(ssa)}

(* defined_ssa_reg: of what a for writes only its condition counts         *)
Defines(i) == {i[f] : f \in {"dest", "dest_cond", "target_reg"} \cap DOMAIN i}

Consumes(i) ==
  CASE i.op \in {"consume", "chanSend"} -> {i.src}
    [] i.op = "for" -> {i.source}
    [] OTHER -> {}
Consumed(ssa) == UNION {Consumes(i) : i \in Instructions(ssa)}

Without(ssa, drop(_)) ==
  [ssa EXCEPT !.blocks = [b \in Ids(ssa) |->
     [ssa.blocks[b] EXCEPT !.code = SelectSeq(@, LAMBDA i : ~drop(i))]]]

-----------------------------------------------------------------------------
(* ConstantPropagationPass                                                 *)

(* what fold_binary_op folds, as a set of at most one value                *)
Folded(f, l, r) ==
  IF IsBool(l) # IsBool(r) THEN {}
  ELSE CASE f = "eq" -> {Bool(l = r)}
         [] f = "add" -> IF IsBool(l) THEN {} ELSE {l + r}
         [] f = "lt" -> IF IsBool(l) THEN {} ELSE {Bool(l < r)}

FoldedOp(i, known) ==
  CASE i.op = "load" -> {i.value}
    [] i.op = "move" -> {known[r] : r \in {i.src} \cap DOMAIN known}
    [] i.op = "binop" -> IF {i.left, i.right} \subseteq DOMAIN known
                         THEN Folded(i.f, known[i.left], known[i.right]) ELSE {}
    [] OTHER -> {}

(* a phi is a constant when every register that comes in is the same one   *)
FoldedPhi(phi, known) ==
  LET regs == IncomingRegs(phi)
      values == {known[r] : r \in regs \cap DOMAIN known}
  IN IF regs \subseteq DOMAIN known /\ Cardinality(values) = 1 THEN values ELSE {}

RECURSIVE Constants(_, _)
Constants(ssa, known) ==
  LET next == [r \in {i.dest : i \in {j \in Instructions(ssa) : "dest" \in DOMAIN j}} |->
                 UNION {FoldedOp(i, known) : i \in {j \in Instructions(ssa) : r \in Defines(j)}}]
              @@ [r \in {phi.dest : phi \in Phis(ssa)} |->
                    UNION {FoldedPhi(phi, known) : phi \in {q \in Phis(ssa) : q.dest = r}}]
      found == {r \in DOMAIN next : next[r] # {}}
      now == [r \in found |-> CHOOSE v \in next[r] : TRUE]
  IN IF now = known THEN known ELSE Constants(ssa, now)

(* A branch on a constant becomes a jump; the phis of the block it no      *)
(* longer goes to keep their entry for it.                                 *)
ConstantPropagation(ssa) ==
  LET known == Constants(ssa, <<>>)
      loaded(i) == IF i.op \in {"binop", "move"} /\ i.dest \in DOMAIN known
                   THEN [op |-> "load", dest |-> i.dest, value |-> known[i.dest]] ELSE i
      decided(t) == IF t.op = "branch" /\ t.cond \in DOMAIN known /\ IsBool(known[t.cond])
                    THEN [op |-> "jump", to |-> IF known[t.cond] = True THEN t.then ELSE t.else]
                    ELSE t
  IN [ssa EXCEPT !.blocks = [b \in Ids(ssa) |->
        [@[b] EXCEPT !.code = [k \in DOMAIN @ |-> loaded(@[k])], !.term = decided(@)]]]

-----------------------------------------------------------------------------
(* CopyPropagationPass: a register that is only a copy of another gives    *)
(* way to it, unless the other is consumed somewhere or the copy is needed *)
(* outside                                                                 *)

Copies(ssa, preserved) ==
  {i \in Instructions(ssa) : /\ i.op = "move"
                             /\ i.src \notin Consumed(ssa)
                             /\ i.dest[1] \notin preserved}

RECURSIVE Origin(_, _)
Origin(copies, r) ==
  LET from == {i.src : i \in {j \in copies : j.dest = r}}
  IN IF from = {} THEN r ELSE Origin(copies, CHOOSE s \in from : TRUE)

CopyPropagation(ssa, preserved) ==
  LET copies == Copies(ssa, preserved)
      origin(r) == Origin(copies, r)
      replaced(i) == [f \in DOMAIN i |-> IF f \in ReadFields \cup {"target_reg"} THEN origin(i[f]) ELSE i[f]]
      fed(phi) == [phi EXCEPT !.incoming =
                     [k \in DOMAIN @ |-> [pred |-> @[k].pred, reg |-> origin(@[k].reg)]]]
  IN [ssa EXCEPT !.blocks = [b \in Ids(ssa) |->
        [phis |-> [k \in DOMAIN @[b].phis |-> fed(@[b].phis[k])],
         code |-> [k \in DOMAIN @[b].code |-> replaced(@[b].code[k])],
         term |-> replaced(@[b].term)]]]

-----------------------------------------------------------------------------
(* CfgSimplificationPass                                                   *)

(* the edges the passes see: those of the terminators                      *)
Goes(ssa, b) == Range(Successors(ssa.blocks[b].term))
From(ssa, b) == {p \in Ids(ssa) : b \in Goes(ssa, p)}

(* get_preserved_blocks                                                    *)
Kept(ssa) == {1} \cup {ssa.at[i.fallback] : i \in {j \in Instructions(ssa) : j.op \in {"speculate", "endSpeculate"}}}

RECURSIVE Live(_, _)
Live(ssa, found) ==
  LET next == found \cup UNION {Goes(ssa, b) : b \in found \cap Ids(ssa)}
  IN IF next = found THEN found ELSE Live(ssa, next)

NoLongerFrom(block, gone) ==
  [block EXCEPT !.phis = [k \in DOMAIN @ |->
     [@[k] EXCEPT !.incoming = SelectSeq(@, LAMBDA e : e.pred \notin gone)]]]

EliminateUnreachable(ssa) ==
  LET live == Live(ssa, Kept(ssa))
      dead(b) == {p \in Ids(ssa) \ live : b \in Goes(ssa, p)}
  IN [ssa EXCEPT !.blocks = [b \in Ids(ssa) \cap live |-> NoLongerFrom(@[b], dead(b))]]

(* the block a branch never takes, as a set; a branch with one target has  *)
(* none                                                                    *)
NeverTaken(ssa, b) ==
  LET t == ssa.blocks[b].term
      is(v) == t.op = "branch" /\ t.then # t.else
               /\ [op |-> "load", dest |-> t.cond, value |-> v] \in Instructions(ssa)
  IN IF is(True) THEN {t.else} ELSE IF is(False) THEN {t.then} ELSE {}

FoldBranches(ssa) ==
  LET folds(t, b) == t.op = "branch" /\ (t.then = t.else \/ NeverTaken(ssa, b) # {})
      left(t, b) == CHOOSE to \in {t.then, t.else} : to \notin NeverTaken(ssa, b)
      dead(b) == {p \in Ids(ssa) : b \in NeverTaken(ssa, p)}
  IN [ssa EXCEPT !.blocks = [b \in Ids(ssa) |->
        [NoLongerFrom(@[b], dead(b)) EXCEPT !.term =
           IF folds(@, b) THEN [op |-> "jump", to |-> left(@, b)] ELSE @]]]

BypassedSharing(ssa) ==                                           \* mutant
  {b \in Ids(ssa) \ Kept(ssa) :
     /\ ssa.blocks[b].code = <<>> /\ ssa.blocks[b].phis = <<>>
     /\ ssa.blocks[b].term.op = "jump" /\ ssa.blocks[b].term.to # b
     /\ From(ssa, b) # {}}
Bypassed(ssa) ==
  {b \in Ids(ssa) \ Kept(ssa) :
     /\ ssa.blocks[b].code = <<>> /\ ssa.blocks[b].phis = <<>>
     /\ ssa.blocks[b].term.op = "jump" /\ ssa.blocks[b].term.to # b
     /\ From(ssa, b) # {}
     /\ From(ssa, b) \cap From(ssa, ssa.blocks[b].term.to) = {}}

(* the predecessors of b, one for every edge                               *)
Arrivals(ssa, b) ==
  LET from == Ascending(From(ssa, b))
      edges(p) == SelectSeq(Successors(ssa.blocks[p].term), LAMBDA to : to = b)
  IN FlattenSeq([k \in DOMAIN from |-> [e \in DOMAIN edges(from[k]) |-> from[k]]])

Bypass(ssa, b) ==
  LET to == ssa.blocks[b].term.to
      from == Arrivals(ssa, b)
      moved(i) == [f \in DOMAIN i |->
                     IF f \in {"to", "then", "else", "valid", "consumed"} /\ i[f] = b THEN to ELSE i[f]]
      fed(phi) == LET old == SelectSeq(phi.incoming, LAMBDA e : e.pred = b)
                  IN IF old = <<>> THEN phi
                     ELSE [phi EXCEPT !.incoming =
                             SelectSeq(@, LAMBDA e : e.pred # b)
                             \o [k \in DOMAIN from |-> [pred |-> from[k], reg |-> old[1].reg]]]
  IN [ssa EXCEPT !.blocks = [c \in Ids(ssa) \ {b} |->
        [@[c] EXCEPT !.term = moved(@),
                     !.phis = IF c = to THEN [k \in DOMAIN @ |-> fed(@[k])] ELSE @]]]

RECURSIVE CfgSimplified(_)
CfgSimplified(ssa) ==
  LET folded == FoldBranches(EliminateUnreachable(ssa))
  IN IF Bypassed(folded) # {}
     THEN UNION {CfgSimplified(Bypass(folded, b)) : b \in Bypassed(folded)}
     ELSE IF folded = ssa THEN {ssa} ELSE CfgSimplified(folded)

-----------------------------------------------------------------------------
(* EntropyOptimizationPass: what is known of a register's state holds for  *)
(* the whole graph                                                         *)

EntropyOptimization(ssa) ==
  LET valid == UNION {Defines(i) : i \in Instructions(ssa)}
      gone == Consumed(ssa)
      decided(t) ==
        IF t.op # "match" THEN t
        ELSE IF t.valid = t.consumed \/ t.target \in valid \ gone THEN [op |-> "jump", to |-> t.valid]
        ELSE IF t.target \in gone \ valid THEN [op |-> "jump", to |-> t.consumed]
        ELSE t
  IN [ssa EXCEPT !.blocks = [b \in Ids(ssa) |-> [@[b] EXCEPT !.term = decided(@)]]]

(* ChannelLivenessPass; used are the channels the program names elsewhere  *)
ChannelLiveness(ssa, used) ==
  LET here == {i.chan : i \in {j \in Instructions(ssa) : j.op = "chanSend"}}
  IN Without(ssa, LAMBDA i : i.op = "openChan" /\ i.chan \notin used \cup here)

(* LeaseOptimizationPass: a lease whose target nothing reads goes, its end *)
(* stays                                                                   *)
LeaseOptimization(ssa, preserved) ==
  LET used == preserved \cup {r[1] : r \in Used(ssa)}
  IN Without(ssa, LAMBDA i : \/ i.op = "lease" /\ (i.ms = 0 \/ i.target_reg[1] \notin used)
                             \/ i.op = "endLease" /\ i.ms = 0)

-----------------------------------------------------------------------------
(* BlockCoalescingPass; the order of the merges makes no difference        *)

HasLoop(block) == \E i \in InBlock(block) : i.op \in LoopOps

Merges(ssa) ==
  {e \in Ids(ssa) \X Ids(ssa) :
     /\ Successors(ssa.blocks[e[1]].term) = <<e[2]>>
     /\ From(ssa, e[2]) = {e[1]} /\ e[2] # 1
     /\ ~HasLoop(ssa.blocks[e[1]]) /\ ~HasLoop(ssa.blocks[e[2]])}

MergeLosingPhis(ssa, a, b) ==                                     \* mutant
  LET now(c) == IF c = a
                THEN [ssa.blocks[a] EXCEPT !.term = ssa.blocks[b].term, !.code = @ \o ssa.blocks[b].code]
                ELSE ssa.blocks[c]
      fed(phi) == [phi EXCEPT !.incoming = [k \in DOMAIN @ |->
                     [@[k] EXCEPT !.pred = IF @ = b THEN a ELSE @]]]
  IN [ssa EXCEPT !.blocks = [c \in Ids(ssa) \ {b} |->
        [now(c) EXCEPT !.phis = [k \in DOMAIN @ |-> fed(@[k])]]]]

Merge(ssa, a, b) ==
  LET from(phi) == SelectSeq(phi.incoming, LAMBDA e : e.pred = a)
      phis == SelectSeq(ssa.blocks[b].phis, LAMBDA phi : from(phi) # <<>>)
      moves == [k \in DOMAIN phis |-> [op |-> "move", dest |-> phis[k].dest, src |-> from(phis[k])[1].reg]]
      now(c) == IF c = a
                THEN [phis |-> ssa.blocks[a].phis, term |-> ssa.blocks[b].term,
                      code |-> ssa.blocks[a].code \o moves \o ssa.blocks[b].code]
                ELSE ssa.blocks[c]
      fed(phi) == [phi EXCEPT !.incoming = [k \in DOMAIN @ |->
                     [@[k] EXCEPT !.pred = IF @ = b THEN a ELSE @]]]
  IN [ssa EXCEPT !.blocks = [c \in Ids(ssa) \ {b} |->
        [now(c) EXCEPT !.phis = [k \in DOMAIN @ |-> fed(@[k])]]]]

RECURSIVE BlockCoalescing(_)
BlockCoalescing(ssa) ==
  IF Merges(ssa) = {} THEN ssa
  ELSE LET e == CHOOSE e \in Merges(ssa) : TRUE IN BlockCoalescing(Merge(ssa, e[1], e[2]))

-----------------------------------------------------------------------------
(* DeadCodeEliminationPass                                                 *)

Pure == {"load", "move", "binop", "condSelect"}

RECURSIVE DeadCodeElimination(_, _)
DeadCodeElimination(ssa, preserved) ==
  LET needed(r) == r \in Used(ssa) \/ r[1] \in preserved
      next == [Without(ssa, LAMBDA i : i.op \in Pure /\ ~needed(i.dest)) EXCEPT !.blocks =
                 [b \in Ids(ssa) |-> [@[b] EXCEPT !.phis = SelectSeq(@, LAMBDA phi : needed(phi.dest))]]]
  IN IF next = ssa THEN ssa ELSE DeadCodeElimination(next, preserved)
=============================================================================
