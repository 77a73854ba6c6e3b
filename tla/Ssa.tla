-------------------------------- MODULE Ssa ---------------------------------
(* Static single assignment: ssa/transformer.rs and destruct_ssa.  An SSA   *)
(* register is a register and the place of its definition, <<block, index>> *)
(* with index 0 for a phi, and <<0, 0>> for a value from before the code.   *)
EXTENDS Cfg

ReadFields == {"left", "right", "cond", "yes", "no", "src", "source", "source_reg", "target"}
WrittenFields == {"dest", "dest_cond", "item_reg", "target_reg"}

Reads(i) == {i[f] : f \in ReadFields \cap DOMAIN i}
Writes(i) == {i[f] : f \in WrittenFields \cap DOMAIN i}

Before == <<0, 0>>

(* what is reached from found without passing through the blocks in shut   *)
RECURSIVE ReachedFrom(_, _, _)
ReachedFrom(edges, shut, found) ==
  LET next == found \cup {e[3] : e \in {d \in edges : d[1] \in found /\ d[3] \notin shut}}
  IN IF next = found THEN found ELSE ReachedFrom(edges, shut, next)

(* transform keeps the blocks the entry reaches                            *)
Reachable(cfg) == [cfg EXCEPT !.blocks = Restrict(@, ReachedFrom(Edges(cfg), {}, {1}))]

(* the edges into b                                                        *)
Incoming(edges, b) == {e \in edges : e[3] = b}

-----------------------------------------------------------------------------
(* Dominators: <<a, b>> when a is on every way from the entry to b, which  *)
(* is what compute_dominators arrives at                                   *)

Dominators(ids, edges) ==
  UNION {{a} \X (IF a = 1 THEN ids ELSE ids \ ReachedFrom(edges, {a}, {1})) : a \in ids}

Above(dom, b) == {d[1] : d \in {e \in dom : e[2] = b}}

(* the closest of some blocks that dominate each other                     *)
Nearest(dom, as) == CHOOSE a \in as : \A c \in as : <<c, a>> \in dom

(* the entry is its own immediate dominator                                *)
ImmediateDominator(dom, b) == IF b = 1 THEN 1 ELSE Nearest(dom, Above(dom, b) \ {b})

(* The dominance frontiers, <<a, b>> for b in that of a: the walk from each *)
(* predecessor up to the immediate dominator.  A block with one edge into   *)
(* it has no part in it.                                                   *)
Frontiers(ids, edges, dom) ==
  UNION {LET walked == UNION {Above(dom, e[1]) : e \in Incoming(edges, b)}
                         \ Above(dom, ImmediateDominator(dom, b))
         IN walked \X {b} : b \in {c \in ids : Cardinality(Incoming(edges, c)) >= 2}}

-----------------------------------------------------------------------------
(* Phi insertion and renaming                                              *)

Definitions(cfg) ==
  UNION {{b} \X UNION {Writes(i) : i \in Range(cfg.blocks[b].code)} : b \in DOMAIN cfg.blocks}

RECURSIVE PhiBlocks(_, _, _)
PhiBlocks(frontiers, work, found) ==
  LET next == {e[2] : e \in {d \in frontiers : d[1] \in work}} \ found
  IN IF next = {} THEN found ELSE PhiBlocks(frontiers, next, found \cup next)

(* the last definition of r in the first k instructions of block b, or the *)
(* one that holds at its start                                             *)
LastDefined(block, b, k, r, atStart) ==
  LET defs == {j \in 1..k : r \in Writes(block.code[j])}
  IN IF defs = {} THEN atStart ELSE <<b, Max(defs)>>

NewReads(i, now) ==
  [f \in DOMAIN i |-> IF f \in ReadFields THEN <<i[f], now[i[f]]>> ELSE i[f]]

RenameInstruction(i, now, def) ==
  [f \in DOMAIN i |-> IF f \in WrittenFields THEN <<i[f], def>> ELSE NewReads(i, now)[f]]

(* the order in which rename visits the blocks: the dominator tree, the    *)
(* children of a block in ascending order                                  *)
RECURSIVE Visits(_, _)
Visits(dom, b) ==
  LET children == Ascending({e[2] : e \in {d \in dom : /\ d[1] = b /\ d[2] # b
                                                      /\ ImmediateDominator(dom, d[2]) = b}})
  IN <<b>> \o FlattenSeq([n \in DOMAIN children |-> Visits(dom, children[n])])

(* phis: for each block its phi nodes in the order of their registers; the *)
(* order the code has them in is that of a HashMap                         *)
Transform(graph) ==
  LET cfg == Reachable(graph)
      ids == DOMAIN cfg.blocks
      edges == Edges(cfg)
      dom == Dominators(ids, edges)
      frontiers == Frontiers(ids, edges, dom)
      definitions == Definitions(cfg)
      merged == UNION {PhiBlocks(frontiers, {d[1] : d \in {e \in definitions : e[2] = r}}, {}) \X {r} :
                         r \in {d[2] : d \in definitions}}
      order == Visits(dom, 1)
      end(b, r, atStart) == LastDefined(cfg.blocks[b], b, Len(cfg.blocks[b].code), r, atStart)
      (* the definition of r at the start of b: a phi of b, or the last one *)
      (* in the nearest block above b that has one                          *)
      above(b, r) == {a \in Above(dom, b) \ {b} : <<a, r>> \in definitions \cup merged}
      start(b, r) == IF <<b, r>> \in merged THEN <<b, 0>>
                     ELSE IF above(b, r) = {} THEN Before
                     ELSE LET a == Nearest(dom, above(b, r)) IN end(a, r, <<a, 0>>)
      now(b, k, r) == LastDefined(cfg.blocks[b], b, k, r, start(b, r))
      incoming(b, r) ==
        FlattenSeq([n \in DOMAIN order |->
          LET p == order[n]
          IN [k \in 1..Cardinality({e \in Incoming(edges, b) : e[1] = p}) |->
                [pred |-> p, reg |-> <<r, end(p, r, start(p, r))>>]]])
      phis(b) == LET rs == Ascending({m[2] : m \in {n \in merged : n[1] = b}})
                 IN [k \in DOMAIN rs |-> [dest |-> <<rs[k], <<b, 0>>>>,
                                          incoming |-> incoming(b, rs[k])]]
  IN [at |-> cfg.at,
      blocks |-> [b \in ids |->
        LET block == cfg.blocks[b]
        IN [phis |-> phis(b),
            code |-> [k \in DOMAIN block.code |->
                        RenameInstruction(block.code[k],
                          [r \in Reads(block.code[k]) |-> now(b, k - 1, r)], <<b, k>>)],
            term |-> NewReads(block.term, [r \in Reads(block.term) |-> now(b, Len(block.code), r)])]]]

-----------------------------------------------------------------------------
(* destruct_ssa: registers lose their definitions, and each phi whose      *)
(* incoming register is another one becomes a move at the end of the block *)
(* it comes from.  The moves come in the order of a HashMap.               *)

Stripped(i) ==
  [f \in DOMAIN i |-> IF f \in ReadFields \cup WrittenFields THEN i[f][1] ELSE i[f]]

(* the moves into phis from p, in the order the phis come                  *)
MovesFrom(phis, p) ==
  FlattenSeq([n \in DOMAIN phis |->
    LET from == SelectSeq(phis[n].incoming, LAMBDA e : e.pred = p /\ e.reg[1] # phis[n].dest[1])
    IN [k \in DOMAIN from |-> [op |-> "move", dest |-> phis[n].dest[1], src |-> from[k].reg[1]]]])

Destruct(ssa, phis) ==
  [at |-> ssa.at,
   blocks |-> [b \in DOMAIN ssa.blocks |->
     [code |-> [k \in DOMAIN ssa.blocks[b].code |-> Stripped(ssa.blocks[b].code[k])] \o MovesFrom(phis, b),
      term |-> Stripped(ssa.blocks[b].term)]]]

(* The orders in which the phis that have moves to make may come: block by *)
(* block, the blocks in any order.                                         *)
PhiOrders(ssa) ==
  LET moving(phi) == \E n \in DOMAIN phi.incoming : phi.incoming[n].reg[1] # phi.dest[1]
      moved(b) == {phi \in Range(ssa.blocks[b].phis) : moving(phi)}
      blocks == {b \in DOMAIN ssa.blocks : moved(b) # {}}
      choices == FoldSet(LAMBDA b, fs : {(b :> order) @@ f : order \in SetToSeqs(moved(b)), f \in fs},
                         {<<>>}, blocks)
  IN {FlattenSeq([n \in DOMAIN order |-> f[order[n]]]) : order \in SetToSeqs(blocks), f \in choices}
=============================================================================
