----------------------------- MODULE Optimiser ------------------------------
(* optimize_program (causm-ir optimize/mod.rs) on the code of one block:    *)
(* the graph, its SSA form, the rounds of passes, and flat code again.      *)
EXTENDS Passes

CONSTANTS Programs,   \* flat code to optimise
          Inputs,     \* what the registers may hold before the code runs
          Symbols,    \* the registers of ir.symbols, which keep their value
          MaxRounds,  \* the limit of PassManager::run
          Fuel        \* instructions a run may take

VARIABLES code,       \* the program that is optimised
          preserved,  \* global_preserved_regs
          stage, round,
          changed,    \* whether a pass of the round changed the graph
          ssa,
          flat        \* the code that comes out

vars == <<code, preserved, stage, round, changed, ssa, flat>>

None == <<>>

-----------------------------------------------------------------------------
(* Registers read before they are defined, in the order the scan meets the *)
(* blocks.  That is the order of a HashMap; two of its orders are tried,   *)
(* ascending and descending.                                               *)

Step(defines, reads) == [defines |-> {r[1] : r \in defines}, reads |-> {r[1] : r \in reads}]

Scan(block) ==
  [k \in DOMAIN block.phis |-> Step({block.phis[k].dest}, IncomingRegs(block.phis[k]))]
  \o [k \in DOMAIN block.code |-> Step(Defines(block.code[k]), Reads(block.code[k]))]
  \o <<Step({}, Reads(block.term))>>

ReadFirst(s, order) ==
  LET steps == FlattenSeq([n \in DOMAIN order |-> Scan(s.blocks[order[n]])])
      defined(n) == UNION {steps[k].defines : k \in 1..n}
  IN UNION {steps[n].reads \ defined(n) : n \in DOMAIN steps}

Orders(s) == {Ascending(Ids(s)), Reverse(Ascending(Ids(s)))}

-----------------------------------------------------------------------------
Init ==
  /\ code \in Programs
  /\ stage = "lowered" /\ round = 0
  /\ preserved = {} /\ changed = FALSE /\ ssa = None /\ flat = None

(* from_flat_instructions and transform                                    *)
Build ==
  /\ stage = "lowered"
  /\ ssa' = Transform(FromFlat(code))
  /\ stage' = "built"
  /\ UNCHANGED <<code, preserved, round, changed, flat>>

ScanReads ==
  /\ stage = "built"
  /\ \E order \in Orders(ssa) : preserved' = Symbols \cup ReadFirst(ssa, order)
  /\ stage' = "constants" /\ round' = 1
  /\ UNCHANGED <<code, ssa, changed, flat>>

(* a pass returns TRUE when it has changed something                       *)
Pass(from, to, outcomes) ==
  /\ stage = from
  /\ ssa' \in outcomes
  /\ changed' = (changed \/ ssa' # ssa)
  /\ stage' = to
  /\ UNCHANGED <<code, preserved, round, flat>>

(* ConcurrencyAnalysisPass and VerifierPass only report                    *)
PropagateConstants == Pass("constants", "copies", {ConstantPropagation(ssa)})
PropagateCopies == Pass("copies", "graph", {CopyPropagation(ssa, preserved)})
SimplifyGraph == Pass("graph", "entropy", CfgSimplified(ssa))
FoldEntropy == Pass("entropy", "channels", {EntropyOptimization(ssa)})
DropChannels ==
  Pass("channels", "leases",
       {ChannelLiveness(ssa, {i.chan : i \in {j \in Range(code) : j.op = "chanSend"}})})
DropLeases == Pass("leases", "blocks", {LeaseOptimization(ssa, preserved)})
CoalesceBlocks == Pass("blocks", "dead", {BlockCoalescing(ssa)})
EliminateDeadCode == Pass("dead", "round", {DeadCodeElimination(ssa, preserved)})

NextRoundStale ==                                                 \* mutant
  /\ stage = "round" /\ changed /\ round < MaxRounds
  /\ stage' = "constants" /\ round' = round + 1
  /\ UNCHANGED <<code, preserved, changed, ssa, flat>>

NextRound ==
  /\ stage = "round" /\ changed /\ round < MaxRounds
  /\ stage' = "constants" /\ round' = round + 1 /\ changed' = FALSE
  /\ UNCHANGED <<code, preserved, ssa, flat>>

(* destruct_ssa and flatten_cfg                                            *)
Emit ==
  /\ stage = "round" /\ (~changed \/ round = MaxRounds)
  /\ IF Flattens(ssa)
     THEN (\E phis \in PhiOrders(ssa) : flat' = Flatten(Destruct(ssa, phis))) /\ stage' = "done"
     ELSE stage' = "panic" /\ UNCHANGED flat
  /\ UNCHANGED <<code, preserved, round, changed, ssa>>

Next == \/ Build \/ ScanReads \/ PropagateConstants \/ PropagateCopies \/ SimplifyGraph \/ FoldEntropy
        \/ DropChannels \/ DropLeases \/ CoalesceBlocks \/ EliminateDeadCode
        \/ NextRound \/ Emit

Spec == Init /\ [][Next]_vars

-----------------------------------------------------------------------------
(* Properties                                                              *)

Registers == UNION {Reads(i) \cup Writes(i) : i \in Range(code)}

(* what a run shows: what it printed and sent, and, when it came to an     *)
(* end, what the registers with a name hold                                *)
Shown(instructions, inputs) ==
  LET m == Run(instructions, Start(inputs, Registers \cup Symbols, Fuel))
  IN [out |-> m.out, status |-> m.status,
      kept |-> IF m.status = "ended" THEN [r \in Symbols |-> m.regs[r]] ELSE None]

(* The code that comes out does what the code that went in does: for every *)
(* input on which that runs without a fault (which the analysis before the *)
(* optimiser sees to) it prints and sends the same, and leaves the same     *)
(* values to the blocks that come after.                                   *)
SameBehaviour ==
  stage = "done" =>
    \A inputs \in Inputs :
      LET shown == Shown(code, inputs)
      IN shown.status # "fault" => Shown(flat, inputs) = shown

Sites(s, r) ==
  {p \in UNION {{b} \X (0..Len(s.blocks[b].code)) : b \in Ids(s)} :
     IF p[2] = 0 THEN \E k \in DOMAIN s.blocks[p[1]].phis : s.blocks[p[1]].phis[k].dest = r
     ELSE r \in Writes(s.blocks[p[1]].code[p[2]])}

(* what is read, and what the phis that are read are made of               *)
RECURSIVE Needed(_, _)
Needed(s, regs) ==
  LET next == regs \cup UNION {IncomingRegs(phi) : phi \in {q \in Phis(s) : q.dest \in regs}}
  IN IF next = regs THEN regs ELSE Needed(s, next)

(* Every register that is read has one definition, and it is on every way to *)
(* each place that reads it; a phi that matters reads at the end of the     *)
(* block the value comes from                                               *)
Defined ==
  stage \in {"built", "round"} =>
    LET edges == Edges(ssa)
        reached == ReachedFrom(edges, {}, {1})
        dom == Dominators(reached, edges)
        read(b) == UNION {Reads(i) : i \in InBlock(ssa.blocks[b])} \cup Reads(ssa.blocks[b].term)
        needed == Needed(ssa, UNION {read(b) : b \in reached})
        defined(r, b, k) ==
          r[2] = Before
            \/ /\ Cardinality(Sites(ssa, r)) = 1
               /\ \A d \in Sites(ssa, r) : IF d[1] = b THEN d[2] < k ELSE <<d[1], b>> \in dom
    IN \A b \in reached :
         LET block == ssa.blocks[b]
             end == Len(block.code) + 1
         IN /\ \A k \in DOMAIN block.code : \A r \in Reads(block.code[k]) : defined(r, b, k)
            /\ \A r \in Reads(block.term) : defined(r, b, end)
            /\ \A phi \in {q \in Range(block.phis) : q.dest \in needed} :
                 \A m \in DOMAIN phi.incoming :
                   LET p == phi.incoming[m].pred
                   IN p \in reached
                        => defined(phi.incoming[m].reg, p, Len(ssa.blocks[p].code) + 1)

(* In the SSA form, and again after every round of passes, every register  *)
(* is defined where it is read, and every block that is named is still     *)
(* there when the blocks are laid out: the lookup of its offset does not   *)
(* panic.                                                                  *)
WellFormed == Defined /\ stage # "panic"

(* The passes come to rest by themselves: the limit on the rounds is never *)
(* what ends them.                                                         *)
PassesSettle == stage \in {"done", "panic"} => ~changed
=============================================================================
