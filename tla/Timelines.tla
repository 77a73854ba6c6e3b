------------------------------ MODULE Timelines ------------------------------
(* The TVM's timelines: split, merge, relativistic blocks, entanglement,   *)
(* leases, anchors and rewind, over registers with an entropic state.      *)
(* Every action is one instruction handler, run to its end; Main hands     *)
(* control to another timeline for the length of a relativistic block.     *)
(* A value is a topology of one field.  Registers written with a literal,  *)
(* a result or a copy hold a new value; clocks, budgets, arena sizes and   *)
(* decay by time are left out.                                             *)
EXTENDS Integers, FiniteSets, SequencesExt

CONSTANTS Main, Others,   \* "main" and the names timelines are split into
          Regs, AnchorNames,
          Resolutions,    \* the reconcile clauses: register -> rule
          MaxValues, MaxBlocks, MaxSteps     \* bounds

Names == {Main} \cup Others

(* the rules of a reconcile clause, where no union is inside another       *)
PlainRules == [kind : {"FirstWins", "Decay", "Auto"}] \cup [kind : {"Priority"}, winner : Names]
UnionRules == [kind : {"TopologyUnion"}, default : PlainRules,
               on_invalid : {<<>>} \cup (Names \X AnchorNames)]

ASSUME TimelinesAssumption ==
  /\ Main \notin Others
  /\ {MaxValues, MaxBlocks, MaxSteps} \subseteq Nat
  /\ Resolutions \subseteq [Regs -> PlainRules \cup UnionRules]

VARIABLES timeline,       \* active timeline -> [regs, anchors]
          entanglements,  \* a sequence of sets of slots
          running, block, \* who runs, in which relativistic block
          fault,          \* the error the run ended with
          values,         \* history: values made
          bonds,          \* history: the values entangled before any split
          spent,          \* history: those with one consumed, or its field
          lent,           \* history: values that were leased
          revived,        \* history: spent values a snapshot brought back
          reads,          \* history: fields of bonded values that were read
          steps           \* history: handlers run

vars == <<timeline, entanglements, running, block, fault,
          values, bonds, spent, lent, revived, reads, steps>>

Slots == Names \X Regs
Active == DOMAIN timeline
Reg(b, r) == timeline[b].regs[r]

Consumed == [st |-> "Consumed", val |-> 0]
Decayed == [st |-> "Decayed", val |-> 0]           \* its field is consumed
Valid(v) == [st |-> "Valid", val |-> v]
Leased(state) == [st |-> IF state.st = "Valid" THEN "LeasedValid" ELSE "LeasedDecayed",
                  val |-> state.val]
IsLeased(state) == state.st \in {"LeasedValid", "LeasedDecayed"}
Original(state) == IF state.st = "LeasedValid" THEN Valid(state.val) ELSE Decayed

Init ==
  /\ timeline = [b \in {Main} |-> [regs |-> [r \in Regs |-> Consumed], anchors |-> <<>>]]
  /\ entanglements = <<>>
  /\ running = Main /\ block = 0 /\ fault = "none"
  /\ values = 0 /\ bonds = {} /\ spent = {} /\ lent = {} /\ revived = {} /\ reads = {}
  /\ steps = 0

Control == <<running, block, fault>>
Fates == <<bonds, spent, lent, revived, reads>>
Bonded == UNION bonds

Fails(error) == /\ fault' = error
                /\ UNCHANGED <<timeline, entanglements, running, block, values, Fates>>

-----------------------------------------------------------------------------
(* Registers: insert, consume, consume_field, field access                 *)

(* insert does not look at what it overwrites                              *)
Load(b, r) ==
  /\ values < MaxValues /\ values' = values + 1
  /\ timeline' = [timeline EXCEPT ![b].regs[r] = Valid(values')]
  /\ UNCHANGED <<entanglements, Control, Fates>>

(* everything linked to a slot by a chain of entanglement sets             *)
Reached(slot) ==
  LET Closed(S) == \A g \in ToSet(entanglements) : g \cap S # {} => g \subseteq S
  IN {q \in Slots : \A S \in SUBSET Slots : (slot \in S /\ Closed(S)) => q \in S}

(* the arena refuses to consume what is leased, decayed or gone, and the   *)
(* caller drops the error                                                  *)
Takable(b, r) == Reg(b, r).st = "Valid"

Taken(slots, left) ==
  [b \in Active |->
     [timeline[b] EXCEPT !.regs = [r \in Regs |->
        IF <<b, r>> \in slots /\ Takable(b, r) THEN left ELSE Reg(b, r)]]]

Held(slots) == {Reg(s[1], s[2]).val : s \in {q \in slots : q[1] \in Active /\ Takable(q[1], q[2])}}

(* history: the bonds of a value end when it is leased, for the view is in *)
(* none of its sets                                                        *)
Followed(slots) == Held(slots) \ lent

ConsumeAs(b, r, left) ==
  /\ timeline' = Taken(Reached(<<b, r>>), left)
  /\ spent' = spent \cup UNION {B \in bonds : B \cap Followed({<<b, r>>}) # {}}
  /\ UNCHANGED <<entanglements, Control, values, bonds, lent, revived, reads>>

Consume(b, r) == ConsumeAs(b, r, Consumed)
ConsumeField(b, r) == ConsumeAs(b, r, Decayed)

(* reading a field leaves it in its own register and takes it from the     *)
(* others of the register's own sets                                       *)
FieldAccess(b, d, r) ==
  LET others == UNION {g \in ToSet(entanglements) : <<b, r>> \in g} \ {<<b, r>>}
  IN \/ /\ Reg(b, r).st \notin {"Valid", "LeasedValid"}
        /\ Fails("MemoryFault")
     \/ /\ Reg(b, r).st \in {"Valid", "LeasedValid"}
        /\ values < MaxValues /\ values' = values + 1
        /\ timeline' = [Taken(others, Decayed) EXCEPT ![b].regs[d] = Valid(values')]
        /\ reads' = reads \cup [val : {Reg(b, r).val} \cap Bonded, by : {b}, among : {Active}]
        /\ UNCHANGED <<entanglements, Control, bonds, spent, lent, revived>>

-----------------------------------------------------------------------------
(* Entanglement and split                                                  *)

(* history: values entangled together, or with values already bonded       *)
Bond(vals) ==
  LET met == {B \in bonds : B \cap vals # {}}
  IN (bonds \ met) \cup {vals \cup UNION met}

(* the registers join the first set they meet, other sets they meet stay   *)
Entangle(b, regs) ==
  LET slots == {b} \X regs
      met == SelectInSeq(entanglements, LAMBDA g : g \cap slots # {})
  IN /\ entanglements' = IF met = 0 THEN Append(entanglements, slots)
                         ELSE [entanglements EXCEPT ![met] = @ \cup slots]
     /\ bonds' = IF Active = {Main} /\ Followed(slots) # {} THEN Bond(Followed(slots)) ELSE bonds
     /\ UNCHANGED <<timeline, Control, values, spent, lent, revived, reads>>

Forked(b, names) ==
  [n \in Active \cup names |->
     IF n \in names THEN [regs |-> timeline[b].regs, anchors |-> <<>>] ELSE timeline[n]]

SplitUnentangled(b, names) ==                                    \* mutant
  /\ timeline' = Forked(b, names)
  /\ UNCHANGED <<entanglements, Control, values, Fates>>

(* a child gets a copy of the registers and a place beside its parent in   *)
(* every set; splitting into an active name replaces that timeline         *)
Split(b, names) ==
  /\ timeline' = Forked(b, names)
  /\ entanglements' = [i \in DOMAIN entanglements |->
       entanglements[i] \cup {s \in names \X Regs : <<b, s[2]>> \in entanglements[i]}]
  /\ reads' = {[read EXCEPT !.among = @ \ names] : read \in reads}
  /\ UNCHANGED <<Control, values, bonds, spent, lent, revived>>

-----------------------------------------------------------------------------
(* Relativistic blocks                                                     *)

EnterBlock(w) ==
  /\ running = Main /\ block < MaxBlocks
  /\ \/ w \notin Active /\ Fails("BranchNotFound")
     \/ /\ w \in Active
        /\ running' = w /\ block' = block + 1
        /\ UNCHANGED <<timeline, entanglements, fault, values, Fates>>

(* at its end the block's registers that are not consumed go to the caller *)
Synced(lines, w) ==
  [lines EXCEPT ![Main].regs =
     [r \in Regs |-> IF lines[w].regs[r] = Consumed THEN @[r] ELSE lines[w].regs[r]]]

LeaveBlock(w) ==
  /\ running = w
  /\ timeline' = Synced(timeline, w) /\ running' = Main
  /\ UNCHANGED <<entanglements, block, fault, values, Fates>>

(* a jump to code of block blk: out of the present block, it ends it       *)
Land(b, blk, lines) ==
  IF b # Main /\ blk # block THEN timeline' = Synced(lines, b) /\ running' = Main
  ELSE timeline' = lines /\ UNCHANGED running

-----------------------------------------------------------------------------
(* Anchors and leases                                                      *)

Bind(f, k, v) == [x \in DOMAIN f \cup {k} |-> IF x = k THEN v ELSE f[x]]

Anchor(b, a) ==
  /\ timeline' = [timeline EXCEPT ![b].anchors =
                    Bind(@, a, [regs |-> timeline[b].regs, block |-> block])]
  /\ UNCHANGED <<entanglements, Control, values, Fates>>

(* b's registers go back to the anchor o has of that name; entanglement    *)
(* and the other timelines do not                                          *)
Restore(b, o, a) ==
  LET snapshot == timeline[o].anchors[a]
      lines == [timeline EXCEPT ![o].regs = snapshot.regs]
  IN /\ IF o = b THEN Land(b, snapshot.block, lines)
        ELSE timeline' = lines /\ UNCHANGED running
     /\ revived' = revived \cup (spent \cap {snapshot.regs[r].val : r \in Regs})
     /\ UNCHANGED <<entanglements, block, fault, values, bonds, spent, lent, reads>>

Rewind(b, a) ==
  \/ a \notin DOMAIN timeline[b].anchors /\ Fails("AnchorNotFound")
  \/ a \in DOMAIN timeline[b].anchors /\ Restore(b, b, a)

(* the view is a copy of the source                                        *)
Lease(b, view, src) ==
  \/ Reg(b, src) = Consumed /\ Fails("MemoryFault")
  \/ IsLeased(Reg(b, src)) /\ Fails("LeaseViolation")
  \/ /\ Reg(b, src).st \in {"Valid", "Decayed"}
     /\ timeline' = [timeline EXCEPT ![b].regs[view] = Reg(b, src),
                                     ![b].regs[src] = Leased(Reg(b, src))]
     /\ lent' = lent \cup {Reg(b, src).val}
     /\ UNCHANGED <<entanglements, Control, values, bonds, spent, revived, reads>>

(* a lease that is not over its time is padded to its end; the view stays  *)
EndLease(b, src) ==
  \/ Fails("LeaseViolation")            \* not leased, or past its expiration
  \/ /\ IsLeased(Reg(b, src))
     /\ timeline' = [timeline EXCEPT ![b].regs[src] = Original(@)]
     /\ UNCHANGED <<entanglements, Control, values, Fates>>

-----------------------------------------------------------------------------
(* Merge: branching.rs merge_timelines, resolve_entropic_conflict          *)

(* two states of a register, or of the field of a topology, by a rule that *)
(* does not look inside                                                    *)
Pick(rule, existing, incoming, from) ==
  CASE rule.kind = "FirstWins" -> existing
    [] rule.kind = "Priority" -> IF from = rule.winner THEN incoming ELSE existing
    [] rule.kind = "Decay" -> Consumed
    [] rule.kind = "Auto" ->
         IF existing.st = "Valid" /\ incoming.st # "Valid" THEN existing ELSE incoming

Field(state) == IF state = Decayed THEN Consumed ELSE state

Outcome(state, reversion) == [state |-> state, reversion |-> reversion]

Unite(rule, existing, incoming, from) ==
  LET field == Pick(rule.default, Field(existing), Field(incoming), from)
  IN IF IsLeased(existing) \/ IsLeased(incoming) THEN Outcome(Consumed, rule.on_invalid)
     ELSE IF field # Consumed THEN Outcome(field, <<>>)
     ELSE IF rule.on_invalid # <<>> THEN Outcome(Consumed, rule.on_invalid)
     ELSE Outcome(Decayed, <<>>)

ResolvedFirst(rule, existing, incoming, from) ==                 \* mutant
  IF existing = Consumed THEN Outcome(incoming, <<>>)
  ELSE IF incoming = Consumed \/ rule.kind = "Priority" THEN Outcome(existing, <<>>)
  ELSE IF rule.kind = "TopologyUnion" THEN Unite(rule, existing, incoming, from)
  ELSE Outcome(Pick(rule, existing, incoming, from), <<>>)

(* no rule is asked when one side is consumed: the other side stays        *)
Resolved(rule, existing, incoming, from) ==
  IF existing = Consumed THEN Outcome(incoming, <<>>)
  ELSE IF incoming = Consumed THEN Outcome(existing, <<>>)
  ELSE IF rule.kind = "TopologyUnion" THEN Unite(rule, existing, incoming, from)
  ELSE Outcome(Pick(rule, existing, incoming, from), <<>>)

(* one more branch, onto what is merged; the first reversion is kept       *)
MergeOne(rules, acc, n) ==
  LET out == [r \in Regs |-> Resolved(rules[r], acc.regs[r], Reg(n, r), n)]
      reversions == {out[r].reversion : r \in Regs} \ {<<>>}
  IN [regs |-> [r \in Regs |-> out[r].state],
      reversion |-> IF acc.reversion # <<>> \/ reversions = {} THEN acc.reversion
                    ELSE CHOOSE reversion \in reversions : TRUE]

(* the branches in their order, onto what the target has                   *)
Merged(names, target, rules) ==
  LET seed == IF target \in Active THEN timeline[target].regs ELSE [r \in Regs |-> Consumed]
      after[i \in 0 .. Len(names)] == IF i = 0 THEN [regs |-> seed, reversion |-> <<>>]
                                      ELSE MergeOne(rules, after[i - 1], names[i])
  IN after[Len(names)]

Revert(b, o, a) ==
  \/ o \notin Active /\ Fails("BranchNotFound")
  \/ /\ o \in Active /\ a \notin DOMAIN timeline[o].anchors
     /\ Fails("AnchorNotFound")
  \/ /\ o \in Active /\ a \in DOMAIN timeline[o].anchors
     /\ Restore(b, o, a)

(* a reversion restores one timeline and leaves the branches; a timeline   *)
(* that merges itself away cannot go on                                    *)
Merge(b, names, target, rules) ==
  LET gone == ToSet(names) IN
  \/ ~(gone \subseteq Active) /\ Fails("BranchNotFound")
  \/ /\ gone \subseteq Active
     /\ LET out == Merged(names, target, rules) IN
        \/ out.reversion # <<>> /\ Revert(b, out.reversion[1], out.reversion[2])
        \/ out.reversion = <<>> /\ target \notin Active /\ Fails("BranchNotFound")
        \/ /\ out.reversion = <<>> /\ target \in Active
           /\ timeline' = [n \in Active \ gone |->
                             IF n = target THEN [timeline[n] EXCEPT !.regs = out.regs]
                             ELSE timeline[n]]
           /\ fault' = IF b \in gone THEN "BranchNotFound" ELSE "none"
           /\ UNCHANGED <<entanglements, running, block, values, Fates>>

-----------------------------------------------------------------------------
RegisterStep(b) ==
  \E r \in Regs : \/ Load(b, r) \/ Consume(b, r) \/ ConsumeField(b, r) \/ EndLease(b, r)
                  \/ \E d \in Regs : FieldAccess(b, d, r) \/ Lease(b, d, r)

BranchLists == {s \in UNION {[1 .. n -> Others] : n \in 1 .. Cardinality(Others)} : IsInjective(s)}

TimelineStep(b) ==
  \/ \E regs \in SUBSET Regs \ {{}} : Entangle(b, regs)
  \/ \E names \in SUBSET (Others \ {b}) \ {{}} : Split(b, names)
  \/ \E names \in BranchLists, target \in Names, rules \in Resolutions :
        Merge(b, names, target, rules)
  \/ \E a \in AnchorNames : Anchor(b, a) \/ Rewind(b, a)

Next ==
  /\ fault = "none"
  /\ steps < MaxSteps /\ steps' = steps + 1
  /\ \/ RegisterStep(running) \/ TimelineStep(running)
     \/ \E w \in Others : EnterBlock(w) \/ LeaveBlock(w)

Spec == Init /\ [][Next]_vars

-----------------------------------------------------------------------------
States == {Consumed, Decayed, Leased(Decayed)}
          \cup {Valid(v) : v \in 1 .. MaxValues} \cup {Leased(Valid(v)) : v \in 1 .. MaxValues}
Registers == [Regs -> States]

(* The registers and the snapshots hold entropic states, the entanglement  *)
(* sets hold slots, Main is always there, and so is whoever runs, until a  *)
(* timeline merges itself away.                                            *)
TypeOK ==
  /\ Main \in Active /\ Active \subseteq Names
  /\ \A b \in Active : /\ timeline[b].regs \in Registers
                       /\ DOMAIN timeline[b].anchors \subseteq AnchorNames
                       /\ \A a \in DOMAIN timeline[b].anchors :
                            timeline[b].anchors[a] \in [regs : Registers, block : 0 .. MaxBlocks]
  /\ entanglements \in Seq(SUBSET Slots)
  /\ running \in Names /\ (fault = "none" => running \in Active)
  /\ block \in 0 .. MaxBlocks /\ values \in 0 .. MaxValues
  /\ spent \subseteq Bonded /\ revived \subseteq spent
  /\ Bonded \cup (lent \ {0}) \subseteq 1 .. values

(* Values entangled before any split are used once: when a timeline has    *)
(* consumed one of them, or its field, no timeline has any of them whole,  *)
(* whatever was split, merged and synchronised in between.  A lease hides  *)
(* a register from its entanglement, its view is in no set, and a snapshot *)
(* brings a value back: values that met either are excepted, and consuming *)
(* one that was leased spends no other.                                    *)
EntangledUsedOnce ==
  \A b \in Active, r \in Regs : Reg(b, r).st = "Valid" =>
     Reg(b, r).val \notin spent \ (lent \cup revived)

(* The branch a priority rule names prevails, in whatever order branches   *)
(* are merged and whatever the target had from earlier blocks: if it still *)
(* had the register and the target did not get its state, the step is no   *)
(* merge by that rule.                                                     *)
PriorityPrevails ==
  [][\A p \in Active \ DOMAIN timeline', target \in DOMAIN timeline', r \in Regs :
       (Reg(p, r) # Consumed /\ timeline'[target].regs[r] # Reg(p, r)) =>
         \A names \in BranchLists, rules \in Resolutions :
            rules[r] = [kind |-> "Priority", winner |-> p]
              => ~Merge(running, names, target, rules)]_vars

(* docs/spec/causm_spec_topologies.md: taking a field of an entangled      *)
(* topology in one branch is reflected across all: of the timelines there  *)
(* when it is read, none reads it again.                                   *)
EntangledFieldReadOnce ==
  \A first, second \in reads :
     (first.val = second.val /\ first.val \notin lent \cup revived /\ first.by # second.by)
        => second.by \notin first.among \/ first.by \notin second.among
=============================================================================
