------------------------------ MODULE Analysis ------------------------------
(* The analysis pipeline (causm-analysis pipeline.rs) on one block: facts,  *)
(* the relational check, the analyser statement by statement, the check    *)
(* that nothing is left over, and the code of what is accepted.            *)
EXTENDS Entropius, Analyser, Machine

CONSTANTS Programs,   \* bodies of a block
          Earlier,    \* variables that an earlier block wrote, under a name that begins with _
          Inputs,     \* what they may hold
          Fuel        \* instructions a run may take

VARIABLES program,
          strict,     \* enforce_egc
          stage, points,
          next,       \* the statement to analyse
          known,      \* the analyser's state of the branch
          code

vars == <<program, strict, stage, points, next, known, code>>

-----------------------------------------------------------------------------
Init ==
  /\ program \in Programs
  /\ strict \in BOOLEAN
  /\ stage = "source" /\ points = <<>> /\ next = 1 /\ code = <<>>
  /\ known = [Fresh EXCEPT !.types = Earlier, !.produced = Earlier]

ExtractFacts ==
  /\ stage = "source"
  /\ points' = Points(program)
  /\ stage' = "facts"
  /\ UNCHANGED <<program, strict, next, known, code>>

SolveInvariants ==
  /\ stage = "facts"
  /\ stage' = IF Diagnostics(points) = {} THEN "analysis" ELSE "refused"
  /\ UNCHANGED <<program, strict, points, next, known, code>>

Analyse ==
  /\ stage = "analysis" /\ next <= Len(program)
  /\ known' = AnalyseStatement(program[next], known)
  /\ stage' = IF known'.refused THEN "refused" ELSE "analysis"
  /\ next' = next + 1
  /\ UNCHANGED <<program, strict, points, code>>

(* run_post_ssa, without the solver for the WCET, and the code             *)
Conclude ==
  /\ stage = "analysis" /\ next > Len(program)
  /\ IF strict /\ Unconsumed(known) \ Earlier # {}
     THEN stage' = "refused" /\ UNCHANGED code
     ELSE stage' = "accepted" /\ code' = LowerAll(program, 1)
  /\ UNCHANGED <<program, strict, points, next, known>>

Next == ExtractFacts \/ SolveInvariants \/ Analyse \/ Conclude
Spec == Init /\ [][Next]_vars

-----------------------------------------------------------------------------
(* Properties                                                              *)

RegistersOf(instructions) ==
  {i[f] : <<i, f>> \in {p \in Range(instructions) \X
      {"dest", "src", "left", "right", "cond", "yes", "no", "target", "source", "item_reg",
       "dest_cond", "source_reg", "target_reg"} : p[2] \in DOMAIN p[1]}}

Ran(instructions, inputs) == Run(instructions, Start(inputs, RegistersOf(instructions), Fuel))

(* What is accepted does not fault: no run of it reads, moves or leases a  *)
(* variable that an earlier statement, on whatever way, has consumed.      *)
AcceptedRunsClean ==
  stage = "accepted" => \A inputs \in Inputs : Ran(code, inputs).status # "fault"

IsStraight(body) ==
  \A s \in Range(body) : \/ s.op = "consume"
                         \/ s.op \in {"let", "printing"} /\ s.expr.kind # "cond"

(* A program without branches is refused only when it would fault: what it *)
(* reintroduces counts as available again.                                 *)
StraightIsExact ==
  stage = "refused" /\ IsStraight(program) /\ ~strict =>
    \A inputs \in Inputs : Ran(LowerAll(program, 1), inputs).status = "fault"

RECURSIVE IsPlain(_)
IsPlain(body) ==
  \A s \in Range(body) : \/ IsStraight(<<s>>)
                         \/ s.op = "if" /\ IsPlain(s.then) /\ IsPlain(s.else)

(* At the end of an accepted program of assignments, consumptions and ifs  *)
(* the variables that are gone are those that the analyser has down as      *)
(* consumed, whichever branches the run took; under enforce_egc that is     *)
(* all of them.                                                            *)
EndsAsAnalysed ==
  stage = "accepted" /\ IsPlain(program) =>
    \A inputs \in Inputs :
      LET m == Ran(code, inputs)
          gone == {v \in known.produced \ known.mutables : m.regs[v] = Gone}
      IN /\ gone = known.produced \cap known.consumed
         /\ strict => known.produced \ gone \subseteq Earlier

RECURSIVE LeasesAreStraight(_)
LeasesAreStraight(body) ==
  \A s \in Range(body) : CASE s.op = "block" -> IsStraight(s.body)
                           [] s.op = "if" -> LeasesAreStraight(s.then) /\ LeasesAreStraight(s.else)
                           [] OTHER -> TRUE

(* A lease around statements without a branch, when the analyser accepts   *)
(* it, is never given back later than by the instruction that ends it.     *)
LeaseWithinEstimate ==
  stage = "accepted" /\ LeasesAreStraight(program) =>
    \A inputs \in Inputs : Ran(code, inputs).late <= 1
=============================================================================
