---------------------------- MODULE MCTimelines ----------------------------
EXTENDS Timelines

CONSTANTS w, v, x, y, a

(* reconcile clauses: none, and one rule for x                             *)
Rules == {[kind |-> "FirstWins"], [kind |-> "Decay"],
          [kind |-> "Priority", winner |-> w],
          [kind |-> "TopologyUnion", default |-> [kind |-> "Auto"], on_invalid |-> <<>>],
          [kind |-> "TopologyUnion", default |-> [kind |-> "FirstWins"],
           on_invalid |-> <<Main, a>>],
          [kind |-> "TopologyUnion", default |-> [kind |-> "Decay"],
           on_invalid |-> <<v, a>>]}
Auto == [r \in Regs |-> [kind |-> "Auto"]]
MCResolutions == {Auto} \cup {[Auto EXCEPT ![x] = rule] : rule \in Rules}
=============================================================================
