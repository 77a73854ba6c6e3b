--------------------------- MODULE MCMailboxChannel ---------------------------
(* The two containers of causm-concurrency that wait for room or make it:  *)
(* mailboxes and the blocking channel.  They share no state, so a          *)
(* behaviour is one of either, chosen at the start, the other resting in   *)
(* an initial state.                                                       *)
EXTENDS Mailboxes, BoundedChannel

VARIABLE component   \* the one that runs

mcVars == <<component, vars, channelVars>>

MCInit == /\ component \in {"mailboxes", "channel"}
          /\ Init /\ ChannelInit
          /\ component # "mailboxes" =>
               box = [b \in Boxes |-> New(capacity, CHOOSE p \in BoxPolicies : TRUE)]

MCNext == /\ UNCHANGED component
          /\ \/ component = "mailboxes" /\ Next /\ UNCHANGED channelVars
             \/ component = "channel" /\ ChannelNext /\ UNCHANGED vars

(* The channel's fairness.  Only the channel has liveness properties; the  *)
(* mailboxes' invariants do not depend on it.                              *)
MCSpec == MCInit /\ [][MCNext]_mcVars /\ Fairness
=============================================================================
