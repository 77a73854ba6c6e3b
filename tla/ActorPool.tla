------------------------------ MODULE ActorPool ------------------------------
(* scheduler/actor_pool.rs: the pool's actors and its ready queue, driven  *)
(* by a scheduling loop that takes the next ready actor, lets it work on   *)
(* its mailbox for a turn, and requeues it unless the turn emptied the     *)
(* mailbox (TurnResult::MailboxEmpty).                                     *)
EXTENDS BoundedMailbox, FiniteSets

CONSTANTS Actors,
          box_capacity, box_policy,   \* of every actor's mailbox
          MaxSend                     \* bound: messages sent

ASSUME PoolAssumption == /\ box_capacity \in Nat \ {0} /\ box_policy \in Policies
                         /\ MaxSend \in Nat

VARIABLES registered,   \* the keys of actors
          mailbox,      \* actor -> its mailbox
          ready_queue,  \* names, front first
          running,      \* the actors in a turn
          sends,        \* messages sent so far
          replaced      \* whether a name was registered again (at most once)

poolVars == <<registered, mailbox, ready_queue, running, sends, replaced>>

Queued(a) == \E i \in 1 .. Len(ready_queue) : ready_queue[i] = a

PoolInit == /\ registered = {} /\ ready_queue = <<>> /\ running = {}
            /\ mailbox = [a \in Actors |-> New(box_capacity, box_policy)]
            /\ sends = 0 /\ replaced = FALSE

(* registering a name again replaces its handle, mailbox and all           *)
Register(a) == /\ a \in registered => ~replaced
               /\ replaced' = (replaced \/ a \in registered)
               /\ registered' = registered \cup {a}
               /\ mailbox' = [mailbox EXCEPT ![a] = New(box_capacity, box_policy)]
               /\ ready_queue' = Append(ready_queue, a)
               /\ UNCHANGED <<running, sends>>

Enqueue(a) == ready_queue' = IF Queued(a) THEN ready_queue ELSE Append(ready_queue, a)

SendNoWakeup(a) == /\ a \in registered /\ sends < MaxSend        \* mutant
                   /\ sends' = sends + 1
                   /\ mailbox' = [mailbox EXCEPT ![a] = Push(@, sends).box]
                   /\ UNCHANGED <<registered, ready_queue, running, replaced>>

SendAlwaysEnqueue(a) == /\ a \in registered /\ sends < MaxSend   \* mutant
                        /\ sends' = sends + 1
                        /\ mailbox' = [mailbox EXCEPT ![a] = Push(@, sends).box]
                        /\ ready_queue' = Append(ready_queue, a)
                        /\ UNCHANGED <<registered, running, replaced>>

(* a rejected push returns its error before the actor is enqueued          *)
SendTo(a) == LET out == Push(mailbox[a], sends) IN
             /\ a \in registered /\ sends < MaxSend
             /\ sends' = sends + 1
             /\ mailbox' = [mailbox EXCEPT ![a] = out.box]
             /\ IF out.returned = {} THEN Enqueue(a) ELSE UNCHANGED ready_queue
             /\ UNCHANGED <<registered, running, replaced>>

(* a name queued again during its turn may be taken a second time          *)
NextReady == /\ ready_queue # <<>>
             /\ running' = running \cup {Head(ready_queue)}
             /\ ready_queue' = Tail(ready_queue)
             /\ UNCHANGED <<registered, mailbox, sends, replaced>>

HandleMessage(a) == /\ a \in running /\ mailbox[a].buffer # <<>>
                    /\ mailbox' = [mailbox EXCEPT ![a].buffer = Tail(@)]
                    /\ UNCHANGED <<registered, ready_queue, running, sends, replaced>>

EndEmpty(a) == /\ a \in running /\ mailbox[a].buffer = <<>>
               /\ running' = running \ {a}
               /\ UNCHANGED <<registered, mailbox, ready_queue, sends, replaced>>

(* called at the end of a turn; the pool does not look at the mailbox      *)
Requeue(a) == /\ a \in running
              /\ running' = running \ {a}
              /\ Enqueue(a)
              /\ UNCHANGED <<registered, mailbox, sends, replaced>>

PoolNext == \/ NextReady
            \/ \E a \in Actors : \/ Register(a) \/ SendTo(a)
                                 \/ HandleMessage(a) \/ EndEmpty(a) \/ Requeue(a)

PoolSpec == PoolInit /\ [][PoolNext]_poolVars

(* The loop keeps taking actors, a turn handles at least a message before  *)
(* its slice ends, and turns end.                                          *)
PoolFairness == /\ WF_poolVars(NextReady)
                /\ \A a \in Actors : /\ WF_poolVars(EndEmpty(a) \/ Requeue(a))
                                     /\ SF_poolVars(HandleMessage(a))

PoolLiveSpec == PoolSpec /\ PoolFairness

(* An actor with mail is in the ready queue or in a turn: no interleaving  *)
(* of sends, turns and requeues leaves it asleep on a message.             *)
NoActorForgotten == \A a \in registered :
                      mailbox[a].buffer # <<>> => Queued(a) \/ a \in running

(* Round robin: while every name is registered once, no actor is in the    *)
(* ready queue twice, so none gets a second turn before another's first.   *)
OneTurnPerRound == ~replaced =>
                   \A i, j \in 1 .. Len(ready_queue) :
                      i # j => ready_queue[i] # ready_queue[j]

(* Mail is handled in the end, however busy the other actors are.          *)
MailHandled == \A a \in Actors : mailbox[a].buffer # <<>> ~> mailbox[a].buffer = <<>>
=============================================================================
