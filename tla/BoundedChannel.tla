--------------------------- MODULE BoundedChannel ---------------------------
(* BoundedChannel of sync.rs: a buffer under a lock, a closed flag stored  *)
(* outside it, and one condition variable that senders and receivers       *)
(* share and notify one at a time.                                         *)
EXTENDS Naturals, Sequences

CONSTANTS channel_capacity, Senders, Receivers, Values, NoValue, Nobody,
          MaxSends,  \* bound: sends started in one behaviour
          MayClose   \* whether anybody calls close()

ASSUME ChannelAssumption == /\ channel_capacity \in Nat \ {0} /\ MaxSends \in Nat
                            /\ NoValue \notin Values /\ MayClose \in BOOLEAN
                            /\ Senders \cap Receivers = {}
                            /\ Nobody \notin Senders \cup Receivers

Threads == Senders \cup Receivers

VARIABLES buffer,    \* the VecDeque
          closed,    \* the flag
          mutex,     \* the thread holding the buffer's lock, or Nobody
          waiting,   \* the threads asleep on the condition variable
          pc,        \* each thread's program point
          value,     \* each sender's argument
          got,       \* what each receiver's latest recv returned
          started,   \* sends started
          closing    \* where the close() call is

channelVars == <<buffer, closed, mutex, waiting, pc, value, got, started, closing>>

ChannelInit == /\ buffer = <<>> /\ closed = FALSE
               /\ mutex = Nobody /\ waiting = {}
               /\ pc = [t \in Threads |-> "idle"]
               /\ value = [s \in Senders |-> NoValue]
               /\ got = [r \in Receivers |-> NoValue]
               /\ started = 0 /\ closing = "before"

Goto(t, p) == pc' = [pc EXCEPT ![t] = p]

(* cond.notify_one(): some sleeper, whoever it is, wakes up                *)
NotifyNone == waiting' = waiting                                 \* mutant
NotifyOne == IF waiting = {} THEN waiting' = {}
             ELSE \E w \in waiting : waiting' = waiting \ {w}

(* buffer.lock(), also on the way out of cond.wait once woken              *)
Lock(t) == /\ pc[t] = "lock" /\ mutex = Nobody /\ t \notin waiting
           /\ mutex' = t /\ Goto(t, "check")
           /\ UNCHANGED <<buffer, closed, waiting, value, got, started, closing>>

(* cond.wait: gives up the lock and sleeps, in one step                    *)
Wait(t) == /\ pc[t] = "wait"
           /\ mutex' = Nobody /\ waiting' = waiting \cup {t} /\ Goto(t, "lock")
           /\ UNCHANGED <<buffer, closed, value, got, started, closing>>

Spurious(t) == /\ t \in waiting /\ waiting' = waiting \ {t}
               /\ UNCHANGED <<buffer, closed, mutex, pc, value, got, started, closing>>

(***************************************************************************)
(* send                                                                    *)
(***************************************************************************)
Send(t, v) == /\ pc[t] = "idle" /\ started < MaxSends
              /\ started' = started + 1
              /\ value' = [value EXCEPT ![t] = v] /\ Goto(t, "lock")
              /\ UNCHANGED <<buffer, closed, mutex, waiting, got, closing>>

FullOffByOne == Len(buffer) > channel_capacity                           \* mutant
Full == Len(buffer) >= channel_capacity

SendCheck(t) == /\ pc[t] = "check"
                /\ Goto(t, IF Full /\ ~closed THEN "wait" ELSE "commit")
                /\ UNCHANGED <<buffer, closed, mutex, waiting, value, got, started, closing>>

SendIgnoreClosed(t) ==                                           \* mutant
  /\ pc[t] = "commit" /\ mutex' = Nobody /\ Goto(t, "idle")
  /\ buffer' = Append(buffer, value[t]) /\ NotifyOne
  /\ UNCHANGED <<closed, value, got, started, closing>>

SendCommit(t) == /\ pc[t] = "commit" /\ mutex' = Nobody /\ Goto(t, "idle")
                 /\ IF closed THEN UNCHANGED <<buffer, waiting>>
                    ELSE buffer' = Append(buffer, value[t]) /\ NotifyOne
                 /\ UNCHANGED <<closed, value, got, started, closing>>

(***************************************************************************)
(* recv                                                                    *)
(***************************************************************************)
Recv(t) == /\ pc[t] = "idle" /\ Goto(t, "lock")
           /\ UNCHANGED <<buffer, closed, mutex, waiting, value, got, started, closing>>

RecvPop(t) == /\ pc[t] = "check" /\ buffer # <<>>
              /\ got' = [got EXCEPT ![t] = Head(buffer)]
              /\ buffer' = Tail(buffer) /\ NotifyOne
              /\ mutex' = Nobody /\ Goto(t, "idle")
              /\ UNCHANGED <<closed, value, started, closing>>

RecvCheckClosed(t) ==
  /\ pc[t] = "check" /\ buffer = <<>>
  /\ IF closed THEN mutex' = Nobody /\ Goto(t, "gotNone")
               ELSE UNCHANGED mutex /\ Goto(t, "wait")
  /\ UNCHANGED <<buffer, closed, waiting, value, got, started, closing>>

(***************************************************************************)
(* close: neither step takes the lock                                      *)
(***************************************************************************)
CloseStore == /\ MayClose /\ closing = "before"
              /\ closed' = TRUE /\ closing' = "notify"
              /\ UNCHANGED <<buffer, mutex, waiting, pc, value, got, started>>

CloseNotify == /\ closing = "notify"
               /\ waiting' = {} /\ closing' = "done"
               /\ UNCHANGED <<buffer, closed, mutex, pc, value, got, started>>

Sender(t) == (\E v \in Values : Send(t, v)) \/ SendCheck(t) \/ SendCommit(t)
Receiver(t) == Recv(t) \/ RecvPop(t) \/ RecvCheckClosed(t)

ChannelNext == \/ \E t \in Senders : Sender(t)
               \/ \E t \in Receivers : Receiver(t)
               \/ \E t \in Threads : Lock(t) \/ Wait(t) \/ Spurious(t)
               \/ CloseStore \/ CloseNotify

ChannelSpec == ChannelInit /\ [][ChannelNext]_channelVars

(* Every call in progress is scheduled, the lock is not kept from a thread *)
(* that wants it forever, and a receiver keeps receiving until it gets     *)
(* None.  Spurious wake-ups may happen, none has to.                       *)
Fairness == /\ \A t \in Senders : WF_channelVars(SendCheck(t) \/ SendCommit(t))
            /\ \A t \in Receivers : WF_channelVars(Receiver(t))
            /\ \A t \in Threads : SF_channelVars(Lock(t)) /\ WF_channelVars(Wait(t))
            /\ WF_channelVars(CloseNotify)

ChannelLiveSpec == ChannelSpec /\ Fairness

(***************************************************************************)
(* Properties                                                              *)
(***************************************************************************)
(* Every variable has its type.                                            *)
TypeOK == /\ buffer \in Seq(Values) /\ closed \in BOOLEAN
          /\ mutex \in Threads \cup {Nobody} /\ waiting \subseteq Threads
          /\ pc \in [Threads -> {"idle", "lock", "check", "wait", "commit", "gotNone"}]
          /\ value \in [Senders -> Values \cup {NoValue}]
          /\ got \in [Receivers -> Values \cup {NoValue}]
          /\ started \in 0 .. MaxSends /\ closing \in {"before", "notify", "done"}

(* The channel implements the bounded FIFO, closed or not.                 *)
Fifo == INSTANCE BoundedFifo
        WITH N <- channel_capacity, Consumers <- Receivers, items <- buffer
ImplementsFifo == Fifo!Spec

(* recv returning None is final: no value that a send reported as sent     *)
(* comes after it, although close() takes no lock and senders may be       *)
(* anywhere in send when it happens.                                       *)
NoneIsFinal == (\E r \in Receivers : pc[r] = "gotNone") => buffer = <<>>

(* A send that blocks on a full channel returns, for receivers that keep   *)
(* receiving, although a notification meant for it may wake another thread *)
(* (true while the threads are at most twice the capacity, see README).    *)
SendsReturn == \A t \in Senders : pc[t] = "lock" ~> pc[t] = "idle" \/ closed
=============================================================================
