--------------------------- MODULE CausalChannels ---------------------------
(* The TVM's channels and the two ways it goes back in time: anchors with  *)
(* rewind_to, and speculate blocks with collapse.  Every action is one     *)
(* instruction handler, run to its end.  Main runs instructions; it hands  *)
(* control to another timeline for the length of a relativistic block.  A  *)
(* handler that returns an error ends the run (fault).  Registers are      *)
(* abstracted to the messages a timeline's own receives put in them,       *)
(* clocks and budgets to nothing, the program counter to what bounds the   *)
(* run: the block it is in and how many speculate blocks surround it.      *)
EXTENDS BoundedMailbox, FiniteSets

CONSTANTS Main, Others,    \* timelines: "main" and the active branches
          Chans, AnchorNames,
          Capacities,      \* the capacities channels are opened with
          Travellers,      \* bound: the timelines that anchor and speculate
          MaxSend, MaxTicks, MaxSpec, MaxBlocks,              \* bounds
          MaxSteps         \* bound: handlers run in one execution

ASSUME ChannelAssumption ==
  /\ Main \notin Others /\ Travellers \subseteq {Main} \cup Others
  /\ Capacities \subseteq Nat
  /\ {MaxSend, MaxTicks, MaxSpec, MaxBlocks, MaxSteps} \subseteq Nat

VARIABLES channels, pending,  \* name -> mailbox, for the channels opened
          next_payload_id,
          causal_history,
          timeline,           \* timeline -> [slice, arena, anchors, depth]
          speculation_stack, speculative_commit_mode,
          running, block,     \* who runs, in which relativistic block
          fault,              \* the error the run ended with
          ticks,              \* history: loop ticks a timeline has begun
          gone,               \* history: evicted, replaced, selected, unsent
          undone,             \* history: events a rewind has undone
          orderly,            \* history: every rewind was Orderly
          steps               \* history: handlers run

vars == <<channels, pending, next_payload_id, causal_history, timeline,
          speculation_stack, speculative_commit_mode, running, block, fault,
          ticks, gone, undone, orderly, steps>>

Branches == {Main} \cup Others
Opened == DOMAIN channels
Modes == {"Selective", "Full"}
Ids(buffer) == {buffer[i].id : i \in DOMAIN buffer}
IdsOf(msgs) == {m.id : m \in msgs}
InBuffers == UNION {Ids(channels[c].buffer) \cup Ids(pending[c].buffer) : c \in Opened}
Own(b) == {i \in DOMAIN causal_history : causal_history[i].branch = b}

Init ==
  /\ channels = <<>> /\ pending = <<>>
  /\ next_payload_id = 1
  /\ causal_history = <<>>
  /\ timeline = [b \in Branches |->
                   [slice |-> FALSE, arena |-> {}, anchors |-> <<>>, depth |-> 0]]
  /\ speculation_stack = <<>> /\ speculative_commit_mode = "Selective"
  /\ running = Main /\ block = 0
  /\ fault = "none"
  /\ ticks = [b \in Branches |-> 0]
  /\ gone = {} /\ undone = {} /\ orderly = TRUE /\ steps = 0

ChannelState == <<channels, pending, next_payload_id, causal_history>>
Speculation == <<speculation_stack, speculative_commit_mode>>
Control == <<running, block>>
Ghosts == <<ticks, gone, undone, orderly>>

Fails(error) == /\ fault' = error
                /\ UNCHANGED <<timeline, Speculation, Control, Ghosts>>

-----------------------------------------------------------------------------
(* Channels: handlers/actor.rs                                             *)

(* HashMap::insert: a name that is there gets the new value                *)
Bind(f, k, v) == [x \in DOMAIN f \cup {k} |-> IF x = k THEN v ELSE f[x]]

(* opening a channel again replaces both mailboxes, mail and all           *)
OpenChan(b, c, capacity) ==
  LET cap  == IF capacity = 0 THEN 1 ELSE capacity
      lost == IF c \in Opened THEN Ids(channels[c].buffer) \cup Ids(pending[c].buffer)
              ELSE {}
  IN /\ channels' = Bind(channels, c, New(cap, "RingBuffer"))
     /\ pending' = Bind(pending, c, New(cap, "RingBuffer"))
     /\ gone' = gone \cup lost
     /\ UNCHANGED <<next_payload_id, causal_history, timeline, Speculation,
                    Control, fault, ticks, undone, orderly>>

Record(op, b, c, m) ==
  causal_history' = Append(causal_history, [op |-> op, branch |-> b, chan |-> c, msg |-> m])

ChanSendAtOnce(b, c) ==                                          \* mutant
  LET m == [id |-> next_payload_id, sender |-> b, iso |-> timeline[b].slice, born |-> ticks]
  IN /\ next_payload_id <= MaxSend /\ next_payload_id' = next_payload_id + 1
     /\ c \in Opened
     /\ channels' = [channels EXCEPT ![c] = Push(@, m).box]
     /\ gone' = gone \cup IdsOf(Push(channels[c], m).evicted)
     /\ Record("send", b, c, m)
     /\ UNCHANGED <<pending, timeline, Speculation, Control, fault, ticks, undone, orderly>>

(* a sliced timeline sends into the tick's shadow buffer; the id is spent  *)
(* whether or not the channel exists                                       *)
ChanSend(b, c) ==
  LET iso == timeline[b].slice
      m   == [id |-> next_payload_id, sender |-> b, iso |-> iso, born |-> ticks]
      out == Push(IF iso THEN pending[c] ELSE channels[c], m)
  IN /\ next_payload_id <= MaxSend /\ next_payload_id' = next_payload_id + 1
     /\ \/ /\ c \notin Opened
           /\ Fails("ChannelFault") /\ UNCHANGED <<channels, pending, causal_history>>
        \/ /\ c \in Opened
           /\ pending' = IF iso THEN [pending EXCEPT ![c] = out.box] ELSE pending
           /\ channels' = IF iso THEN channels ELSE [channels EXCEPT ![c] = out.box]
           /\ gone' = gone \cup IdsOf(out.evicted)
           /\ Record("send", b, c, m)
           /\ UNCHANGED <<timeline, Speculation, Control, fault, ticks, undone, orderly>>

Empty(c) == c \in Opened => channels[c].buffer = <<>>

Pop(c) == channels' = [channels EXCEPT ![c].buffer = Tail(@)]

Hold(b, m) == timeline' = [timeline EXCEPT ![b].arena = @ \cup {m.id}]

(* the message is popped before its register is written, and the write may *)
(* find the arena full                                                     *)
ChanRecv(b, c) ==
  \/ /\ Empty(c)
     /\ Fails("ChannelFault") /\ UNCHANGED ChannelState
  \/ /\ ~Empty(c)
     /\ Fails("MemoryFault") /\ Pop(c)
     /\ UNCHANGED <<pending, next_payload_id, causal_history>>
  \/ /\ ~Empty(c)
     /\ Pop(c) /\ Hold(b, Head(channels[c].buffer))
     /\ Record("recv", b, c, Head(channels[c].buffer))
     /\ UNCHANGED <<pending, next_payload_id, Speculation, Control, fault, Ghosts>>

(* select takes from the first case whose channel has mail, and records    *)
(* nothing                                                                 *)
Select(b, cases) ==
  LET ready == SelectInSeq(cases, LAMBDA c : ~Empty(c))
  IN /\ ready # 0
     /\ LET c == cases[ready]
            m == Head(channels[c].buffer)
        IN /\ Pop(c) /\ UNCHANGED <<pending, next_payload_id, causal_history>>
           /\ \/ /\ Hold(b, m) /\ gone' = gone \cup {m.id}
                 /\ UNCHANGED <<Speculation, Control, fault, ticks, undone, orderly>>
              \/ Fails("MemoryFault")

-----------------------------------------------------------------------------
(* Ticks: handlers/loops.rs, core.rs commit_tick_buffers                   *)

Slice(b) == /\ timeline' = [timeline EXCEPT ![b].slice = TRUE]
            /\ UNCHANGED <<ChannelState, Speculation, Control, fault, Ghosts>>

CommitTickBuffersReset ==                                        \* mutant
  /\ channels' = channels
  /\ pending' = [c \in Opened |-> Holding(pending[c], <<>>)]
  /\ gone' = gone

(* every channel's shadow buffer moves, whichever timeline ticks           *)
CommitTickBuffers ==
  LET merged == [c \in Opened |-> AppendBoth(channels[c], pending[c])]
  IN /\ channels' = [c \in Opened |-> merged[c].self]
     /\ pending' = [c \in Opened |-> merged[c].other]
     /\ gone' = gone \cup UNION {IdsOf(merged[c].evicted) : c \in Opened}

(* the buffers are committed before the missing slice is noticed           *)
LoopTick(b) ==
  /\ ticks[b] < MaxTicks
  /\ CommitTickBuffers
  /\ ticks' = [ticks EXCEPT ![b] = @ + 1]
  /\ fault' = IF timeline[b].slice THEN "none" ELSE "TickLoopWithoutSlice"
  /\ UNCHANGED <<next_payload_id, causal_history, timeline, Speculation, Control,
                 undone, orderly>>

(* awaiting a channel pads the clock up to its first message               *)
LoopTickOn(b, c) ==
  \/ Empty(c) /\ Fails("ChannelFault") /\ UNCHANGED ChannelState
  \/ ~Empty(c) /\ LoopTick(b)

-----------------------------------------------------------------------------
(* Relativistic blocks: handlers/temporal.rs                               *)

EnterBlock(w) ==
  /\ running = Main /\ w \in Others /\ block < MaxBlocks
  /\ running' = w /\ block' = block + 1
  /\ UNCHANGED <<ChannelState, timeline, Speculation, fault, Ghosts>>

LeaveBlock(w) ==
  /\ running = w /\ w \in Others /\ timeline[w].depth = 0
  /\ running' = Main
  /\ UNCHANGED <<ChannelState, timeline, Speculation, block, fault, Ghosts>>

(* a jump to code of block blk: Main's code is never outside Main, but in  *)
(* another timeline a jump out of the present block ends the block         *)
JumpsOut(b, blk) == b # Main /\ blk # block

Land(b, blk, tl) ==
  /\ timeline' = [timeline EXCEPT ![b] = IF JumpsOut(b, blk) THEN [tl EXCEPT !.depth = 0] ELSE tl]
  /\ running' = IF JumpsOut(b, blk) THEN Main ELSE b
  /\ UNCHANGED block

-----------------------------------------------------------------------------
(* Anchors and rewind_to: handlers/entropic.rs, core.rs _causal_rollback   *)

Anchor(b, a) ==
  LET tl == timeline[b]
      snapshot == [history_index |-> Len(causal_history), arena |-> tl.arena,
                   depth |-> tl.depth, block |-> block, undone |-> undone]
  IN /\ timeline' = [timeline EXCEPT ![b].anchors = Bind(@, a, snapshot)]
     /\ UNCHANGED <<ChannelState, Speculation, Control, fault, Ghosts>>

Position(mb, id) == SelectInSeq(mb.buffer, LAMBDA m : m.id = id)

ReceivedAfter(i) ==
  \E j \in i + 1 .. Len(causal_history) :
     /\ causal_history[j].op = "recv"
     /\ causal_history[j].chan = causal_history[i].chan
     /\ causal_history[j].msg.id = causal_history[i].msg.id

UndoSendLenient(st, i) ==                                        \* mutant
  LET c  == causal_history[i].chan
      id == causal_history[i].msg.id
      there == Position(st.channels[c], id)
  IN IF there # 0 THEN [st EXCEPT !.channels[c].buffer = RemoveAt(@, there),
                                  !.gone = @ \cup {id}]
     ELSE [st EXCEPT !.gone = @ \cup {id}]

UndoSend(st, i) ==
  LET c  == causal_history[i].chan
      id == causal_history[i].msg.id
      there  == Position(st.channels[c], id)
      shadow == Position(st.pending[c], id)
      unsent == [st EXCEPT !.gone = @ \cup {id}]
  IN IF ReceivedAfter(i) \/ there + shadow = 0 THEN [st EXCEPT !.ok = FALSE]
     ELSE IF there # 0
          THEN [unsent EXCEPT !.channels[c].buffer = RemoveAt(@, there)]
          ELSE [unsent EXCEPT !.pending[c].buffer = RemoveAt(@, shadow)]

(* the mailbox evicts its newest message when it is full                   *)
UndoRecv(st, i) ==
  LET c == causal_history[i].chan
      out == PushFront(st.channels[c], causal_history[i].msg)
  IN [st EXCEPT !.channels[c] = out.box, !.gone = @ \cup IdsOf(out.evicted)]

(* an error leaves what is undone undone                                   *)
UndoEvent(b, st, i) ==
  IF ~st.ok \/ causal_history[i].branch # b THEN st
  ELSE IF causal_history[i].op = "send" THEN UndoSend(st, i)
  ELSE UndoRecv(st, i)

EventsToUndoOldestFirst(from) ==                                 \* mutant
  [k \in 1 .. Len(causal_history) - from |-> from + k]

(* the events after index from, latest first                               *)
EventsToUndo(from) ==
  LET last == Len(causal_history) IN [k \in 1 .. last - from |-> last + 1 - k]

CausalRollback(b, from) ==
  LET events == EventsToUndo(from)
      present == [channels |-> channels, pending |-> pending, gone |-> gone, ok |-> TRUE]
      after[k \in 0 .. Len(events)] == IF k = 0 THEN present
                                       ELSE UndoEvent(b, after[k - 1], events[k])
  IN after[Len(events)]

(* Rewinding to an anchor of the present past, outside speculate blocks:   *)
(* nothing b did before the anchor was undone since it was set, nothing b  *)
(* did after it was undone before.                                         *)
Orderly(b, anchor) ==
  /\ timeline[b].depth = 0 /\ anchor.depth = 0
  /\ \A i \in Own(b) \cap undone : i <= anchor.history_index /\ i \in anchor.undone

(* The anchors stay, the history stays: it is never truncated.             *)
Rewind(b, a) ==
  \/ /\ a \notin DOMAIN timeline[b].anchors
     /\ Fails("AnchorNotFound") /\ UNCHANGED ChannelState
  \/ /\ a \in DOMAIN timeline[b].anchors
     /\ LET anchor == timeline[b].anchors[a]
            st == CausalRollback(b, anchor.history_index)
        IN /\ channels' = st.channels /\ pending' = st.pending
           /\ UNCHANGED <<next_payload_id, causal_history, Speculation, ticks>>
           /\ \/ /\ st.ok
                 /\ Land(b, anchor.block, [timeline[b] EXCEPT !.arena = anchor.arena,
                                                              !.depth = anchor.depth])
                 /\ gone' = st.gone
                 /\ undone' = undone \cup {i \in Own(b) : i > anchor.history_index}
                 /\ orderly' = (orderly /\ Orderly(b, anchor))
                 /\ UNCHANGED fault
              \/ /\ ~st.ok /\ fault' = "Paradox"
                 /\ UNCHANGED <<timeline, Control, gone, undone, orderly>>

-----------------------------------------------------------------------------
(* Speculation: handlers/speculation.rs                                    *)

Speculate(b) ==
  /\ Len(speculation_stack) < MaxSpec /\ timeline[b].depth < MaxSpec
  /\ speculation_stack' = Append(speculation_stack,
       [start |-> timeline[b], block |-> block, commit_executed |-> FALSE,
        history_start_index |-> Len(causal_history)])
  /\ timeline' = [timeline EXCEPT ![b].depth = @ + 1]
  /\ UNCHANGED <<ChannelState, speculative_commit_mode, Control, fault, Ghosts>>

(* the context on top, whoever pushed it                                   *)
PopContext == speculation_stack' = Front(speculation_stack)

EndSpeculate(b) ==
  /\ timeline[b].depth > 0
  /\ \/ /\ speculation_stack = <<>>
        /\ Fails("EvalError") /\ UNCHANGED ChannelState
     \/ /\ speculation_stack # <<>>
        /\ PopContext
        /\ LET context == Last(speculation_stack)
               tl == IF ~context.commit_executed /\ speculative_commit_mode = "Selective"
                     THEN context.start ELSE timeline[b]
           IN timeline' = [timeline EXCEPT ![b] = [tl EXCEPT !.depth = timeline[b].depth - 1]]
        /\ UNCHANGED <<ChannelState, speculative_commit_mode, Control, fault, Ghosts>>

(* registers, clock and anchors go back; channels and history do not       *)
Collapse(b) ==
  /\ timeline[b].depth > 0
  /\ \/ /\ speculation_stack = <<>>
        /\ Fails("EvalError") /\ UNCHANGED ChannelState
     \/ /\ speculation_stack # <<>>
        /\ PopContext
        /\ Land(b, Last(speculation_stack).block, Last(speculation_stack).start)
        /\ UNCHANGED <<ChannelState, speculative_commit_mode, fault, Ghosts>>

Commit(b) ==
  /\ speculation_stack # <<>> /\ ~Last(speculation_stack).commit_executed
  /\ speculation_stack' = [speculation_stack EXCEPT ![Len(speculation_stack)].commit_executed = TRUE]
  /\ UNCHANGED <<ChannelState, timeline, speculative_commit_mode, Control, fault, Ghosts>>

SpeculationMode(b, mode) ==
  /\ mode # speculative_commit_mode
  /\ speculative_commit_mode' = mode
  /\ UNCHANGED <<ChannelState, timeline, speculation_stack, Control, fault, Ghosts>>

-----------------------------------------------------------------------------
CaseLists == {s \in [1 .. Cardinality(Chans) -> Chans] : IsInjective(s)}

ChannelStep(b) ==
  \/ \E c \in Chans : \/ \E n \in Capacities : OpenChan(b, c, n)
                      \/ ChanSend(b, c) \/ ChanRecv(b, c) \/ LoopTickOn(b, c)
  \/ \E cases \in CaseLists : Select(b, cases)
  \/ Slice(b) \/ LoopTick(b)

TimeTravelStep(b) ==
  \/ \E a \in AnchorNames : Anchor(b, a) \/ Rewind(b, a)
  \/ Speculate(b) \/ EndSpeculate(b) \/ Collapse(b) \/ Commit(b)
  \/ \E mode \in Modes : SpeculationMode(b, mode)

Next ==
  /\ fault = "none"
  /\ steps < MaxSteps /\ steps' = steps + 1
  /\ \/ ChannelStep(running)
     \/ running \in Travellers /\ TimeTravelStep(running)
     \/ \E w \in Others : EnterBlock(w) \/ LeaveBlock(w)

Spec == Init /\ [][Next]_vars

-----------------------------------------------------------------------------
Messages == [id : 1 .. MaxSend, sender : Branches, iso : BOOLEAN,
             born : [Branches -> 0 .. MaxTicks]]
Mailboxes == [buffer : Seq(Messages), capacity : Nat \ {0}, policy : {"RingBuffer"}]

(* The mailboxes, the history, the timelines and the control state keep    *)
(* their types; every open channel has a shadow buffer and a real capacity. *)
TypeOK ==
  /\ Opened \subseteq Chans /\ DOMAIN pending = Opened
  /\ \A c \in Opened : {channels[c], pending[c]} \subseteq Mailboxes
  /\ next_payload_id \in 1 .. MaxSend + 1
  /\ causal_history \in Seq([op : {"send", "recv"}, branch : Branches,
                             chan : Chans, msg : Messages])
  /\ \A b \in Branches : /\ timeline[b].slice \in BOOLEAN
                         /\ timeline[b].arena \subseteq 1 .. MaxSend
                         /\ DOMAIN timeline[b].anchors \subseteq AnchorNames
                         /\ timeline[b].depth \in 0 .. MaxSpec
  /\ speculative_commit_mode \in Modes /\ running \in Branches
  /\ block \in 0 .. MaxBlocks /\ ticks \in [Branches -> 0 .. MaxTicks]
  /\ gone \subseteq 1 .. MaxSend /\ undone \subseteq DOMAIN causal_history

(* At most once in all the buffers, and not in a buffer while its receiver *)
(* still has it                                                            *)
NowhereTwice ==
  (orderly /\ fault = "none") =>
    /\ \A c, d \in Opened : Ids(channels[c].buffer) \cap Ids(pending[d].buffer) = {}
    /\ \A c, d \in Opened : c # d =>
          /\ Ids(channels[c].buffer) \cap Ids(channels[d].buffer) = {}
          /\ Ids(pending[c].buffer) \cap Ids(pending[d].buffer) = {}
    /\ \A c \in Opened : /\ Cardinality(Ids(channels[c].buffer)) = Len(channels[c].buffer)
                         /\ Cardinality(Ids(pending[c].buffer)) = Len(pending[c].buffer)
    /\ \A b \in Branches : timeline[b].arena \cap InBuffers = {}

SentIds == {causal_history[i].msg.id : i \in {j \in DOMAIN causal_history :
                                               causal_history[j].op = "send"}}
Received == {causal_history[i].msg.id : i \in {j \in DOMAIN causal_history \ undone :
                                                causal_history[j].op = "recv"}}

(* A message is in one place.  As long as every rewind was orderly and none *)
(* failed midway it is nowhere twice: rollback puts back exactly what      *)
(* restoring the arena took away.  And until the run faults none vanishes: *)
(* one that was sent is in a buffer, or its receipt stands, or an overflow, *)
(* a reopened channel, a select or the rewind of its send accounts for it. *)
MessagesConserved ==
  /\ NowhereTwice
  /\ fault = "none" => SentIds \subseteq InBuffers \cup Received \cup gone

AllMail == UNION {{channels[c].buffer[i] : i \in DOMAIN channels[c].buffer} : c \in Opened}

(* A message sent under a slice is receivable only after a tick that began *)
(* later than the send: a tick's sends are not seen before a commit, and   *)
(* no rewind puts one where it has not been.                               *)
TickIsolation == \A m \in AllMail : m.iso => \E b \in Branches : ticks[b] > m.born[b]

(* the elements of s at the positions in I, in their order                 *)
Picked(s, I) ==
  LET upto[n \in 0 .. Len(s)] == IF n = 0 THEN <<>>
                                 ELSE IF n \in I THEN Append(upto[n - 1], s[n])
                                 ELSE upto[n - 1]
  IN  upto[Len(s)]

ReceivedSince(b, c, from) ==
  {i \in Own(b) : i > from /\ causal_history[i].op = "recv" /\ causal_history[i].chan = c}
SentSince(b, from) ==
  {causal_history[i].msg.id : i \in {j \in Own(b) : j > from /\ causal_history[j].op = "send"}}

Rewinds(b, a) == /\ a \in DOMAIN timeline[b].anchors
                 /\ Rewind(b, a) /\ fault' = "none"

(* A rewind restores the channels: what the timeline received since the    *)
(* anchor is at the front again, in the order it was received, what it     *)
(* sent since is gone, and the rest has kept its order, provided the       *)
(* channel has room for all of it.                                         *)
RewindRestoresChannels ==
  [][\A b \in Branches, a \in AnchorNames :
       Rewinds(b, a) =>
         LET from == timeline[b].anchors[a].history_index
             messages == [i \in DOMAIN causal_history |-> causal_history[i].msg]
             Back(c) == Picked(messages, ReceivedSince(b, c, from))
             Kept(buffer) == Picked(buffer, {i \in DOMAIN buffer :
                                               buffer[i].id \notin SentSince(b, from)})
         IN \A c \in Opened :
              (Len(Back(c)) + Len(channels[c].buffer) <= channels[c].capacity)
                => /\ channels[c].buffer' = Back(c) \o Kept(channels[c].buffer)
                   /\ pending[c].buffer' = Kept(pending[c].buffer)]_vars

(* A rewind that succeeds leaves no trace of what it unsent: no buffer and *)
(* no other timeline has a message the timeline sent since the anchor.     *)
RewindLeavesNoTrace ==
  [][\A b \in Branches, a \in AnchorNames :
       Rewinds(b, a) =>
         LET unsent == SentSince(b, timeline[b].anchors[a].history_index)
         IN unsent \cap (InBuffers' \cup UNION {timeline'[o].arena : o \in Branches \ {b}})
              = {}]_vars

(* docs/spec/causm_spec_control_flow.md: an explicit collapse rolls back   *)
(* the channel operations of the block.                                    *)
CollapseUndoesSends ==
  [][\A b \in Branches :
       (speculation_stack # <<>> /\ Collapse(b)) =>
         SentSince(b, Last(speculation_stack).history_start_index) \cap InBuffers' = {}]_vars
=============================================================================
