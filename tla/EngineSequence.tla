--------------------------- MODULE EngineSequence ---------------------------
(***************************************************************************)
(* The instruction stream of one frame on the convolution engine           *)
(* (compiler/engine_sequence.py, SequenceEmitter.run_column_programs and   *)
(* finish_frame, with compiler/layer_overlap.py, ConflictTracker).  The    *)
(* stream is written at compile time and run by the command processor, one *)
(* operation after the other, while the columns' DMA channels and cores    *)
(* work: an await in it blocks.  The two are modelled together: the        *)
(* emitter's actions are the operations in the order it writes them, the   *)
(* device's actions (external: kernels/aie2/conv_engine, the channels as   *)
(* the emitter's own comments describe them) run beside them.              *)
(*                                                                         *)
(* A layer is a program of items for every column.  An item is a record    *)
(*   ch     the shim channel: weights "w", activations "a", outputs "o"    *)
(*   parts  its tasks, as the workspace cells each touches                 *)
(*   hold   the activation items that must be issued before it is awaited  *)
(*   gives  the activation items it is (0 for "w" and "o", boxes for "X")  *)
(*   load   what it moves: for "w" weight objects, as the activation each  *)
(*          ends with and which of the activations emit an output; for "o" *)
(*          the number of outputs; for "a" the number of activations       *)
(*   pos    with stream sharing, the positions of its activations          *)
(* With stream sharing (StreamShare) every Period-th activation rides the  *)
(* weight channel: an item "P" has ch "w", gives 1 and a number as load.   *)
(* The activation ring and the resident weight buffer ("R", "B", "T", "S") *)
(* are build modes this module leaves out.                                 *)
(***************************************************************************)
EXTENDS Integers, Sequences, FiniteSets, SequencesExt

CONSTANTS
  Cols,        \* the columns are 1..Cols
  Cells,       \* the cells of the workspace
  Settings,    \* records [frame, overlap, batch, budget, depth, share]: the
               \* layers of a frame, overlap_layers, retire_batch, bd_budget,
               \* queue_depth, and the activations of each column in a frame
               \* with stream sharing, <<>> without
  WDepth, ADepth, ODepth,  \* the objects a column's three fifos hold
  Period,      \* of so many activations, the last rides the weight channel
  BDepth       \* the activations buffer B holds, those of the weight channel

Columns == 1..Cols
Channels == {"w", "a", "o"}

\* A task that brings weights is one transfer.
WeightsItem(item) == item.ch = "w" /\ item.gives # 1

ItemTyped(item) ==
  /\ item.ch \in Channels /\ item.hold \in Nat /\ item.gives \in Nat
  /\ item.parts \in Seq(SUBSET Cells) /\ item.parts # <<>>
  /\ item.pos \in Seq(Nat)
  /\ IF WeightsItem(item)
     THEN /\ item.load.ends \in Seq(Nat \ {0})
          /\ item.load.emits \in Seq(BOOLEAN)
          /\ Len(item.parts) = 1
     ELSE item.load \in Nat

ASSUME ColsAssumption == Cols \in Nat \ {0} /\ Period \in Nat \ {0}

\* What the schedulers emit.  Only a "P" item touches cells on the weight
\* channel: a build with stream sharing may not overlap its layers.
ASSUME SettingsAssumption ==
  \A s \in Settings :
    /\ s.overlap \in BOOLEAN
    /\ Len(s.frame) \in Nat \ {0}
    /\ \A l \in 1..Len(s.frame), c \in Columns :
         LET program == s.frame[l][c]
         IN  /\ Len(program) \in Nat /\ DOMAIN program = 1..Len(program)
             /\ \A i \in 1..Len(program) :
                  /\ ItemTyped(program[i])
                  /\ s.overlap /\ program[i].ch = "w"
                     => \A p \in DOMAIN program[i].parts :
                          program[i].parts[p] = {}

VARIABLES
  setting,   \* the build's choice, made once
  stage,     \* "items", "barrier", "end" or "failed" (a RuntimeError)
  layer, at, part,   \* the layer, the item in issue order, its step
  live,      \* per column: its queue, the tasks neither awaited nor freed
  holds,      \* per task: the activation items it must still wait for
  issued,    \* per column and channel: the layer's tasks so far
  tasks,     \* every task pushed, in order: what the tracker recorded
  started,   \* device: what each column's channels were started with
  taken,     \* per column and channel: completion tokens consumed by awaits
  accepted,  \* device: objects, fills and outputs each channel has moved
  computed   \* device: the activations each column's cores have consumed

emitter == <<stage, layer, at, part, live, holds, issued, tasks, started,
             taken>>
device == <<accepted, computed>>
vars == <<setting, emitter, device>>

Zero == [c \in Columns |-> [ch \in Channels |-> 0]]

Init == /\ setting \in Settings
        /\ stage = "items" /\ layer = 1 /\ at = 1 /\ part = 0
        /\ live = [c \in Columns |-> {}] /\ holds = <<>>
        /\ issued = Zero /\ tasks = <<>> /\ taken = Zero
        /\ started = [c \in Columns |->
                        [w |-> <<>>, a |-> <<>>, o |-> 0, emits |-> <<>>,
                         direct |-> <<>>, shared |-> <<>>]]
        /\ accepted = Zero /\ computed = [c \in Columns |-> 0]

(***************************************************************************)
(* The device.  A channel moves the units of its tasks (weight objects,    *)
(* fills, outputs) in the order they were started, completes a task with   *)
(* its last unit and puts out a token when that task carries one.          *)
(***************************************************************************)
Complete(s) == tasks[s].last <= accepted[tasks[s].col][tasks[s].ch]

Mine(c, ch) == {s \in DOMAIN tasks : tasks[s].col = c /\ tasks[s].ch = ch}

TokensOut(c, ch) ==
  Cardinality({s \in Mine(c, ch) : tasks[s].token /\ Complete(s)})

Newest(S) == IF S = {} THEN 0 ELSE CHOOSE s \in S : \A u \in S : u <= s

UpTo(marks, n) == IF n = 0 THEN 0 ELSE marks[n]

Sharing == setting.share # <<>>
\* Fault: the chain starts with an activation of the weight channel.
SharedFirst(n) == IF Sharing THEN (n + Period - 1) \div Period ELSE 0

\* Of the first n activations, those on the weight channel.
Shared(n) == IF Sharing THEN n \div Period ELSE 0
Direct(n) == n - Shared(n)

\* The weight channel's units are objects, marked with the last activation
\* they are for, and activations, marked 0.
Units(c) == 1..accepted[c]["w"]
Objects(c) == {n \in Units(c) : started[c].w[n] > 0}
Released(c) == Cardinality({n \in Objects(c) : started[c].w[n] <= computed[c]})
Covered(c) == Newest({started[c].w[n] : n \in Objects(c)})
Buffered(c) == Cardinality({n \in Units(c) : started[c].w[n] = 0})
Arrived(c) == UpTo(started[c].a, accepted[c]["a"])
Emits(c, k) == started[c].emits[k]
Produced(c) == Cardinality({k \in 1..computed[c] : Emits(c, k)})

Move(c, ch) == /\ accepted' = [accepted EXCEPT ![c][ch] = @ + 1]
               /\ UNCHANGED <<setting, emitter, computed>>

AcceptWeight(c) == /\ accepted[c]["w"] < Len(started[c].w)
                   /\ IF started[c].w[accepted[c]["w"] + 1] = 0
                      THEN Buffered(c) - Shared(computed[c]) < BDepth
                      ELSE Cardinality(Objects(c)) - Released(c) < WDepth
                   /\ Move(c, "w")

AcceptFill(c) == /\ accepted[c]["a"] < Len(started[c].a)
                 /\ Arrived(c) - Direct(computed[c]) < ADepth
                 /\ Move(c, "a")

DrainOutput(c) == /\ accepted[c]["o"] < started[c].o
                  /\ accepted[c]["o"] < Produced(c)
                  /\ Move(c, "o")

\* The chain of buffer descriptors that serves the cores counts activations.
Compute(c) ==
  /\ Direct(computed[c] + 1) <= Arrived(c)
  /\ Shared(computed[c] + 1) <= Buffered(c)
  /\ computed[c] < Covered(c)
  /\ Emits(c, computed[c] + 1) => Produced(c) - accepted[c]["o"] < ODepth
  /\ computed' = [computed EXCEPT ![c] = @ + 1]
  /\ UNCHANGED <<setting, emitter, accepted>>

\* What starting a task gives its channel: the units it moves.  A fill may be
\* one of several of an activation, or bring several.
Fetched(st, item, load) ==
  LET base == UpTo(st.a, Len(st.a))
  IN  [st EXCEPT !.a = @ \o (IF load = 0 THEN <<base>>
                             ELSE [n \in 1..load |-> base + n]),
                 !.direct = @ \o item.pos]

Streamed(st, item, load) ==
  IF item.gives = 1
  THEN [st EXCEPT !.w = @ \o [n \in 1..load |-> 0],
                  !.shared = @ \o item.pos]
  ELSE [st EXCEPT !.w = @ \o [n \in DOMAIN load.ends |->
                                Len(st.emits) + load.ends[n]],
                  !.emits = @ \o load.emits]

Extended(st, item, load) ==
  CASE item.ch = "w" -> Streamed(st, item, load)
    [] item.ch = "a" -> Fetched(st, item, load)
    [] OTHER -> [st EXCEPT !.o = @ + load]

LastUnit(st, ch) == CASE ch = "w" -> Len(st.w) [] ch = "a" -> Len(st.a)
                      [] OTHER -> st.o

Device(c) == \/ AcceptWeight(c) \/ AcceptFill(c)
             \/ Compute(c) \/ DrainOutput(c)

(***************************************************************************)
(* retire_channel: the oldest token group of a channel, its tasks up to    *)
(* the first one with a token, is awaited and freed, unless one is held.   *)
(* A queue is in the order of the tasks' numbers.                          *)
(***************************************************************************)
InChannel(c, ch) == {s \in live[c] : tasks[s].ch = ch}

Tokened(c, ch) == {s \in InChannel(c, ch) : tasks[s].token}

\* Fault: a retirement runs on to the newest token of the channel.
GroupToNewest(c, ch) == {s \in InChannel(c, ch) :
                           \E t \in Tokened(c, ch) : s <= t}

Group(c, ch) == {s \in InChannel(c, ch) : \A t \in Tokened(c, ch) : s <= t}

\* Fault: holds are not looked at.
RetirableHeld(c, ch) == Tokened(c, ch) # {}

Retirable(c, ch) == /\ Tokened(c, ch) # {}
                    /\ \A s \in Group(c, ch) : holds[s] = 0

\* dma_await_task consumes one token of the channel, whichever task it is of.
Retire(c, ch) ==
  /\ Retirable(c, ch)
  /\ taken[c][ch] < TokensOut(c, ch)
  /\ taken' = [taken EXCEPT ![c][ch] = @ + 1]
  /\ live' = [live EXCEPT ![c] = @ \ Group(c, ch)]

(***************************************************************************)
(* ConflictTracker.deps: the newest task of a column and channel that must *)
(* be complete before a task of the given channel may touch the cells.     *)
(***************************************************************************)
Before(c, ch) == Newest({s \in Mine(c, ch) : tasks[s].layer < layer})

Touched(c, ch, cells) ==
  Newest({s \in Mine(c, ch) : tasks[s].cells \cap cells # {}})

\* Fault: no task of an earlier layer behind one of this layer.
DepMasked(c, ch, cells) ==
  LET s == Touched(c, ch, cells)
  IN  IF s > 0 /\ tasks[s].layer = layer THEN 0 ELSE s

\* A task of this layer hides the older one: then all the earlier layers'.
Dep(c, ch, cells) ==
  LET s == Touched(c, ch, cells)
  IN  IF s > 0 /\ tasks[s].layer = layer THEN Before(c, ch) ELSE s

\* A fill waits for drains; a drain for drains and fills.
Sources(ch) == CASE ch = "a" -> {"o"} [] ch = "o" -> {"o", "a"} [] OTHER -> {}

Outstanding(c, ch, cells) ==
  \E s \in InChannel(c, ch) : s <= Dep(c, ch, cells)

(***************************************************************************)
(* push: what has to be retired before the next task is started.  First    *)
(* the conflicts (overlap only), then the descriptors of the shim, then    *)
(* the channel's start queue.                                              *)
(***************************************************************************)
Frame == setting.frame
Program(c) == Frame[layer][c]

Longest == Newest({Len(Program(c)) : c \in Columns})

\* Item i of every column in turn, then item i + 1.
Column == ((at - 1) % Cols) + 1
Row == ((at - 1) \div Cols) + 1
Item == Program(Column)[Row]
ItemsLeft == at <= Longest * Cols
Issuing == /\ stage = "items" /\ ItemsLeft
           /\ Row <= Len(Program(Column))

\* The steps of an item: it serves as often as it gives, then its tasks.
Task == part - Item.gives + 1

Conflicts ==
  {k \in Columns \X Sources(Item.ch) :
     setting.overlap /\ Outstanding(k[1], k[2], Item.parts[Task])}

NoDescriptor == Cardinality(live[Column]) >= setting.budget
QueueFull == Cardinality(InChannel(Column, Item.ch)) >= setting.depth

Pushing == Issuing /\ part >= Item.gives
Ready == Conflicts = {} /\ ~NoDescriptor /\ ~QueueFull

\* deps has the drains before the fills, of the columns in turn.
Sooner(k, j) == \/ k[2] = "o" /\ j[2] = "a"
                \/ k[2] = j[2] /\ k[1] < j[1]
Rank(ch) == CASE ch = "w" -> 1 [] ch = "a" -> 2 [] OTHER -> 3

\* The channels the emitter tries for the next task when it may not start;
\* the first of them that can be retired is.
Tried ==
  IF Conflicts # {}
  THEN {k \in Conflicts : \A j \in Conflicts \ {k} : Sooner(k, j)}
  ELSE IF NoDescriptor THEN {Column} \X Channels
       ELSE IF QueueFull THEN {<<Column, Item.ch>>} ELSE {}

CanRetire == {k \in Tried : Retirable(k[1], k[2])}
Oldest == {k \in CanRetire : \A j \in CanRetire : Rank(k[2]) <= Rank(j[2])}

Await == /\ Pushing
         /\ \E k \in Oldest : Retire(k[1], k[2])
         /\ UNCHANGED <<setting, stage, layer, at, part, holds, issued, tasks,
                        started, device>>

Raise == /\ Pushing /\ ~Ready /\ Oldest = {}
         /\ stage' = "failed"
         /\ UNCHANGED <<setting, layer, at, part, live, holds, issued, tasks,
                        started, taken, device>>

Total(c, ch) ==
  Cardinality(UNION {{i} \X DOMAIN Program(c)[i].parts :
                       i \in {j \in DOMAIN Program(c) :
                               Program(c)[j].ch = ch}})

\* The last task of a channel in its layer, and every batch-th one.
Token(c, ch) == LET n == issued[c][ch] + 1
                IN  n = Total(c, ch) \/ n % setting.batch = 0

Push ==
  /\ Pushing /\ Ready
  /\ LET c == Column  ch == Item.ch  tok == Token(c, ch)
         load == IF Task < Len(Item.parts) THEN 0 ELSE Item.load
         st == Extended(started[c], Item, load)
     IN  /\ started' = [started EXCEPT ![c] = st]
         /\ issued' = [issued EXCEPT ![c][ch] = @ + 1]
         /\ tasks' = Append(tasks,
                            [col |-> c, ch |-> ch, layer |-> layer,
                             cells |-> Item.parts[Task], token |-> tok,
                             last |-> LastUnit(st, ch)])
         /\ holds' = Append(holds, Item.hold)
         /\ live' = [live EXCEPT ![c] = @ \cup {Len(tasks) + 1}]
  /\ IF Task < Len(Item.parts) THEN part' = part + 1 /\ UNCHANGED at
                               ELSE part' = 0 /\ at' = at + 1
  /\ UNCHANGED <<setting, stage, layer, taken, device>>

(***************************************************************************)
(* issue: an activation item first serves the oldest held weight task and  *)
(* the oldest held drain of its column, a box item once for every box.     *)
(***************************************************************************)
Waits(c, ch) == {s \in InChannel(c, ch) : holds[s] > 0}
Served(c) == {s \in live[c] : \E ch \in {"w", "o"} :
                                s \in Waits(c, ch)
                                /\ \A t \in Waits(c, ch) : s <= t}

Serve ==
  /\ Issuing /\ part < Item.gives
  /\ part' = part + 1
  /\ holds' = [s \in DOMAIN holds |->
                IF s \in Served(Column) THEN holds[s] - 1 ELSE holds[s]]
  /\ UNCHANGED <<setting, stage, layer, at, live, issued, tasks, started,
                 taken, device>>

Skip == /\ stage = "items" /\ ItemsLeft
        /\ Row > Len(Program(Column))
        /\ at' = at + 1
        /\ UNCHANGED <<setting, stage, layer, part, live, holds, issued, tasks,
                       started, taken, device>>

(***************************************************************************)
(* The end of a layer clears the holds.  Its barrier retires every task of *)
(* every column, unless the build overlaps layers: then only the frame has *)
(* one (finish_frame).  Both raise when a channel's newest task carries no *)
(* token: that never happens, or AwaitBarrier would be stuck.              *)
(***************************************************************************)
LastLayer == layer = Len(Frame)

NextLayer == IF LastLayer THEN /\ stage' = "end"
                               /\ UNCHANGED <<layer, at, issued>>
             ELSE /\ stage' = "items" /\ layer' = layer + 1
                  /\ at' = 1 /\ issued' = Zero

EndItems ==
  /\ stage = "items" /\ ~ItemsLeft
  /\ holds' = [s \in DOMAIN holds |-> 0]
  /\ IF setting.overlap /\ ~LastLayer
     THEN NextLayer
     ELSE stage' = "barrier" /\ UNCHANGED <<layer, at, issued>>
  /\ UNCHANGED <<setting, part, live, tasks, started, taken, device>>

\* Fault: the barrier of the first column only.
BusyFirst == {c \in {1} : live[c] # {}}

Busy == {c \in Columns : live[c] # {}}

\* The first column's oldest task says which channel is awaited.
AwaitBarrier ==
  /\ stage = "barrier"
  /\ \E c \in Busy : \E s \in live[c] :
       /\ \A d \in Busy : c <= d
       /\ \A t \in live[c] : s <= t
       /\ Retire(c, tasks[s].ch)
  /\ UNCHANGED <<setting, stage, layer, at, part, holds, issued, tasks,
                 started, device>>

LeaveBarrier == /\ stage = "barrier" /\ Busy = {}
                /\ NextLayer
                /\ UNCHANGED <<setting, part, live, holds, tasks, started,
                               taken, device>>

Emit == \/ Serve \/ Skip \/ Await \/ Raise \/ Push
        \/ EndItems \/ AwaitBarrier \/ LeaveBarrier

Next == (\E c \in Columns : Device(c)) \/ Emit

\* The command processor, the channels and the cores take what they may.  No
\* step can be taken twice, so fairness of any one of them is fairness of each.
Fairness == WF_vars(Next)

Spec == Init /\ [][Next]_vars /\ Fairness

(***************************************************************************)
(* Properties.                                                             *)
(***************************************************************************)

\* Read after write, write after read, write after write: a fill or drain is
\* started only when the tasks of EARLIER layers it conflicts with in the
\* workspace are complete, so the frame computes what it would with a barrier
\* behind every layer (layer_overlap.py:8-18; the offline test asks this of
\* the awaits of a few emitted streams).
Clash(t, u) == "o" \in {t.ch, u.ch} /\ t.cells \cap u.cells # {}

NoHazard == \A u \in DOMAIN tasks :
              LET s == Len(tasks)  \* the task just started
              IN  ~Complete(u) /\ tasks[u].layer < tasks[s].layer
                  => ~Clash(tasks[s], tasks[u])

\* A buffer descriptor is free only when its task is complete, although most
\* tasks carry no token and an await takes whichever token its channel has: a
\* freed descriptor is written over by the next task (the group rule of
\* retire_channel, engine_sequence.py:919-929).
FreedIsDone ==
  \A s \in DOMAIN tasks : Complete(s) \/ s \in live[tasks[s].col]

\* No token outlives the frame, or a layer with a barrier: the next frame runs
\* the same stream, and its first await of the channel would return at once.
TokensSpent ==
  stage = "end" \/ (~setting.overlap /\ stage = "items" /\ at = 1 /\ part = 0)
  => \A c \in Columns, ch \in Channels :
       taken[c][ch] = Cardinality({s \in Mine(c, ch) : tasks[s].token})

\* With stream sharing the cores still see a column's activations in the order
\* of the schedule, in every dispatch: what the chain counts off the two
\* channels is the frame's positions one after the other (stream_share.py:8-12
\* and 30-31; the offline tests check it under an emulator that assumes it).
Position(c, k) == IF Shared(k) > Shared(k - 1)
                  THEN started[c].shared[Shared(k)]
                  ELSE started[c].direct[Direct(k)]

CoresInOrder ==
  Sharing => \A c \in Columns :
               LET k == computed[c]  \* the activation just consumed
               IN  k > 0 => Position(c, k) = (k - 1) % setting.share[c]

\* Neither a weight task nor a drain issued ahead may be awaited before the
\* activation items it serves are issued: the drain would wait for fills that
\* the blocked stream never starts (engine_sequence.py:926-929).
Outputs(c) == Cardinality({k \in 1..Newest({0} \cup
                             {n \in DOMAIN started[c].emits :
                                n <= UpTo(started[c].a, Len(started[c].a))}) :
                           Emits(c, k)})

ServedFirst ==
  Pushing => \A k \in Oldest : k[2] = "o" =>
               \A s \in Group(k[1], "o") : tasks[s].last <= Outputs(k[1])

\* Every frame ends: no await waits for a task that cannot complete before a
\* later one is started.  Only a retirement group as deep as no start queue
\* leaves the emitter without a task it may await, and that at compile time
\* (engine_sequence.py:974-978).
FrameCompletes ==
  <>(stage = "end" \/ (stage = "failed" /\ setting.batch > setting.depth))

=============================================================================
