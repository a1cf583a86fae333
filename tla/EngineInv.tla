----------------------------- MODULE EngineInv ------------------------------
(***************************************************************************)
(* The inductive invariant behind the safety properties of EngineSequence. *)
(***************************************************************************)
EXTENDS EngineSequence

TaskRecord == [col : Columns, ch : Channels, layer : Nat,
               cells : SUBSET Cells, token : BOOLEAN, last : Nat]

Started == [w : Seq(Nat), a : Seq(Nat), o : Nat, emits : Seq(BOOLEAN),
            direct : Seq(Nat), shared : Seq(Nat)]

PerChannel == [Columns -> [Channels -> Nat]]

TypeOK ==
  /\ setting \in Settings
  /\ stage \in {"items", "barrier", "end", "failed"}
  /\ layer \in 1..Len(Frame)
  /\ at \in Nat \ {0}
  /\ part \in Nat
  /\ tasks \in Seq(TaskRecord)
  /\ holds \in Seq(Nat) /\ Len(holds) = Len(tasks)
  /\ live \in [Columns -> SUBSET (1..Len(tasks))]
  /\ started \in [Columns -> Started]
  /\ issued \in PerChannel
  /\ taken \in PerChannel
  /\ accepted \in PerChannel
  /\ computed \in [Columns -> Nat]

\* A column's queue has its own tasks only.
OwnTasks == \A c \in Columns : \A s \in live[c] : tasks[s].col = c

\* Between two steps of an item the emitter has a step of it left.
PartInv == \/ part = 0
           \/ stage = "failed"
           \/ Issuing /\ part < Item.gives + Len(Item.parts)

\* A channel's tasks complete in the order they were pushed: each ends with a
\* unit no earlier than the one before, and the channel was given them all.
UnitsInv ==
  /\ \A s \in DOMAIN tasks :
       tasks[s].last <= LastUnit(started[tasks[s].col], tasks[s].ch)
  /\ \A s, t \in DOMAIN tasks :
       s <= t /\ tasks[s].col = tasks[t].col /\ tasks[s].ch = tasks[t].ch
       => tasks[s].last <= tasks[t].last

\* The tokenised tasks of a channel that have left its queue.
Spent(c, ch) == {s \in Mine(c, ch) \ live[c] : tasks[s].token}

\* An await takes a token and frees the task of one: the two counts agree,
\* although the token taken may be another task's.
TokenInv == \A c \in Columns, ch \in Channels :
              taken[c][ch] = Cardinality(Spent(c, ch))

\* Without overlap a queue has tasks of the running layer only.
LayerInv == ~setting.overlap =>
              \A c \in Columns : \A s \in live[c] : tasks[s].layer = layer

\* With overlap weight tasks touch no cells of the workspace.
WeightsInv == setting.overlap =>
                \A s \in DOMAIN tasks : tasks[s].ch = "w" =>
                                          tasks[s].cells = {}

\* No queue outlives the frame, or a layer that ends with a barrier.
AtRest == \/ stage = "end"
          \/ ~setting.overlap /\ stage = "items" /\ at = 1 /\ part = 0

EmptyInv == AtRest => \A c \in Columns : live[c] = {}

\* What holds of the tasks and queues in every step of the emitter.
QueueInv == /\ OwnTasks /\ UnitsInv /\ TokenInv /\ WeightsInv
            /\ FreedIsDone /\ NoHazard

IInv == /\ TypeOK /\ PartInv /\ LayerInv /\ EmptyInv /\ QueueInv


(***************************************************************************)
(* Stream sharing: the order of a column's activations.                    *)
(***************************************************************************)

\* A channel's items with activations of a position.
Carries(item, ch) == item.ch = ch /\ (ch = "w" => item.gives = 1)

\* The places of the positions on a channel ahead of item i of layer l.
PlacesAhead(frame, c, ch, l, i) ==
  UNION {UNION {{<<k, j>>} \X DOMAIN frame[k][c][j].pos :
                  j \in {n \in 1..Len(frame[k][c]) :
                           Carries(frame[k][c][n], ch) /\ (k < l \/ n < i)}} :
           k \in 1..l}

\* The activation of a column that is the m-th on a channel: every Period-th
\* is one of the weight channel.
Activation(ch, m) == IF ch = "w" THEN Period * m
                     ELSE m + ((m - 1) \div (Period - 1))

\* Item i of layer l has the next activations whose turn it is on the channel,
\* each with its position.
InTurn(s, l, c, ch, i) ==
  LET item == s.frame[l][c][i]
      before == Cardinality(PlacesAhead(s.frame, c, ch, l, i))
  IN  /\ Len(item.parts) = 1 /\ item.load = Len(item.pos)
      /\ \A n \in 1..Len(item.pos) :
           item.pos[n] = (Activation(ch, before + n) - 1) % s.share[c]

\* What share_layer and pad_frame make of a frame, and check_stream_share
\* asserts of it in every build: each channel has the activations whose turn
\* it is, each once and in their order, with their positions, and a frame has
\* whole periods of them, so that the next dispatch counts on.
LaidOut ==
  \A s \in Settings : s.share # <<>> =>
    \A l \in 1..Len(s.frame), c \in Columns, ch \in {"w", "a"} :
      \A i \in 1..Len(s.frame[l][c]) :
        Carries(s.frame[l][c][i], ch) => InTurn(s, l, c, ch, i)

\* The next item of a column, and the positions that were started before it.
NextRow(c) == Row + (IF c < Column THEN 1 ELSE 0)
Placed(c, ch) == PlacesAhead(Frame, c, ch, layer, NextRow(c))
Given(c, ch) == IF ch = "w" THEN started[c].shared ELSE started[c].direct

\* Each channel was given its positions in the order of the frame.
GivenInv ==
  \A c \in Columns, ch \in {"w", "a"} :
    /\ IsFiniteSet(Placed(c, ch))
    /\ Cardinality(Placed(c, ch)) = Len(Given(c, ch))
    /\ \A m \in 1..Len(Given(c, ch)) :
         Given(c, ch)[m] = (Activation(ch, m) - 1) % setting.share[c]

\* An activation of the weight channel is a unit marked 0; a fill's mark is
\* the number of activations it ends with.
ZeroUnits(w, n) == {k \in 1..n : w[k] = 0}

Marks(st) == /\ Cardinality(ZeroUnits(st.w, Len(st.w))) = Len(st.shared)
             /\ UpTo(st.a, Len(st.a)) = Len(st.direct)
             /\ \A n \in 1..Len(st.a) : st.a[n] <= Len(st.direct)

MarksInv == \A c \in Columns : Marks(started[c])

\* The device has moved and consumed no more than it was given.
ConsumedInv ==
  \A c \in Columns :
    /\ accepted[c]["w"] <= Len(started[c].w)
    /\ accepted[c]["a"] <= Len(started[c].a)
    /\ Shared(computed[c]) <= Len(started[c].shared)
    /\ Direct(computed[c]) <= Len(started[c].direct)

\* A barrier stands behind the layer's items.
BehindInv == stage = "barrier" => ~ItemsLeft

OrderInv == Sharing => GivenInv /\ MarksInv /\ ConsumedInv /\ BehindInv


(***************************************************************************)
(* Closed token groups: what the emitter waits for can be awaited.         *)
(***************************************************************************)

\* Part p of a column's item i has been pushed.
Gone(c, i, p) == i < NextRow(c) \/ (c = Column /\ i = Row /\ p < Task)

\* The parts of a channel's items that have been pushed in this layer.
IssuedParts(c, ch) ==
  UNION {{i} \X {p \in DOMAIN Program(c)[i].parts : Gone(c, i, p)} :
           i \in {j \in DOMAIN Program(c) : Program(c)[j].ch = ch}}

IssuedInv == \A c \in Columns, ch \in Channels :
               /\ IsFiniteSet(IssuedParts(c, ch))
               /\ issued[c][ch] = Cardinality(IssuedParts(c, ch))

\* The tasks are in the order of their layers.
LayersInv == /\ \A s \in DOMAIN tasks : tasks[s].layer <= layer
             /\ \A s, t \in DOMAIN tasks :
                  s <= t => tasks[s].layer <= tasks[t].layer

\* A queue has the newest tasks of every channel: what follows a live task is
\* live.
TailInv ==
  \A c \in Columns : \A s \in live[c] : \A t \in Mine(c, tasks[s].ch) :
    s <= t => t \in live[c]

\* A channel's last task in a layer carries a token.
LastToken ==
  \A c \in Columns, ch \in Channels :
    Mine(c, ch) # {} /\ issued[c][ch] \in {0, Total(c, ch)}
    => tasks[Newest(Mine(c, ch))].token

EarlierToken ==
  \A c \in Columns, ch \in Channels :
    {s \in Mine(c, ch) : tasks[s].layer < layer} # {}
    => tasks[Before(c, ch)].token

\* No task is held behind the items of its layer.
HoldsInv == \A s \in DOMAIN tasks :
              tasks[s].layer < layer \/ stage = "barrier" => holds[s] = 0

CloseInv == /\ IssuedInv /\ LayersInv /\ TailInv /\ LastToken /\ EarlierToken
            /\ HoldsInv /\ BehindInv

\* What the layer's or the frame's barrier raises without: every channel with
\* a live task can be retired, but for the device (engine_sequence.py:1144-1157).
BarrierClear ==
  stage = "barrier" =>
    \A c \in Busy : \A s \in live[c] : Retirable(c, tasks[s].ch)

\* An earlier layer's task always sits in a closed token group, and is not
\* held: a conflict can be retired, but for the device
\* (engine_sequence.py:1020-1028).
ConflictClear == Pushing => \A k \in Conflicts : Retirable(k[1], k[2])
=============================================================================
