---------------------------- MODULE StreamShare ----------------------------
(***************************************************************************)
(* compiler/stream_share.py: a frame's column programs rewritten so that    *)
(* every Period-th activation of a column rides its weight channel.  The    *)
(* MemTile's chains count activations, so each gets its position in the     *)
(* column's frame; those of the weight channel become items "P", issued     *)
(* ahead of any weight task that cannot complete without them; the holds    *)
(* are counted anew; the last layer is padded to whole periods, because the *)
(* chains run on into the next dispatch.                                    *)
(*                                                                         *)
(* Programs are those of EngineSequence.  A fill of k quads is an item of   *)
(* load k; quads of the same cells stand for patterns that merge_runs puts  *)
(* into one task.                                                          *)
(***************************************************************************)
EXTENDS EngineSequence

CONSTANT PadCells   \* the cells the padding reads: the workspace's first

OnWeights(p) == p % Period = Period - 1

Acts(prog) == {i \in DOMAIN prog : prog[i].ch = "a"}

\* The activation items a weight task or a drain was given to wait for.
Serves(prog, i) ==
  {j \in Acts(prog) :
     j > i /\ Cardinality({k \in Acts(prog) : i < k /\ k <= j})
              <= prog[i].hold}

\* The activation items with only such items between.
Segment(prog, i) ==
  {j \in Acts(prog) : \A k \in (i..j) \cup (j..i) : k \in Acts(prog)}

Loads(prog, S) == MapThenSumSet(LAMBDA i : prog[i].load, S)

\* The quads of some activation items, those on the weight channel or not,
\* from position pos of the column on.
Quads(prog, pos, S, shared) ==
  LET of(i) == LET first == pos + Loads(prog, {j \in Acts(prog) : j < i})
               IN  [n \in 1..prog[i].load |->
                      [pos |-> first + n - 1, cells |-> prog[i].parts[1]]]
      all == FlattenSeq([i \in DOMAIN prog |->
                           IF i \in S THEN of(i) ELSE <<>>])
  IN  SelectSeq(all, LAMBDA q : OnWeights(q.pos) = shared)

\* A task for a run of quads, which counts as one activation item.
TaskOf(ch, quads) ==
  [ch |-> ch, parts |-> <<quads[1].cells>>, hold |-> 0, gives |-> 1,
   load |-> Len(quads), pos |-> [n \in DOMAIN quads |-> quads[n].pos]]

\* The fewest tasks for some quads of one channel; a fill's own only run on
\* while their positions do.
Merge(ch, quads) ==
  LET joins(p, q) == p.cells = q.cells /\ (ch = "a" => q.pos = p.pos + 1)
      starts == {n \in DOMAIN quads :
                   n > 1 => ~joins(quads[n - 1], quads[n])}
      run(n) == {m \in DOMAIN quads :
                   m >= n /\ starts \cap ((n + 1)..m) = {}}
      firsts == SetToSortSeq(starts, <)
  IN  [k \in DOMAIN firsts |->
         TaskOf(ch, SubSeq(quads, firsts[k], Newest(run(firsts[k]))))]

\* A weight task that completes only when its cores have consumed some of it.
Large(item) == item.ch = "w" /\ Len(item.load.ends) > WDepth

\* The activation items whose shared quads an earlier weight task has taken
\* along.
Early(prog, i) ==
  UNION {Serves(prog, k) : k \in {j \in 1..(i - 1) : Large(prog[j])}}

\* The items whose shared quads are issued right before item i: those of a
\* large weight task, or at its first quad what is left of a segment.
IssuedAhead(prog, i) ==
  LET left == Segment(prog, i) \ Early(prog, i)
  IN  IF Large(prog[i]) THEN Serves(prog, i) \ Early(prog, i)
      ELSE IF i \in left /\ \A j \in left : i <= j THEN left ELSE {}

\* Item i with the shared quads ahead of it, each with the index it had.
MovedItem(prog, pos, i) ==
  LET new(items) == [n \in DOMAIN items |-> [item |-> items[n], of |-> 0]]
      shared == Quads(prog, pos, IssuedAhead(prog, i), TRUE)
  IN  new(Merge("w", shared))
      \o IF prog[i].ch = "a" THEN new(Merge("a", Quads(prog, pos, {i}, FALSE)))
         ELSE <<[item |-> prog[i], of |-> i]>>

Moved(prog, pos) ==
  FlattenSeq([i \in DOMAIN prog |-> MovedItem(prog, pos, i)])

\* Whether each large weight task's quads fit in buffer B ahead of it
\* (WontFit).
FitsColumn(prog, pos) ==
  \A i \in DOMAIN prog :
    Large(prog[i]) =>
      Len(Quads(prog, pos, IssuedAhead(prog, i), TRUE)) <= BDepth

\* A drain or a large weight task holds for the later tasks that carry a quad
\* it serves; any other weight task completes without them, and must not
\* block the quads that are queued behind it on its channel.
Held(prog, pos, moved, k) ==
  LET e == moved[k]
      serves == Serves(prog, e.of)
      wanted == {q.pos : q \in Range(Quads(prog, pos, serves, TRUE)
                                     \o Quads(prog, pos, serves, FALSE))}
      later == {n \in DOMAIN moved :
                  n > k /\ Range(moved[n].item.pos) \cap wanted # {}}
  IN  IF e.of = 0 THEN e.item
      ELSE [e.item EXCEPT !.hold = IF e.item.ch = "o" \/ Large(e.item)
                                   THEN Cardinality(later) ELSE 0]

\* share_layer, for one column.
ShareColumn(prog, pos) ==
  LET moved == Moved(prog, pos)
  IN  [k \in DOMAIN moved |-> Held(prog, pos, moved, k)]

Fits(programs, pos) == \A c \in Columns : FitsColumn(programs[c], pos[c])

After(programs, pos) ==
  [c \in Columns |-> pos[c] + Loads(programs[c], Acts(programs[c]))]

\* What the last period of a column is short of.
Missing(pos) == (Period - (pos % Period)) % Period

\* pad_frame: a weight object without outputs for the missing activations, and
\* those activations.
Padded(prog, pos) ==
  LET short == Missing(pos)
      pad(n) == TaskOf(IF OnWeights(pos + n - 1) THEN "w" ELSE "a",
                      <<[pos |-> pos + n - 1, cells |-> PadCells]>>)
      pads == [n \in 1..short |-> pad(n)]
      direct == SelectSeq(pads, LAMBDA t : t.ch = "a")
      nop == [ch |-> "w", parts |-> <<{}>>, hold |-> Len(direct), gives |-> 0,
              load |-> [ends |-> <<short>>,
                        emits |-> [n \in 1..short |-> FALSE]], pos |-> <<>>]
  IN  IF short = 0 THEN prog
      ELSE prog \o SelectSeq(pads, LAMBDA t : t.ch = "w") \o <<nop>> \o direct

PadFrame(frame, pos) ==
  [frame |-> [frame EXCEPT ![Len(frame)] =
                [c \in Columns |-> Padded(@[c], pos[c])]],
   share |-> [c \in Columns |-> pos[c] + Missing(pos[c])]]

\* schedule_stream_shared: a layer keeps the schedule with replayed weights
\* if it fits and takes that of a weight task a round if not.  layers has both
\* of each layer.
Chosen(both, pos) ==
  IF Fits(both.replay, pos) THEN both.replay ELSE both.rounds

ShareFrame(layers) ==
  LET start[l \in 1..(Len(layers) + 1)] ==
        IF l = 1 THEN [c \in Columns |-> 0]
        ELSE After(Chosen(layers[l - 1], start[l - 1]), start[l - 1])
      share(l, programs) ==
        [c \in Columns |-> ShareColumn(programs[c], start[l][c])]
  IN  PadFrame([l \in DOMAIN layers |-> share(l, Chosen(layers[l], start[l]))],
               start[Len(layers) + 1])
=============================================================================
