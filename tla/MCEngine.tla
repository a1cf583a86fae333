------------------------------ MODULE MCEngine ------------------------------
(***************************************************************************)
(* Frames of two columns for EngineSequence, in the item orders that       *)
(* compiler/engine_schedule.py emits: schedule_layer_coarse (drain ahead   *)
(* of the fills of its rounds, one weight task for many rounds) and the    *)
(* per-round schedule (a weight task a round, four fills an item, a drain  *)
(* behind two rounds).  Cells stand for workspace regions; layers reuse    *)
(* the regions of earlier ones, and a fill may read past its input.        *)
(***************************************************************************)
EXTENDS StreamShare, EngineInv

\* A weight object is given by its activations: TRUE emits an output.
Weights(objects, hold) ==
  [ch |-> "w", parts |-> <<{}>>, hold |-> hold, gives |-> 0, pos |-> <<>>,
   load |-> [ends |-> [n \in DOMAIN objects |->
                         Len(FlattenSeq(SubSeq(objects, 1, n)))],
             emits |-> FlattenSeq(objects)]]
Fill(cells) == [ch |-> "a", parts |-> <<cells>>, hold |-> 0,
                gives |-> 1, load |-> 1, pos |-> <<>>]
Fills(quad) == [ch |-> "a", parts |-> quad, hold |-> 0,
                gives |-> 1, load |-> 1, pos |-> <<>>]
Box(cells, n) == [ch |-> "a", parts |-> <<cells>>, hold |-> 0,
                  gives |-> n, load |-> n, pos |-> <<>>]
Drain(cells, rounds, hold) == [ch |-> "o", parts |-> <<cells>>, hold |-> hold,
                               gives |-> 0, load |-> rounds, pos |-> <<>>]

\* One chunk: an object whose every activation emits an output.
Single(n) == <<[k \in 1..n |-> TRUE]>>
\* n chunks a round: an object each, the last one emits.
Chunks(n) == [k \in 1..n |-> <<k = n>>]

FillOf(cells, k) == [Fill(cells) EXCEPT !.load = k]

\* Coarse, one chunk: a weight task for the layer, a drain ahead of each round.
CoarseSingle(rounds) ==
  <<Weights(Single(Len(rounds)), Len(rounds))>> \o
  FlattenSeq([k \in DOMAIN rounds |->
                <<Drain(rounds[k][2], 1, 1), Fill(rounds[k][1])>>])

\* Coarse, several chunks: the weights repeated for the rounds, one drain for
\* the run ahead of all its fills.
CoarseChunks(rounds, out, n) ==
  <<Weights(FlattenSeq([k \in DOMAIN rounds |-> Chunks(n)]), n * Len(rounds)),
    Drain(out, Len(rounds), n * Len(rounds))>> \o
  FlattenSeq([k \in DOMAIN rounds |->
                [j \in 1..n |-> Fill(rounds[k])]])

\* Per round: weights, a fill for each core; two rounds' outputs in one drain.
PerRound(rounds, out) ==
  FlattenSeq([k \in DOMAIN rounds |->
                <<Weights(Chunks(1), 1),
                  Fills([j \in 1..4 |-> rounds[k]])>>]) \o
  <<Drain(out, Len(rounds), 0)>>

\* Per round, the weights of all its chunks in one task.
PerRun(in, out, n) ==
  <<Weights(Chunks(n), n)>> \o [k \in 1..n |-> Fill(in)]
  \o <<Drain(out, 1, 0)>>

\* Layer 2 drains over layer 1's input while its own fills read past theirs.
Coarse ==
  << <<CoarseSingle(<< <<{1}, {3}>>, <<{1, 2}, {3}>> >>),
       CoarseSingle(<< <<{1, 2}, {4}>> >>)>>,
     <<CoarseChunks(<<{3, 4}>>, {1}, 2),
       CoarseChunks(<<{4, 2}, {4}>>, {2}, 1)>>,
     <<CoarseSingle(<< <<{1}, {4}>> >>),
       CoarseSingle(<< <<{2}, {3}>> >>)>> >>

\* Four fills an activation and a drain behind two rounds; the second column
\* has no part in the second layer.
Rounds == << <<PerRound(<<{1}, {1, 2}>>, {3}), PerRound(<<{2}>>, {4})>>,
             <<PerRound(<<{3, 4}>>, {1}), <<>> >> >>

\* Two fills and a box of three activations on one weight task.
Boxes == << <<<<Weights(Chunks(5), 5), Fill({1}), Fill({1}), Box({1}, 3),
                Drain({2}, 1, 0)>>,
              <<Weights(Chunks(2), 2), Fill({1}), Fill({1}),
                Drain({3}, 1, 0)>> >> >>

\* Layer 2 reads past its input into cell 1, which layer 1 reads in the same
\* column, and drains over it in the other.
Hidden ==
  << <<CoarseSingle(<< <<{1}, {3}>> >>), CoarseSingle(<< <<{2}, {4}>> >>)>>,
     <<CoarseSingle(<< <<{5, 1}, {6}>> >>),
       CoarseSingle(<< <<{5}, {7}>>, <<{5}, {1}>> >>)>> >>

\* One weight task for five chunks, as the emitter's offline test has it.
Run == << <<PerRun({1}, {2}, 5), PerRun({1}, {3}, 2)>> >>

\* One weight task for three rounds, each drain ahead of its fill.
Ahead == << <<CoarseSingle(<< <<{1}, {2}>>, <<{1}, {3}>>, <<{1}, {4}>> >>),
              CoarseSingle(<< <<{1}, {5}>> >>)>> >>

\* The same, without replays (a weight task a round) and with (one for all):
\* every round's fill has n quads, and the weights an object for each.
RoundsOf(rounds, out, n) ==
  <<Drain(out, Len(rounds), Len(rounds))>> \o
  FlattenSeq([k \in DOMAIN rounds |->
                <<Weights(Chunks(n), 1), FillOf(rounds[k], n)>>])
ReplayOf(rounds, out, n) ==
  <<Weights(FlattenSeq([k \in DOMAIN rounds |-> Chunks(n)]), Len(rounds)),
    Drain(out, Len(rounds), Len(rounds))>> \o
  [k \in DOMAIN rounds |-> FillOf(rounds[k], n)]

Both(program) == [replay |-> program, rounds |-> program]

\* A layer of small weight tasks, one whose replay fits buffer B, and a column
\* without activations.
Short ==
  <<Both(<<CoarseSingle([k \in 1..2 |-> <<{1}, {3}>>]),
           CoarseSingle([k \in 1..4 |-> <<{1}, {4}>>])>>),
    [replay |-> <<ReplayOf(<<{3}, {3}>>, {2}, 2), <<>> >>,
     rounds |-> <<RoundsOf(<<{3}, {3}>>, {2}, 2), <<>> >>]>>

\* A replay that does not fit: nine quads, two of them on the weight channel.
Long ==
  <<Both(<<CoarseSingle(<< <<{1}, {3}>> >>), <<>> >>),
    [replay |-> <<ReplayOf(<<{3}, {4}, {4}>>, {2}, 3), <<>> >>,
     rounds |-> <<RoundsOf(<<{3}, {4}, {4}>>, {2}, 3), <<>> >>]>>

\* Two dispatches of a frame with stream sharing.
Dispatched(layers) ==
  LET shared == ShareFrame(layers)
  IN  [frame |-> shared.frame \o shared.frame, overlap |-> FALSE, batch |-> 2,
       budget |-> 14, depth |-> 4, share |-> shared.share]

Setting(frame, overlap, batch, budget) ==
  [frame |-> frame, overlap |-> overlap, batch |-> batch, budget |-> budget,
   depth |-> 4, share |-> <<>>]

\* The limits of a build (14 descriptors, 4 starts), a budget that binds, and
\* the cadence the emitter refuses.
MCSettings ==
  {Setting(f, o, 2, 14) : f \in {Coarse, Rounds}, o \in BOOLEAN}
  \cup {Setting(Rounds, TRUE, 3, 14),
        Setting(Hidden, TRUE, 2, 14), Setting(Boxes, FALSE, 2, 14),
        Setting(Run, FALSE, 2, 3), Setting(Rounds, FALSE, 5, 14),
        Dispatched(Short), Dispatched(Long)}

MCTight == {Setting(Ahead, FALSE, 2, 4)}

\* Every build checks what stream sharing made of its frame
\* (check_stream_share, engine_compile.py:685).
ASSUME SharedFrames == LaidOut

=============================================================================
