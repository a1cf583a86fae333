---------------------------- MODULE TargetWorker ----------------------------
(***************************************************************************)
(* The GPU worker process of tools/ggml_gpu_target/worker.cpp: what its    *)
(* operations 1 (verify), 2 (rollback), 4 and 7 (prefill) do to the target *)
(* model's memory.  A row is one position of the memory: the token there,  *)
(* and whether a prefill or a verification computed it; that the backend's *)
(* arithmetic may differ with the size of a batch is left out.             *)
(***************************************************************************)
EXTENDS Integers, Sequences, FiniteSets

CONSTANTS
  Predict(_),  \* the model's choice after a history of tokens
  Context      \* positions of the memory

Least(a, b)    == IF a <= b THEN a ELSE b
FirstOf(s, n)  == SubSeq(s, 1, n)

Ids(rows)     == [i \in 1 .. Len(rows) |-> rows[i].id]
Rows(ids, by) == [i \in 1 .. Len(ids) |-> [id |-> ids[i], by |-> by]]

\* mem: llama's memory, as long as position.  floor: prefix_floor.
NewWorker(n) == [mem |-> <<>>, floor |-> n]

\* A new prompt in a cleared memory: operations 4 and 7.
Prefill(w, ids) ==
  [w EXCEPT !.mem = Rows(ids, "prefill"), !.floor = Len(ids)]

\* Operation 1: the batch's rows, and after each the model's choice.
Decode(w, ids) == [w EXCEPT !.mem = @ \o Rows(ids, "decode")]
Predictions(w, ids) ==
  [i \in 1 .. Len(ids) |-> Predict(Ids(w.mem) \o FirstOf(ids, i))]
DecodeFits(w, ids) == Len(w.mem) + Len(ids) <= Context

\* Operation 2: what is behind position n is removed; when it is refused.
Rollback(w, n) == [w EXCEPT !.mem = FirstOf(@, n)]
RollbackAllowed(w, n) == w.floor <= n /\ n <= Len(w.mem)
=============================================================================
