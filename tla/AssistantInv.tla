---------------------------- MODULE AssistantInv ----------------------------
(***************************************************************************)
(* The inductive invariant of Assistant, in named parts.                   *)
(***************************************************************************)
EXTENDS Assistant

\* Where a request has a prepared prompt and goes on generating.
Known    == {"enter", "top", "chunk"}
Unknown  == {"bonus", "draft", "join", "verify", "accept"}
Decoding == Known \cup Unknown
Fresh    == {"idle", "primed", "admit", "enter"}

\* There is a memory of the target exactly while its process runs.
ProcessInv == process = "runs" <=> worker # None

\* A closed assistant has no request, no worker and no helper.
CloseInv == closed => pc = "idle" /\ process = "none" /\ window = "none"

\* Without a request nothing is left of the last one.
RequestInv ==
  /\ IF pc = "idle" THEN prompt = <<>> /\ limit = 0 /\ shared = <<>>
     ELSE prompt \in Prompts /\ limit \in 1 .. MaxTokens
  /\ pc \in Fresh => emitted = <<>> /\ given = <<>> /\ late = 0

\* The NPU is leased between Enter and the end of the loop, and the helper
\* has a window open only while drafting.
LeaseInv  == leased <=> pc \in (Decoding \ {"enter"}) \cup {"leave"}
WindowInv == window = "open" => pc \in {"draft", "join"}

\* The tokens of the request are the target's choices, within the limit, and
\* none but the last ends the generation.  While it goes on the consumer has
\* them all; the last chunk is what it has not been given.
OutputInv ==
  /\ G!IsGreedy(prompt, emitted) /\ Len(emitted) <= limit
  /\ \A i \in 1 .. Len(emitted) - 1 : emitted[i] \notin Eog
  /\ pc \in Decoding => ~ Ended(emitted) /\ given = emitted
  /\ pc = "leave" /\ ~ Ended(emitted) => given = emitted
  /\ pc = "whole" \/ (pc = "leave" /\ Ended(emitted)) =>
       /\ Ended(emitted)
       /\ Len(given) < Len(emitted) /\ given = FirstOf(emitted, Len(given))
  /\ pc = "final" => Ended(emitted) /\ given = emitted

\* A cancelled request has given its chunk when the loop looks next, or has
\* it still to give.
LateInv ==
  late # 0 => /\ late = 1 /\ cancel
              /\ \/ pc \in {"chunk", "top", "final"}
                 \/ pc = "leave" /\ ~ Ended(emitted)

\* What the target has seen, and what it chooses next.
TextInv ==
  /\ pc \in Unknown => emitted # <<>>
  /\ pc \in Decoding =>
       Ids(shared) = prompt \o
         FirstOf(emitted, Len(emitted) - IF pc \in Known THEN 0 ELSE 1)
  /\ pc \in Known => pending = Predict(prompt \o emitted)

\* The target's memory while a request goes on.
TargetInv ==
  process = "runs" /\ pc \in Decoding =>
    /\ worker.floor = Len(prompt)
    /\ worker.mem = IF pc = "accept" THEN shared \o Rows(Batch, "decode")
                    ELSE shared

\* No more is drafted than may be emitted behind the token the target chose.
ProposalsInv ==
  /\ pc \in Fresh \cup Known \cup {"bonus"} => proposals = <<>>
  /\ pc = "draft" => Len(proposals) < Least(depth, limit - Len(emitted))
  /\ pc \in {"join", "verify", "accept"} =>
       Len(proposals) <= limit - Len(emitted)

\* The verdict is the target's choice after each token of the batch.
VerdictInv ==
  pc = "accept" =>
    /\ Len(verdict) = Len(Batch)
    /\ \A i \in 1 .. Len(verdict) :
         verdict[i] = Predict(Ids(shared) \o FirstOf(Batch, i))

IInv ==
  /\ TypeOK /\ ProcessInv /\ CloseInv /\ RequestInv /\ LeaseInv
  /\ WindowInv /\ OutputInv /\ LateInv
  /\ TextInv /\ TargetInv /\ ProposalsInv /\ VerdictInv
=============================================================================
