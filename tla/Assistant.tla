----------------------------- MODULE Assistant -----------------------------
(***************************************************************************)
(* PersistentAssistant of npu/gemma4/runtime.py: one request at a time is  *)
(* a Python generator that decodes speculatively.  The target model runs   *)
(* in a worker process that outlives requests (TargetWorker), the drafter  *)
(* on the NPU, of which the request holds a PacketSession; while it drafts, *)
(* a helper process keeps the GPU busy.  What the drafter proposes is any   *)
(* token: only its number and its place in the protocol matter here.       *)
(*                                                                         *)
(* The generator is suspended where it yields ("primed", "bonus", "chunk", *)
(* "final"); there the consumer resumes or closes it.  Another thread may  *)
(* set the cancel flag at any time, and the worker may die at any time, of *)
(* itself or by the timer that limits each reply.                          *)
(***************************************************************************)
EXTENDS TargetWorker, SequencesExt

CONSTANTS
  Tokens, Eog,  \* tokens, and those that end a generation
  Prompts,      \* token sequences a request may come with
  MaxTokens,    \* bound of max_new_tokens (64 in the code)
  MaxDepth      \* bound of the drafts in a round (4 in the code)

ASSUME AssistantAssumption ==
  /\ Tokens # {} /\ Eog \subseteq Tokens
  /\ \A p \in Prompts :
       p \in Seq(Tokens) /\ p # <<>> /\ Len(p) + MaxTokens <= Context
  /\ MaxTokens \in Nat \ {0} /\ MaxDepth \in Nat \ {0}
  /\ Context \in Nat
  /\ \A h \in BoundedSeq(Tokens, Context) : Predict(h) \in Tokens

None == [none |-> TRUE]

VARIABLES
  pc,          \* "idle" when no request holds _lock
  closed, cancel,
  worker,      \* memory of the target's process, None without one
  process,     \* self.gpu: "none", "runs", "dead", or "shut" when a
               \* failed close has already closed its pipes
  leased,      \* the request holds a PacketSession
  window,      \* the activity helper: "none", "idle", "open", or "lost"
  prompt, limit, depth,
  emitted, given, \* tokens of the request, and those the consumer has
  pending,     \* the target's next token
  proposals,
  verdict,     \* the target's choice after each verified token
  shared,      \* SharedState: the accepted rows, for the drafter
  late         \* history: chunks given since the request was cancelled

life   == <<closed, worker, process, leased, window>>
input  == <<prompt, limit, depth>>
output == <<emitted, given, late>>
round  == <<pending, proposals, verdict, shared>>
vars   == <<pc, cancel, life, input, output, round>>

Suspended == {"primed", "bonus", "chunk", "final"}
Running   == {"admit", "enter", "top", "draft", "join", "verify", "accept",
              "leave", "whole"}

Init ==
  /\ pc = "idle" /\ closed = FALSE /\ cancel = FALSE
  /\ worker = None /\ process = "none" /\ leased = FALSE /\ window = "none"
  /\ prompt = <<>> /\ limit = 0 /\ depth = 1
  /\ emitted = <<>> /\ given = <<>> /\ late = 0
  /\ pending = None /\ proposals = <<>> /\ verdict = <<>> /\ shared = <<>>

\* The generator is over: its locals and its PacketSession go with it.
Over ==
  /\ pc' = "idle" /\ leased' = FALSE
  /\ prompt' = <<>> /\ limit' = 0 /\ depth' = 1
  /\ emitted' = <<>> /\ given' = <<>> /\ late' = 0
  /\ pending' = None /\ proposals' = <<>> /\ verdict' = <<>> /\ shared' = <<>>

Ended(o) == o # <<>> /\ (o[Len(o)] \in Eog \/ Len(o) = limit)

Give(tokens) ==
  /\ given' = given \o tokens
  /\ late' = IF cancel THEN late + 1 ELSE late

-----------------------------------------------------------------------------
(* The consumer.                                                           *)

\* The generator is created and run to its first, hidden, yield.
Generate ==
  /\ ~ closed /\ pc = "idle"
  /\ pc' = "primed" /\ cancel' = FALSE
  /\ prompt' \in Prompts /\ limit' \in 1 .. MaxTokens
  /\ depth' \in 1 .. MaxDepth
  /\ UNCHANGED <<life, output, round>>

\* What each yield is followed by.
Resumed ==
  CASE pc = "primed" -> "admit"
    [] pc = "bonus"  -> IF cancel THEN "leave" ELSE "draft"
    [] pc = "chunk"  -> "top"

\* Drafting starts with a window of the helper, which is started if need be.
Pull ==
  /\ pc \in Suspended \ {"final"}
  /\ pc' = Resumed
  /\ window' = IF pc' = "draft" /\ window # "lost" THEN "open" ELSE window
  /\ UNCHANGED <<closed, worker, process, leased, cancel, input, output,
                 round>>

\* Closing the generator, or running it out, keeps the worker.
CloseStream ==
  /\ pc \in Suspended /\ Over
  /\ UNCHANGED <<closed, cancel, worker, process, window>>

Cancel ==
  /\ cancel' = TRUE
  /\ UNCHANGED <<pc, life, input, output, round>>

CloseWorker == worker' = None /\ process' = "none"
\* What was written to a process that had died stays in the pipe's buffer, so
\* that closing the pipe raises, once.
CloseRaises == process = "dead" /\ process' = "shut" /\ UNCHANGED worker

\* close(); Python refuses it while the generator executes.
Close ==
  /\ pc \in Suspended \cup {"idle"} /\ ~ closed
  /\ Over
  /\ window' = "none"
  /\ \/ CloseWorker /\ closed' = TRUE
     \/ CloseRaises /\ UNCHANGED closed
  /\ UNCHANGED cancel

-----------------------------------------------------------------------------
(* The generator.                                                          *)

\* Admission found another workload: the worker is kept.
Reject ==
  /\ pc = "admit" /\ Over
  /\ UNCHANGED <<closed, cancel, worker, process, window>>

\* A first prompt loads the worker with it, another is sent to it.
Prepared ==
  Prefill(IF worker = None THEN NewWorker(Len(prompt)) ELSE worker, prompt)

\* _prepare and SharedState.
Prepare ==
  /\ pc = "admit" /\ process \in {"none", "runs"}
  /\ pc' = "enter"
  /\ worker' = Prepared /\ process' = "runs"
  /\ shared' = worker'.mem /\ pending' = Predict(Ids(worker'.mem))
  /\ UNCHANGED <<closed, leased, window, cancel, input, output, proposals,
                 verdict>>

Enter ==
  /\ pc = "enter" /\ pc' = "top" /\ leased' = TRUE
  /\ UNCHANGED <<closed, worker, process, window, cancel, input, output,
                 round>>

\* Fault: a cancelled request goes on with another round.
ContinuesCancelled == Len(emitted) < limit
\* The loop's condition.
Continues == Len(emitted) < limit /\ ~ cancel

\* The target's own token, rendered and given at once unless it is the last.
Top ==
  /\ pc = "top"
  /\ IF ~ Continues
     THEN pc' = "leave" /\ UNCHANGED output
     ELSE /\ process = "runs"
          /\ emitted' = Append(emitted, pending)
          /\ IF Ended(emitted')
             THEN pc' = "leave" /\ UNCHANGED <<given, late>>
             ELSE pc' = "bonus" /\ Give(<<pending>>)
  /\ UNCHANGED <<life, cancel, input, round>>

\* Fault: the drafts are not limited to what may still be emitted.
MoreUnlimited == Len(proposals) + 1 < depth
\* Another draft is due after this one.
More == Len(proposals) + 1 < Least(depth, limit - Len(emitted))

\* The drafter needs the worker for the token's embedding.
Draft ==
  /\ pc = "draft" /\ window = "open" /\ process = "runs"
  /\ \E t \in Tokens : proposals' = Append(proposals, t)
  /\ pc' = IF More /\ ~ cancel THEN "draft" ELSE "join"
  /\ UNCHANGED <<life, cancel, input, output, pending, verdict, shared>>

\* Fault: the window is left open when drafting was cancelled.
JoinUnlessCancelled ==
  /\ pc = "join" /\ pc' = IF cancel THEN "leave" ELSE "verify"
  /\ window' = IF cancel THEN window ELSE "idle"
  /\ UNCHANGED <<closed, worker, process, leased, cancel, input, output,
                 round>>
\* The end of the with statement joins the window on every path.
Join ==
  /\ pc = "join" /\ pc' = IF cancel THEN "leave" ELSE "verify"
  /\ window' = "idle"
  /\ UNCHANGED <<closed, worker, process, leased, cancel, input, output,
                 round>>

Batch == <<emitted[Len(emitted)]>> \o proposals

Verify ==
  /\ pc = "verify" /\ process = "runs" /\ DecodeFits(worker, Batch)
  /\ pc' = "accept"
  /\ verdict' = Predictions(worker, Batch) /\ worker' = Decode(worker, Batch)
  /\ UNCHANGED <<closed, process, leased, window, cancel, input, output,
                 pending, proposals, shared>>

\* Drafts the target would have chosen itself.
Agreed ==
  Cardinality({n \in 1 .. Len(proposals) :
                 FirstOf(proposals, n) = FirstOf(verdict, n)})
\* Fault: tokens behind the end of the generation are kept.
AcceptedBeyondEog == Agreed
\* ... and those up to the first that ends the generation.
Accepted ==
  LET ends == {n \in 1 .. Agreed : proposals[n] \in Eog}
  IN  IF ends = {} THEN Agreed ELSE CHOOSE n \in ends : \A m \in ends : n <= m

Keep == 1 + Accepted

\* Fault: refused drafts stay in the target's memory.
KeptRowsAll == worker
\* The target forgets the drafts that were refused.
KeptRows ==
  IF Keep < Len(verdict) THEN Rollback(worker, Len(shared) + Keep) ELSE worker

Accept ==
  /\ pc = "accept" /\ process = "runs"
  /\ RollbackAllowed(worker, Len(shared) + Keep)
  /\ worker' = KeptRows
  /\ pending' = verdict[Keep]
  /\ shared' = shared \o FirstOf(Rows(Batch, "decode"), Keep)
  /\ emitted' = emitted \o FirstOf(proposals, Accepted)
  /\ Len(shared') = Len(prompt) + Len(emitted')
  /\ IF Accepted = 0 THEN pc' = "top" /\ UNCHANGED <<given, late>>
     ELSE IF Ended(emitted') THEN pc' = "leave" /\ UNCHANGED <<given, late>>
     ELSE pc' = "chunk" /\ Give(FirstOf(proposals, Accepted))
  /\ proposals' = <<>> /\ verdict' = <<>>
  /\ UNCHANGED <<closed, process, leased, window, cancel, input>>

\* The PacketSession's exit; a complete request renders all its tokens.
Leave ==
  /\ pc = "leave"
  /\ \/ Ended(emitted) /\ pc' = "whole" /\ leased' = FALSE
        /\ UNCHANGED <<input, output, round>>
     \/ ~ Ended(emitted) /\ Over
  /\ UNCHANGED <<closed, worker, process, window, cancel>>

\* The last chunk is given when the NPU is free.
Whole ==
  /\ pc = "whole" /\ process = "runs"
  /\ pc' = "final" /\ Give(SubSeq(emitted, Len(given) + 1, Len(emitted)))
  /\ UNCHANGED <<emitted, life, cancel, input, round>>

\* Fault: the answer of a worker that died is waited for.
RaisesAlive == pc \in Running /\ process # "dead"
Raises == pc \in Running

\* Anything may raise: the NPU, the worker, the helper, a check.  The worker
\* and the helper are closed, so that the next request starts new ones; one
\* that died may be left behind, and then fails the next request as well.
Fail ==
  /\ Raises /\ Over
  /\ CloseWorker \/ CloseRaises
  /\ window' \in {"none"} \cup {w \in {"lost"} : window \in {"idle", "open"}}
  /\ UNCHANGED <<closed, cancel>>

-----------------------------------------------------------------------------
Die ==
  /\ process = "runs" /\ process' = "dead" /\ worker' = None
  /\ UNCHANGED <<pc, cancel, closed, leased, window, input, output,
                 round>>

Closed == closed /\ UNCHANGED vars

Stream == \/ Prepare \/ Enter \/ Top \/ Draft \/ Join \/ Verify \/ Accept
          \/ Leave \/ Whole \/ Reject \/ Fail

Next ==
  \/ Generate \/ Pull \/ CloseStream \/ Cancel \/ Close
  \/ Prepare \/ Enter \/ Top \/ Draft \/ Join \/ Verify \/ Accept
  \/ Leave \/ Whole \/ Reject \/ Fail \/ Die \/ Closed

\* Replies are limited by a timer and dispatches by a timeout, so that the
\* generator's steps end; the consumer goes on pulling.
Fairness == WF_vars(Stream) /\ WF_vars(Pull \/ (pc = "final" /\ CloseStream))

Spec == Init /\ [][Next]_vars /\ Fairness

-----------------------------------------------------------------------------
Row == [id : Tokens, by : {"prefill", "decode"}]
Worker == [mem : Seq(Row), floor : Nat]

\* Every variable keeps its type.
TypeOK ==
  /\ pc \in {"idle"} \cup Suspended \cup Running
  /\ closed \in BOOLEAN /\ cancel \in BOOLEAN
  /\ worker \in Worker \cup {None}
  /\ process \in {"none", "runs", "dead", "shut"}
  /\ leased \in BOOLEAN /\ window \in {"none", "idle", "open", "lost"}
  /\ prompt \in Prompts \cup {<<>>}
  /\ limit \in 0 .. MaxTokens /\ depth \in 1 .. MaxDepth
  /\ emitted \in Seq(Tokens) /\ given \in Seq(Tokens) /\ late \in Nat
  /\ pending \in Tokens \cup {None} /\ proposals \in Seq(Tokens)
  /\ verdict \in Seq(Tokens) /\ shared \in Seq(Row)

\* The stream gives exactly the tokens the target would have chosen one by
\* one, whatever is proposed, cancelled, closed or killed, and says so with
\* its last chunk.
Finish ==
  IF given # <<>> /\ given[Len(given)] \in Eog THEN "eos"
  ELSE IF given # <<>> /\ Len(given) = limit THEN "length" ELSE "no"
G == INSTANCE Greedy WITH on <- pc # "idle", out <- given, finish <- Finish
ImplementsGreedy == G!Spec

\* The drafter's copy of the keys and values and the target's memory hold the
\* same rows, those of the prompt and of what has been accepted, at every
\* step between a preparation and the next verification.
SharedIsTarget ==
  /\ process = "runs"
  /\ pc \in {"enter", "top", "bonus", "draft", "join", "verify", "chunk"}
  =>
    /\ shared = worker.mem
    /\ Ids(shared) = prompt \o
         FirstOf(emitted, Len(emitted) - IF pc \in {"enter", "top", "chunk"}
                                         THEN 0 ELSE 1)

\* A verification never fails by the protocol's own doing: it fits into the
\* context, the rollback after it stays behind the prompt, and the accepted
\* rows are as many as the accepted tokens.
VerificationSound ==
  process = "runs" =>
  /\ pc = "verify" => DecodeFits(worker, Batch)
  /\ pc = "accept" =>
       /\ RollbackAllowed(worker, Len(shared) + Keep)
       /\ Len(shared) + Keep = Len(prompt) + Len(emitted) + Accepted

\* Between requests, and when the last chunk is given, the NPU is free and
\* no window of the helper is open; nor is one while the target verifies.
IdleReturned ==
  /\ pc \in {"idle", "final"} => ~ leased
  /\ window = "open" => pc \in {"draft", "join"}
  /\ closed => process = "none" /\ window = "none"

\* A request that is cancelled gives at most one chunk more.
CancelPrompt == late <= 1

\* A consumer that goes on pulling sees every stream end.
StreamEnds == pc # "idle" ~> pc = "idle"
=============================================================================
