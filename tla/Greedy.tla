------------------------------- MODULE Greedy -------------------------------
(***************************************************************************)
(* What a stream of the Gemma 4 assistant promises its consumer, without   *)
(* drafts, workers or caches: the tokens are those the target model would  *)
(* have chosen one at a time, they come in order, and the stream that ends *)
(* by itself has ended at the first end-of-generation token or at the      *)
(* limit.  A stream that is cancelled, closed or fails just stops.         *)
(***************************************************************************)
EXTENDS Integers, Sequences, SequencesExt

CONSTANTS
  Tokens,
  Eog,         \* tokens that end a generation
  Predict(_),  \* the target's choice after a history of tokens
  Prompts,
  MaxTokens    \* bound of max_new_tokens

VARIABLES
  on,      \* a stream is open
  prompt, limit,
  out,     \* what the consumer has been given
  finish   \* why it ended by itself: "eos", "length", or "no"

vars == <<on, prompt, limit, out, finish>>

\* Every token of o is the target's choice after the prompt and those before.
IsGreedy(p, o) ==
  \A i \in 1 .. Len(o) : o[i] = Predict(p \o SubSeq(o, 1, i - 1))

\* How o ends a stream of n tokens, if it does.
Ending(o, n) ==
  IF o # <<>> /\ o[Len(o)] \in Eog THEN "eos"
  ELSE IF Len(o) = n THEN "length" ELSE "no"

Init ==
  /\ on = FALSE /\ prompt = <<>> /\ limit = 0
  /\ out = <<>> /\ finish = "no"

Open ==
  /\ ~ on /\ on'
  /\ prompt' \in Prompts /\ limit' \in 1 .. MaxTokens
  /\ UNCHANGED <<out, finish>>

\* One chunk of one token or more.
Emit ==
  /\ on /\ finish = "no"
  /\ IsPrefix(out, out') /\ out' # out
  /\ IsGreedy(prompt, out') /\ Len(out') <= limit
  /\ \A i \in 1 .. Len(out') - 1 : out'[i] \notin Eog
  /\ finish' = Ending(out', limit)
  /\ UNCHANGED <<on, prompt, limit>>

Stop ==
  /\ on /\ on' = FALSE
  /\ prompt' = <<>> /\ limit' = 0
  /\ out' = <<>> /\ finish' = "no"

Next == Open \/ Emit \/ Stop

Spec == Init /\ [][Next]_vars
=============================================================================
