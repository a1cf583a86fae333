---------------------------- MODULE CallService ----------------------------
(***************************************************************************)
(* What the broker promises its clients, with no queue, context, buffer or *)
(* thread in sight: every call is refused at once or queued; the calls of  *)
(* one client start in the order they were submitted; one call has the     *)
(* device at a time; a call is answered once and its answer is final; and  *)
(* once a call has not come back from the device nothing is started again. *)
(***************************************************************************)
EXTENDS Integers

CONSTANTS Clients, MaxCalls

VARIABLES
  status,   \* of each call <<client, number>>
  sent,     \* calls each client has made
  healthy   \* no call has failed to come back

vars == <<status, sent, healthy>>

Calls == Clients \X (1 .. MaxCalls)
Is(k, s) == status[k] = s
Become(k, s) == status' = [status EXCEPT ![k] = s]

Init ==
  /\ status = [k \in Calls |-> "none"]
  /\ sent = [c \in Clients |-> 0]
  /\ healthy = TRUE

Request(c) ==
  /\ sent[c] < MaxCalls
  /\ sent' = [sent EXCEPT ![c] = @ + 1]
  /\ \/ healthy /\ Become(<<c, sent[c] + 1>>, "queued")
     \/ Become(<<c, sent[c] + 1>>, "refused")
  /\ UNCHANGED healthy

Start(k) ==
  /\ healthy /\ Is(k, "queued")
  /\ \A j \in Calls : ~Is(j, "running")
  /\ \A n \in 1 .. k[2] - 1 : ~Is(<<k[1], n>>, "queued")
  /\ Become(k, "running")
  /\ UNCHANGED <<sent, healthy>>

Return(k) ==
  /\ Is(k, "running")
  /\ \/ Become(k, "executed") /\ UNCHANGED healthy
     \/ Become(k, "hung") /\ healthy' = FALSE
  /\ UNCHANGED sent

Answer(k) ==
  /\ \/ Is(k, "executed") /\ \E r \in {"ok", "failed"} : Become(k, r)
     \/ Is(k, "hung") /\ Become(k, "failed")
  /\ UNCHANGED <<sent, healthy>>

\* Calls that will not run are answered with an error.
Drop(K) ==
  /\ \A k \in K : Is(k, "queued")
  /\ status' = [k \in Calls |-> IF k \in K THEN "failed" ELSE status[k]]
  /\ UNCHANGED <<sent, healthy>>

Next ==
  \/ \E c \in Clients : Request(c)
  \/ \E k \in Calls : Start(k) \/ Return(k) \/ Answer(k)
  \/ \E K \in SUBSET Calls : Drop(K)

Spec == Init /\ [][Next]_vars
=============================================================================
