------------------------------ MODULE BrokerInv ------------------------------
(***************************************************************************)
(* The inductive invariant behind the safety properties of Broker: where   *)
(* the device thread is determines what it holds, what its calls' status   *)
(* is, and which BO set the next call of a context will take.              *)
(***************************************************************************)
EXTENDS Broker

\* What the device thread holds at each step of its loop.
ControlInv ==
  /\ pc = "prepare" => nxt # None
  /\ pc \in {"lock", "sleep", "exit"} => nxt = None
  /\ pc \in {"sleep", "exit"} => running = None /\ pending = <<>>
  /\ pc = "exit" => closing
  /\ ~healthy => pc # "prepare"
  /\ pc \in {"launch", "finish"} /\ ~waitOk => ~healthy
  /\ pc = "finish" /\ nxt # None => healthy

\* Numbers are handed out in order, so that nothing in hand is unsent.
SentInv ==
  /\ \A i \in Positions : pending[i].seq <= sent[pending[i].client]
  /\ \A p \in {nxt, running} \ {None} : p.call.seq <= sent[p.call.client]

\* The status of the calls in the device thread's hands.
StatusInv ==
  /\ \A k \in Clients \X Seqs : status[k] = "none" <=> k[2] > sent[k[1]]
  /\ \A i \in Positions : status[Id(pending[i])] = "queued"
  /\ nxt # None =>
       /\ pc \in {"prepare", "wait", "launch"} =>
            status[Id(nxt.call)] = "queued"
       /\ pc = "finish" => status[Id(nxt.call)] = "running"
  /\ running # None =>
       /\ pc \in {"lock", "prepare", "wait"} =>
            status[Id(running.call)] = "running"
       /\ pc \in {"launch", "finish"} =>
            status[Id(running.call)] = IF waitOk THEN "executed" ELSE "hung"

\* No call outside the queue and the thread's hands is waited for.
HeldInv ==
  pc \notin {"dead", "released"} =>
    \A k \in Clients \X Seqs :
      status[k] \in {"queued", "executed"} \cup OnDevice =>
        \/ \E i \in Positions : Id(pending[i]) = k
        \/ \E p \in {nxt, running} \ {None} : Id(p.call) = k

\* The next call of a live call's context takes the other BO set.
TurnInv ==
  /\ running # None /\ pc \in {"lock", "prepare"} =>
       ctx[running.call.xclbin].uses # running.side
  /\ nxt # None /\ pc \in {"wait", "launch", "finish"} =>
       ctx[nxt.call.xclbin].uses # nxt.side

\* A call may be passed over only within the current context's streak.
SkipInv ==
  /\ skipped = 0 \/ (current # None /\ skipped < runLen)
  /\ skipped = 0 \/ runLen <= Streak
  /\ nxt # None /\ nxt.jumped /\ pc \in {"prepare", "wait", "launch"} =>
       current = nxt.call.xclbin /\ runLen < Streak
  /\ nxt # None /\ ~nxt.jumped /\ pc \in {"prepare", "wait", "launch"} =>
       skipped = 0
  /\ current # None => runLen > 0

IInv ==
  /\ TypeOK /\ ControlInv /\ SentInv /\ StatusInv /\ HeldInv /\ ClientOrder
  /\ LiveContextsOpen /\ LiveBuffersPrivate /\ TurnInv /\ SkipInv
=============================================================================
