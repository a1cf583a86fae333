------------------------------- MODULE Broker -------------------------------
(***************************************************************************)
(* The device owner of runtime/broker.py: class Broker.  Any thread may    *)
(* submit a call; one device thread picks calls, prepares them (context,   *)
(* instruction stream, input copy), starts them, waits for them and copies *)
(* their outputs back, software-pipelined so that call k+1 is prepared     *)
(* while call k is on the device.                                          *)
(*                                                                         *)
(* What is abstracted: a call's arguments (all calls of one xclbin share   *)
(* their shapes, the case in which they share BOs), the contents of a BO   *)
(* (it holds the call that copied into it last), statistics, timings.      *)
(***************************************************************************)
EXTENDS Integers, SequencesExt

CONSTANTS
  Clients,      \* connections that submit calls
  Xclbins,      \* the xclbins they name, one hardware context each
  Streams,      \* instruction streams, by SHA-256
  MaxContexts,  \* max_contexts of Broker.__init__
  Streak,       \* streak of Broker.__init__
  MaxCalls,     \* bound on the calls of one client
  Faults,       \* the backend operations that may fail
  None          \* no call, no context

FaultKinds ==
  {"open", "upload", "copyin", "start", "timeout", "wait", "copyout"}

Seqs  == 1 .. MaxCalls
Sides == {0, 1}
Call  == [client : Clients, seq : Seqs, xclbin : Xclbins, sha : Streams]
\* A picked call; side is meaningful once it is prepared.
Picked == [call : Call, side : Sides, jumped : BOOLEAN]

ASSUME BrokerAssumption ==
  /\ MaxContexts \in 1 .. 4
  /\ Streak \in Int
  /\ MaxCalls \in Nat
  /\ Faults \subseteq FaultKinds
  /\ None \notin Call /\ None \notin Picked /\ None \notin Xclbins
  /\ None \notin Clients \X Seqs

VARIABLES
  pending,   \* queue of submitted calls
  streams,   \* streams the broker keeps a copy of
  contexts,  \* open contexts, least recently used first
  ctx,       \* per xclbin: insts uploaded, parity of uses, BO sets' contents
  healthy, closing,
  current, runLen,
  pc,        \* the device thread
  nxt, running, waitOk,
  status,    \* a call's result and done event, as its submitter can see them
  sent,      \* calls a client has submitted
  skipped    \* history: calls started ahead of the one at the queue's head

broker == <<streams, healthy, closing, sent>>
vars == <<pending, streams, contexts, ctx, healthy, closing, current, runLen,
          pc, nxt, running, waitOk, status, sent, skipped>>

Answered == {"ok", "failed", "refused"}
OnDevice == {"running", "hung"}
Statuses == {"none", "queued", "executed"} \cup OnDevice \cup Answered

Id(c) == <<c.client, c.seq>>
Blank == [insts |-> {}, uses |-> 0, bo |-> [s \in Sides |-> None]]

Init ==
  /\ pending = <<>> /\ streams = {}
  /\ contexts = <<>> /\ ctx = [x \in Xclbins |-> Blank]
  /\ healthy = TRUE /\ closing = FALSE
  /\ current = None /\ runLen = 0
  /\ pc = "lock" /\ nxt = None /\ running = None /\ waitOk = TRUE
  /\ status = [k \in Clients \X Seqs |-> "none"]
  /\ sent = [c \in Clients |-> 0]
  /\ skipped = 0

-----------------------------------------------------------------------------
(* Any thread.                                                             *)

\* Variants with a planted fault stand before what they replace: here the
\* wake-up is forgotten.
NotifyLost == pc' = pc
\* cv.notify(): the device thread leaves cv.wait().
Notify == pc' = IF pc = "sleep" THEN "lock" ELSE pc

\* stream: what the message carries: nothing, the stream, or bytes that do
\* not match the hash.
Accepts(sha, stream) ==
  /\ healthy /\ ~closing
  /\ \/ stream = "stream"
     \/ stream = "nothing" /\ sha \in streams

Submit(c, x, sha, stream) ==
  LET call == [client |-> c, seq |-> sent[c] + 1, xclbin |-> x, sha |-> sha]
  IN  /\ sent[c] < MaxCalls
      /\ Accepts(sha, stream)
      /\ sent' = [sent EXCEPT ![c] = @ + 1]
      /\ pending' = Append(pending, call)
      /\ streams' = streams \cup {sha}
      /\ status' = [status EXCEPT ![Id(call)] = "queued"]
      /\ Notify
      /\ UNCHANGED <<contexts, ctx, healthy, closing, current, runLen, nxt,
                     running, waitOk, skipped>>

Refuse(c, sha, stream) ==
  /\ sent[c] < MaxCalls
  /\ ~Accepts(sha, stream)
  /\ sent' = [sent EXCEPT ![c] = @ + 1]
  /\ status' = [status EXCEPT ![<<c, sent[c] + 1>>] = "refused"]
  /\ UNCHANGED <<pending, streams, contexts, ctx, healthy, closing, current,
                 runLen, pc, nxt, running, waitOk, skipped>>

\* Fault: no notify.
CloseSilent ==
  /\ ~closing /\ closing' = TRUE
  /\ UNCHANGED <<pending, streams, contexts, ctx, healthy, current, runLen,
                 pc, nxt, running, waitOk, status, sent, skipped>>

Close ==
  /\ ~closing
  /\ closing' = TRUE
  /\ Notify
  /\ UNCHANGED <<pending, streams, contexts, ctx, healthy, current, runLen,
                 nxt, running, waitOk, status, sent, skipped>>

\* close() after thread.join(): every context and its BOs are released.
Release ==
  /\ closing /\ pc \in {"exit", "dead"}
  /\ contexts' = <<>> /\ ctx' = [x \in Xclbins |-> Blank]
  /\ pc' = "released"
  /\ UNCHANGED <<pending, streams, healthy, closing, current, runLen, nxt,
                 running, waitOk, status, sent, skipped>>

-----------------------------------------------------------------------------
(* The device thread, one action per step of _loop.                        *)

\* Fault: the clients of earlier calls are not remembered.
EligibleUnblocked ==
  {i \in 1 .. Len(pending) : pending[i].xclbin = current}

\* Calls for the current context that no earlier call of their client blocks.
Eligible ==
  {i \in 1 .. Len(pending) :
     /\ pending[i].xclbin = current
     /\ \A j \in 1 .. i - 1 : pending[j].client # pending[i].client}

\* _pick: the position of the call to take.
Pick ==
  IF /\ current # None /\ runLen < Streak
     /\ pending[1].xclbin # current
     /\ Eligible # {}
  THEN Min(Eligible)
  ELSE 1

Sleep ==
  /\ pc = "lock" /\ running = None /\ pending = <<>> /\ ~closing
  /\ pc' = "sleep"
  /\ UNCHANGED <<pending, contexts, ctx, current, runLen, nxt, running,
                 waitOk, status, skipped, broker>>

\* Fault: closing alone ends the loop.
ExitEarly ==
  /\ pc = "lock" /\ running = None /\ closing
  /\ pc' = "exit"
  /\ UNCHANGED <<pending, contexts, ctx, current, runLen, nxt, running,
                 waitOk, status, skipped, broker>>

Exit ==
  /\ pc = "lock" /\ running = None /\ pending = <<>> /\ closing
  /\ pc' = "exit"
  /\ UNCHANGED <<pending, contexts, ctx, current, runLen, nxt, running,
                 waitOk, status, skipped, broker>>

Take ==
  /\ pc = "lock" /\ healthy /\ pending # <<>>
  /\ nxt' = [call |-> pending[Pick], side |-> 0, jumped |-> Pick # 1]
  /\ pending' = RemoveAt(pending, Pick)
  /\ skipped' = IF Pick = 1 THEN 0 ELSE skipped
  /\ pc' = "prepare"
  /\ UNCHANGED <<contexts, ctx, current, runLen, running, waitOk, status,
                 broker>>

\* Fault: the queue is emptied without answering its calls.
TakeNoneSilent ==
  /\ pc = "lock"
  /\ \/ healthy /\ pending = <<>> /\ running # None
     \/ ~healthy /\ (pending # <<>> \/ running # None)
  /\ pending' = <<>> /\ skipped' = 0
  /\ pc' = "wait"
  /\ UNCHANGED <<contexts, ctx, current, runLen, nxt, running, waitOk,
                 status, broker>>

\* Nothing to take, or nothing that may still be started.
TakeNone ==
  /\ pc = "lock"
  /\ \/ healthy /\ pending = <<>> /\ running # None /\ UNCHANGED status
     \/ /\ ~healthy /\ (pending # <<>> \/ running # None)
        /\ status' = [k \in DOMAIN status |->
             IF \E i \in 1 .. Len(pending) : Id(pending[i]) = k
             THEN "failed" ELSE status[k]]
  /\ pending' = <<>>
  /\ skipped' = 0
  /\ pc' = "wait"
  /\ UNCHANGED <<contexts, ctx, current, runLen, nxt, running, waitOk,
                 broker>>

-----------------------------------------------------------------------------
(* _prepare and _context for the picked call.                              *)

X    == nxt.call.xclbin
Hit  == Contains(contexts, X)
\* Fault: one context more than the limit.
FullLate == ~Hit /\ Len(contexts) > MaxContexts
Full == ~Hit /\ Len(contexts) >= MaxContexts

\* Fault: the two most recent contexts are kept, as if both held a live call.
VictimsSparingTwo == 1 .. Len(contexts) - 2
\* Positions that may be evicted: never the running call's context.
Victims ==
  {i \in 1 .. Len(contexts) :
     running # None => contexts[i] # running.call.xclbin}
Victim == Min(Victims)
Stuck  == Full /\ Victims = {}

\* contexts and their state once a victim has made room.
Roomy ==
  IF Full THEN RemoveAt(contexts, Victim) ELSE contexts
Cleared ==
  [x \in Xclbins |-> IF Full /\ x = contexts[Victim] THEN Blank ELSE ctx[x]]

\* contexts with X in it as the most recently used.
Opened ==
  IF Hit
  THEN Append(RemoveAt(contexts,
                       CHOOSE i \in 1 .. Len(contexts) : contexts[i] = X), X)
  ELSE Append(Roomy, X)

\* Faults: the use count is not advanced, or not taken modulo 2.
LoadedOneSet(data) ==
  LET side == Cleared[X].uses
  IN  [Cleared EXCEPT ![X] =
         [insts |-> @.insts \cup {nxt.call.sha}, uses |-> side,
          bo |-> [@.bo EXCEPT ![side] = data]]]
\* X's state once the stream is uploaded and a BO set taken, holding data.
Loaded(data) ==
  LET side == Cleared[X].uses
  IN  [Cleared EXCEPT ![X] =
         [insts |-> @.insts \cup {nxt.call.sha},
          uses  |-> 1 - side,
          bo    |-> [@.bo EXCEPT ![side] = data]]]

Prepare ==
  /\ pc = "prepare" /\ ~Stuck
  /\ contexts' = Opened
  /\ ctx' = Loaded(Id(nxt.call))
  /\ nxt' = [nxt EXCEPT !.side = Cleared[X].uses]
  /\ pc' = "wait"
  /\ UNCHANGED <<pending, current, runLen, running, waitOk, status, skipped,
                 broker>>

\* Any exception: the call is answered with it, whatever was changed before
\* it was raised stays.
PrepareFails ==
  /\ pc = "prepare"
  /\ \/ Stuck /\ UNCHANGED <<contexts, ctx>>
     \/ /\ "open" \in Faults /\ ~Hit /\ ~Stuck
        /\ contexts' = Roomy /\ ctx' = Cleared
     \/ /\ "upload" \in Faults /\ ~Stuck
        /\ nxt.call.sha \notin Cleared[X].insts
        /\ contexts' = Opened /\ ctx' = Cleared
     \/ /\ "copyin" \in Faults /\ ~Stuck
        /\ contexts' = Opened
        /\ \E data \in {Id(nxt.call), Cleared[X].bo[Cleared[X].uses]} :
             ctx' = Loaded(data)
  /\ status' = [status EXCEPT ![Id(nxt.call)] = "failed"]
  /\ nxt' = None
  /\ pc' = "wait"
  /\ UNCHANGED <<pending, current, runLen, running, waitOk, skipped, broker>>

-----------------------------------------------------------------------------
(* _wait, _start, _finish.                                                 *)

NoWait ==
  /\ pc = "wait" /\ running = None
  /\ waitOk' = TRUE
  /\ pc' = "launch"
  /\ UNCHANGED <<pending, contexts, ctx, current, runLen, nxt, running,
                 status, skipped, broker>>

Wait ==
  /\ pc = "wait" /\ running # None
  /\ waitOk' = TRUE
  /\ status' = [status EXCEPT ![Id(running.call)] = "executed"]
  /\ pc' = "launch"
  /\ UNCHANGED <<pending, contexts, ctx, current, runLen, nxt, running,
                 skipped, broker>>

\* Fault: the broker stays healthy.
WaitTimesOutUnnoticed ==
  /\ "timeout" \in Faults
  /\ pc = "wait" /\ running # None
  /\ waitOk' = FALSE
  /\ status' = [status EXCEPT ![Id(running.call)] = "hung"]
  /\ pc' = "launch"
  /\ UNCHANGED <<pending, contexts, ctx, current, runLen, nxt, running,
                 skipped, broker>>

\* The dispatch is not complete within the call's timeout_ms: the device may
\* still be working on it.
WaitTimesOut ==
  /\ "timeout" \in Faults
  /\ pc = "wait" /\ running # None
  /\ waitOk' = FALSE
  /\ healthy' = FALSE
  /\ status' = [status EXCEPT ![Id(running.call)] = "hung"]
  /\ pc' = "launch"
  /\ UNCHANGED <<pending, streams, contexts, ctx, closing, current, runLen,
                 nxt, running, sent, skipped>>

\* backend.wait raises: nothing in _loop catches it, the thread ends.
WaitRaises ==
  /\ "wait" \in Faults
  /\ pc = "wait" /\ running # None
  /\ pc' = "dead"
  /\ UNCHANGED <<pending, contexts, ctx, current, runLen, nxt, running,
                 waitOk, status, skipped, broker>>

\* Fault: calls of the same context are not counted.
SwitchToUncounted(x) ==
  /\ current' = x
  /\ runLen' = IF current = x THEN runLen ELSE 1
\* current and run_len are set before backend.start.
SwitchTo(x) ==
  /\ current' = x
  /\ runLen' = IF current = x THEN runLen + 1 ELSE 1

\* Fault: health is not looked at again after the wait.
StartUnchecked ==
  /\ pc = "launch" /\ nxt # None
  /\ SwitchTo(X)
  /\ status' = [status EXCEPT ![Id(nxt.call)] = "running"]
  /\ skipped' = IF nxt.jumped THEN skipped + 1 ELSE skipped
  /\ pc' = "finish"
  /\ UNCHANGED <<pending, contexts, ctx, nxt, running, waitOk, broker>>

Start ==
  /\ pc = "launch" /\ nxt # None /\ healthy
  /\ SwitchTo(X)
  /\ status' = [status EXCEPT ![Id(nxt.call)] = "running"]
  /\ skipped' = IF nxt.jumped THEN skipped + 1 ELSE skipped
  /\ pc' = "finish"
  /\ UNCHANGED <<pending, contexts, ctx, nxt, running, waitOk, broker>>

\* backend.start raises: the thread ends.
StartRaises ==
  /\ "start" \in Faults
  /\ pc = "launch" /\ nxt # None /\ healthy
  /\ SwitchTo(X)
  /\ pc' = "dead"
  /\ UNCHANGED <<pending, contexts, ctx, nxt, running, waitOk, status,
                 skipped, broker>>

NoStart ==
  /\ pc = "launch"
  /\ \/ nxt = None /\ UNCHANGED status
     \/ /\ nxt # None /\ ~healthy
        /\ status' = [status EXCEPT ![Id(nxt.call)] = "failed"]
  /\ nxt' = None
  /\ pc' = "finish"
  /\ UNCHANGED <<pending, contexts, ctx, current, runLen, running, waitOk,
                 skipped, broker>>

Finish ==
  /\ pc = "finish"
  /\ \/ running = None /\ UNCHANGED status
     \/ /\ running # None
        /\ \E r \in {"ok", "failed"} :
             /\ r = "ok" => waitOk
             /\ r = "failed" => ~waitOk \/ "copyout" \in Faults
             /\ status' = [status EXCEPT ![Id(running.call)] = r]
  /\ running' = nxt /\ nxt' = None
  /\ pc' = "lock"
  /\ UNCHANGED <<pending, contexts, ctx, current, runLen, waitOk, skipped,
                 broker>>

-----------------------------------------------------------------------------

DeviceThread ==
  \/ Sleep \/ Exit \/ Take \/ TakeNone
  \/ Prepare \/ PrepareFails
  \/ NoWait \/ Wait \/ WaitTimesOut \/ WaitRaises
  \/ Start \/ StartRaises \/ NoStart
  \/ Finish

Submitters ==
  \E c \in Clients, sha \in Streams,
     stream \in {"nothing", "stream", "corrupt"} :
    \/ \E x \in Xclbins : Submit(c, x, sha, stream)
    \/ Refuse(c, sha, stream)

\* close() has returned; later submissions are refused.
Released == pc = "released" /\ UNCHANGED vars

Next == Submitters \/ Close \/ Release \/ DeviceThread \/ Released

Spec == Init /\ [][Next]_vars

\* The threads run: backend.wait returns within the call's timeout_ms, so
\* every step of the device thread ends; close() continues after its join.
FairSpec == Spec /\ WF_vars(DeviceThread) /\ WF_vars(Release)
-----------------------------------------------------------------------------
(* Properties.                                                             *)

Positions == 1 .. Len(pending)
\* The picked calls that own device resources: prepared, not yet finished.
Live ==
  {p \in {running} \cup (IF pc \in {"wait", "launch", "finish"}
                         THEN {nxt} ELSE {}) : p # None}

TypeOK ==
  /\ pending \in Seq(Call)
  /\ streams \in SUBSET Streams
  /\ contexts \in Seq(Xclbins)
  /\ ctx \in [Xclbins -> [insts : SUBSET Streams, uses : Sides,
                          bo : [Sides -> (Clients \X Seqs) \cup {None}]]]
  /\ healthy \in BOOLEAN /\ closing \in BOOLEAN
  /\ current \in Xclbins \cup {None}
  /\ runLen \in Nat
  /\ pc \in {"lock", "sleep", "prepare", "wait", "launch", "finish",
             "exit", "dead", "released"}
  /\ nxt \in Picked \cup {None}
  /\ running \in Picked \cup {None}
  /\ waitOk \in BOOLEAN
  /\ status \in [Clients \X Seqs -> Statuses]
  /\ sent \in [Clients -> 0 .. MaxCalls]
  /\ skipped \in Nat

\* "The two live calls never share a buffer" (broker.py, Overlap): the BO set
\* of a running or prepared call holds that call's data until its outputs are
\* copied back, whatever else was prepared, failed or evicted meanwhile.
LiveBuffersPrivate ==
  pc # "released" =>
    \A p \in Live : ctx[p.call.xclbin].bo[p.side] = Id(p.call)

\* At most max_contexts contexts are open, none twice, and no eviction takes
\* the context, or the uploaded stream, of a running or prepared call.
LiveContextsOpen ==
  /\ Len(contexts) <= MaxContexts
  /\ \A i, j \in 1 .. Len(contexts) : contexts[i] = contexts[j] => i = j
  /\ pc # "released" =>
       \A p \in Live : /\ Contains(contexts, p.call.xclbin)
                       /\ p.call.sha \in ctx[p.call.xclbin].insts

\* "Calls from one client always keep their order": whatever _pick takes out
\* of the middle of the queue, no call is behind a later one of its client.
ClientOrder ==
  /\ \A i, j \in Positions :
       i < j /\ pending[i].client = pending[j].client
         => pending[i].seq < pending[j].seq
  /\ \A p \in {nxt, running} \ {None}, i \in Positions :
       p.call.client = pending[i].client => p.call.seq < pending[i].seq
  /\ nxt # None /\ running # None /\ nxt.call.client = running.call.client
       => running.call.seq < nxt.call.seq

\* The streak bounds how long the oldest queued call is passed over: fewer
\* than streak calls start ahead of it once it heads the queue.
HeadNotStarved == skipped = 0 \/ skipped < Streak

\* No call is lost or duplicated: a call is waiting for its answer exactly
\* while it is at one place of the queue or in the device thread's hands.
CallsAccounted ==
  /\ \A i, j \in Positions : Id(pending[i]) = Id(pending[j]) => i = j
  /\ pc # "dead" /\ pc # "released" =>
       \A k \in Clients \X Seqs :
         status[k] \in {"queued", "running", "executed", "hung"} <=>
           \/ \E i \in Positions : Id(pending[i]) = k
           \/ \E p \in {nxt, running} \ {None} : Id(p.call) = k

\* The device thread returns, and lets close() release the contexts, only
\* after every accepted call has been answered.
ExitDrained ==
  pc = "exit" =>
    \A k \in Clients \X Seqs : status[k] \in Answered \cup {"none"}

\* "At most max_contexts contexts open, least recently used evicted": the call
\* that is prepared while another runs finds its own context, room for one, or
\* one that may go, so that without backend faults no accepted call fails.
RoomForContext == pc = "prepare" => ~Stuck

\* After a timed-out dispatch the device still owns its BOs: no call is
\* started and no context or BO is touched until close() releases them.
UnhealthyLeavesDeviceAlone ==
  [][~healthy => /\ \A k \in Clients \X Seqs :
                      status'[k] = "running" => status[k] = "running"
                 /\ pc' = "released" \/ UNCHANGED <<contexts, ctx>>]_vars

\* Every accepted call is answered, closing or not, healthy or not.
AcceptedAnswered ==
  \A k \in Clients \X Seqs :
    status[k] = "queued" ~> status[k] \in Answered

\* close() returns, whatever the device thread was doing.
CloseReturns == closing ~> pc = "released"

\* The broker implements the call service.
Service == INSTANCE CallService
ImplementsService == Service!Spec
=============================================================================
