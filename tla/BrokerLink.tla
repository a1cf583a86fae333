----------------------------- MODULE BrokerLink -----------------------------
(***************************************************************************)
(* One client process of the broker and the two threads that serve it:     *)
(* class BrokerClient, _serve_client's reader and its sender, the named    *)
(* pipe between them and the shared-memory arena of Depth slots.  What the *)
(* device thread does with the calls is the service CallService promises   *)
(* (module Broker implements it), with its two copies made visible here.   *)
(*                                                                         *)
(* A slot's content is a record: the ticket whose inputs it came from, and *)
(* how often the kernel was applied to them (0 input, 1 output).           *)
(***************************************************************************)
EXTENDS Integers, SequencesExt

CONSTANTS
  Depth,       \* depth of BrokerClient.__init__
  PipeCap,     \* messages one direction of the pipe buffers
  MaxCalls,    \* bound on the tickets one client takes
  Oversized    \* when the program submits calls larger than a slot: "never",
               \* "idle" (with no call in flight), "anytime"

ASSUME LinkAssumption ==
  /\ Depth \in Nat \ {0}
  /\ PipeCap \in Nat \ {0}
  /\ MaxCalls \in Nat
  /\ Oversized \in {"never", "idle", "anytime"}

VARIABLES
  \* BrokerClient
  cpc,       \* what the client is doing
  seq,       \* next ticket: itertools.count()
  want,      \* the ticket being submitted or waited for
  ask,       \* the message that follows a drain
  inflight,  \* tickets sent and not yet read back
  results,   \* done: per ticket nothing, an error, or the arrays
  \* the pipe and the arena
  toBroker, toClient, arena,
  \* _serve_client
  rpc, msg, mine, mapped, calls,
  spc, item, replies,
  \* the service
  status, sent, healthy,
  loaded     \* inputs copied to the device

Me == "client"
service == INSTANCE CallService WITH Clients <- {Me}

client == <<cpc, seq, want, ask, inflight, results>>
reader == <<rpc, msg, mine, mapped, calls>>
sender == <<spc, item>>
device == <<status, sent, healthy, loaded>>
vars == <<client, toBroker, toClient, arena, reader, sender, replies, device>>

Tickets == 0 .. MaxCalls - 1
Numbers == 1 .. MaxCalls      \* calls as the reader submits them
Pending == {"queued", "running", "executed", "hung"}
Slot(t) == t % Depth
Run(t)  == [op |-> "run", seq |-> t]
Control == {[op |-> o, seq |-> -1] : o \in {"stats", "bye"}}
Stop    == [op |-> "stop", seq |-> -1]

Nothing == [of |-> -1, runs |-> 0]
Input(t) == [of |-> t, runs |-> 0]
Output(d) == [of |-> d.of, runs |-> d.runs + 1]
Error == [of |-> -1, runs |-> 1]

Is(n, s) == status[<<Me, n>>] = s
Waiting(n) == status[<<Me, n>>] \in Pending
NumberOf(t) == CHOOSE n \in 1 .. Len(calls) : calls[n] = t

Init ==
  /\ cpc = "idle" /\ seq = 0 /\ want = -1 /\ ask = "bye"
  /\ inflight = <<>> /\ results = [t \in Tickets |-> Nothing]
  /\ toBroker = <<>> /\ toClient = <<>>
  /\ arena = [s \in 0 .. Depth - 1 |-> Nothing]
  /\ rpc = "recv" /\ msg = Stop /\ mine = {} /\ mapped = FALSE /\ calls = <<>>
  /\ spc = "get" /\ item = Stop /\ replies = <<>>
  /\ service!Init
  /\ loaded = [n \in Numbers |-> Nothing]

-----------------------------------------------------------------------------
(* BrokerClient.  Its caller submits, waits, asks for statistics and       *)
(* closes in any order.                                                    *)

\* A ticket is taken before the call's size is looked at.
Submit ==
  /\ cpc = "idle" /\ seq < MaxCalls
  /\ seq' = seq + 1
  /\ want' = seq
  /\ cpc' = "room"
  /\ UNCHANGED <<ask, inflight, results, toBroker, toClient, arena, reader,
                 sender, replies, device>>

TooLarge ==
  /\ Oversized = "anytime" \/ (Oversized = "idle" /\ inflight = <<>>)
  /\ cpc = "idle" /\ seq < MaxCalls
  /\ seq' = seq + 1
  /\ UNCHANGED <<cpc, want, ask, inflight, results, toBroker, toClient, arena,
                 reader, sender, replies, device>>

Wait(t) ==
  /\ cpc = "idle" /\ Contains(inflight, t)
  /\ want' = t
  /\ cpc' = "wait"
  /\ UNCHANGED <<seq, ask, inflight, results, toBroker, toClient, arena,
                 reader, sender, replies, device>>

\* stats() and close() read every reply first.
Drain(op) ==
  /\ cpc = "idle"
  /\ ask' = op
  /\ cpc' = "drain"
  /\ UNCHANGED <<seq, want, inflight, results, toBroker, toClient, arena,
                 reader, sender, replies, device>>

\* Fault: one call more than there are slots.
MustReceiveLate ==
  \/ cpc = "room" /\ Len(inflight) > Depth
  \/ cpc = "wait" /\ Contains(inflight, want)
  \/ cpc = "drain" /\ inflight # <<>>
\* The loops that call _receive_one: for a free slot, for a ticket, for all.
MustReceive ==
  \/ cpc = "room" /\ Len(inflight) >= Depth
  \/ cpc = "wait" /\ Contains(inflight, want)
  \/ cpc = "drain" /\ inflight # <<>>

\* _receive_one: the oldest call's reply, and on success its outputs.  A
\* reply to another call raises BrokerError out of the method that waits.
ReceiveOne ==
  /\ MustReceive /\ toClient # <<>>
  /\ LET t == Head(inflight)
         r == Head(toClient)
     IN  /\ results' = [results EXCEPT
              ![t] = IF r.seq # t THEN @
                     ELSE IF r.op = "ok" THEN arena[Slot(t)] ELSE Error]
         /\ cpc' = IF r.seq = t THEN cpc
                   ELSE IF cpc = "drain" /\ ask = "bye" THEN "gone" ELSE "idle"
  /\ inflight' = Tail(inflight)
  /\ toClient' = Tail(toClient)
  /\ UNCHANGED <<seq, want, ask, toBroker, arena, reader, sender, replies,
                 device>>

Collected ==
  /\ cpc = "wait" /\ ~MustReceive
  /\ cpc' = "idle" /\ want' = -1
  /\ UNCHANGED <<seq, ask, inflight, results, toBroker, toClient, arena,
                 reader, sender, replies, device>>

Fill ==
  /\ cpc = "room" /\ ~MustReceive
  /\ arena' = [arena EXCEPT ![Slot(want)] = Input(want)]
  /\ cpc' = "send"
  /\ UNCHANGED <<seq, want, ask, inflight, results, toBroker, toClient,
                 reader, sender, replies, device>>

Send ==
  /\ cpc = "send" /\ Len(toBroker) < PipeCap
  /\ toBroker' = Append(toBroker, Run(want))
  /\ inflight' = Append(inflight, want)
  /\ cpc' = "idle" /\ want' = -1
  /\ UNCHANGED <<seq, ask, results, toClient, arena, reader, sender,
                 replies, device>>

Ask ==
  /\ cpc = "drain" /\ ~MustReceive /\ Len(toBroker) < PipeCap
  /\ toBroker' = Append(toBroker, [op |-> ask, seq |-> -1])
  /\ cpc' = "answer"
  /\ UNCHANGED <<seq, want, ask, inflight, results, toClient, arena, reader,
                 sender, replies, device>>

\* The arena is closed and unlinked after the answer to bye.
GetAnswer ==
  /\ cpc = "answer" /\ toClient # <<>>
  /\ toClient' = Tail(toClient)
  /\ cpc' = IF ask = "bye" THEN "gone" ELSE "idle"
  /\ ask' = "bye"
  /\ UNCHANGED <<seq, want, inflight, results, toBroker, arena, reader,
                 sender, replies, device>>

\* The client process is killed.
Die ==
  /\ cpc # "gone"
  /\ cpc' = "gone"
  /\ UNCHANGED <<seq, want, ask, inflight, results, toBroker, toClient, arena,
                 reader, sender, replies, device>>

ClientStep ==
  \/ ReceiveOne \/ Collected \/ Fill \/ Send
  \/ Ask \/ GetAnswer

Program ==
  \/ Submit \/ TooLarge
  \/ \E t \in Tickets : Wait(t)
  \/ \E op \in {"stats", "bye"} : Drain(op)

-----------------------------------------------------------------------------
(* _serve_client: the reader.                                              *)

Recv ==
  /\ rpc = "recv" /\ toBroker # <<>>
  /\ msg' = Head(toBroker)
  /\ toBroker' = Tail(toBroker)
  /\ rpc' = Head(toBroker).op
  /\ UNCHANGED <<client, toClient, arena, mine, mapped, calls, sender,
                 replies, device>>

\* EOFError: the client's end is closed and everything it sent is read.
EndOfFile ==
  /\ rpc = "recv" /\ toBroker = <<>> /\ cpc = "gone"
  /\ rpc' = "finally"
  /\ UNCHANGED <<client, toBroker, toClient, arena, msg, mine, mapped, calls,
                 sender, replies, device>>

\* The arena of a process that is gone may be gone with it: SharedMemory
\* raises and the reader unwinds.
NoArena ==
  /\ rpc = "run" /\ ~mapped /\ cpc = "gone"
  /\ rpc' = "finally"
  /\ UNCHANGED <<client, toBroker, toClient, arena, msg, mine, mapped, calls,
                 sender, replies, device>>

\* broker.submit: queued, or refused with BrokerError.
SubmitCall ==
  /\ rpc = "run"
  /\ service!Request(Me)
  /\ mapped' = TRUE
  /\ calls' = Append(calls, msg.seq)
  /\ rpc' = "put"
  /\ UNCHANGED <<client, toBroker, toClient, arena, msg, mine, sender,
                 replies, loaded>>

\* Fault: a refusal goes out at once, past the replies that are queued.
PutRefusalFirst ==
  /\ rpc = "put"
  /\ mine' = {n \in mine \cup {Len(calls)} : Waiting(n)}
  /\ replies' = IF Is(Len(calls), "refused") THEN <<msg>> \o replies
                ELSE Append(replies, msg)
  /\ rpc' = "recv"
  /\ msg' = Stop
  /\ UNCHANGED <<client, toBroker, toClient, arena, mapped, calls,
                 sender, device>>
\* Fault: a refused call gets no reply.
PutNoRefusal ==
  /\ rpc = "put"
  /\ mine' = {n \in mine \cup {Len(calls)} : Waiting(n)}
  /\ replies' = IF Is(Len(calls), "refused") THEN replies
                ELSE Append(replies, msg)
  /\ rpc' = "recv"
  /\ msg' = Stop
  /\ UNCHANGED <<client, toBroker, toClient, arena, mapped, calls,
                 sender, device>>
Put ==
  /\ rpc = "put"
  /\ mine' = {n \in mine \cup {Len(calls)} : Waiting(n)}
  /\ replies' = Append(replies, msg)
  /\ rpc' = "recv"
  /\ msg' = Stop
  /\ UNCHANGED <<client, toBroker, toClient, arena, mapped, calls,
                 sender, device>>

PutControl ==
  /\ rpc \in {"stats", "bye"}
  /\ replies' = Append(replies, msg)
  /\ rpc' = IF rpc = "bye" THEN "finally" ELSE "recv"
  /\ msg' = Stop
  /\ UNCHANGED <<client, toBroker, toClient, arena, mine, mapped, calls,
                 sender, device>>

\* Faults: the arena's last calls are not waited for; the sender is not told.
StopSenderEarly ==
  /\ rpc = "finally"
  /\ replies' = Append(replies, Stop)
  /\ rpc' = "join"
  /\ UNCHANGED <<client, toBroker, toClient, arena, msg, mine, mapped, calls,
                 sender, device>>
StopSenderSilent ==
  /\ rpc = "finally" /\ \A n \in mine : ~Waiting(n)
  /\ rpc' = "join"
  /\ UNCHANGED <<client, toBroker, toClient, arena, msg, mine, mapped, calls,
                 sender, replies, device>>
\* finally: each of this client's calls has finished, then the sender stops.
StopSender ==
  /\ rpc = "finally" /\ \A n \in mine : ~Waiting(n)
  /\ replies' = Append(replies, Stop)
  /\ rpc' = "join"
  /\ UNCHANGED <<client, toBroker, toClient, arena, msg, mine, mapped, calls,
                 sender, device>>

Unmap ==
  /\ rpc = "join" /\ spc = "ended"
  /\ mapped' = FALSE
  /\ rpc' = "ended"
  /\ UNCHANGED <<client, toBroker, toClient, arena, msg, mine, calls, sender,
                 replies, device>>

Reader ==
  \/ Recv \/ EndOfFile \/ NoArena \/ SubmitCall \/ Put \/ PutControl
  \/ StopSender \/ Unmap

(* The sender.                                                             *)

Get ==
  /\ spc = "get" /\ replies # <<>>
  /\ item' = Head(replies)
  /\ replies' = Tail(replies)
  /\ spc' = IF Head(replies) = Stop THEN "ended" ELSE "send"
  /\ UNCHANGED <<client, toBroker, toClient, arena, reader, device>>

\* item.done.wait(), then the result as it is now.
Reply ==
  /\ spc = "send" /\ cpc # "gone" /\ Len(toClient) < PipeCap
  /\ item.op = "run" => ~Waiting(NumberOf(item.seq))
  /\ toClient' = Append(toClient,
       IF item.op = "run"
       THEN [op |-> status[<<Me, NumberOf(item.seq)>>], seq |-> item.seq]
       ELSE item)
  /\ spc' = "get" /\ item' = Stop
  /\ UNCHANGED <<client, toBroker, arena, reader, replies, device>>

\* conn.send raises OSError: the sender returns.
ReplyFails ==
  /\ spc = "send" /\ cpc = "gone"
  /\ item.op = "run" => ~Waiting(NumberOf(item.seq))
  /\ spc' = "ended"
  /\ UNCHANGED <<client, toBroker, toClient, arena, reader, item, replies,
                 device>>

Sender == Get \/ Reply \/ ReplyFails

-----------------------------------------------------------------------------
(* The service, with the copies its device thread makes.                   *)

\* One call at a time is prepared and not started.
CopyIn(n) ==
  /\ Is(n, "queued") /\ loaded[n] = Nothing
  /\ \A m \in Numbers : Is(m, "queued") => loaded[m] = Nothing
  /\ \A m \in 1 .. n - 1 : ~Is(m, "queued")
  /\ loaded' = [loaded EXCEPT ![n] = arena[Slot(calls[n])]]
  /\ UNCHANGED <<client, toBroker, toClient, arena, reader, sender, replies,
                 status, sent, healthy>>

Start(n) ==
  /\ loaded[n] # Nothing
  /\ service!Start(<<Me, n>>)
  /\ UNCHANGED <<client, toBroker, toClient, arena, reader, sender, replies,
                 loaded>>

Return(n) ==
  /\ service!Return(<<Me, n>>)
  /\ UNCHANGED <<client, toBroker, toClient, arena, reader, sender, replies,
                 loaded>>

\* Outputs are copied to the arena before the call's event is set.
Answer(n) ==
  /\ service!Answer(<<Me, n>>)
  /\ \/ /\ Is(n, "executed")
        /\ arena' = [arena EXCEPT ![Slot(calls[n])] = Output(loaded[n])]
     \/ status'[<<Me, n>>] = "failed" /\ UNCHANGED arena
  /\ UNCHANGED <<client, toBroker, toClient, reader, sender, replies, loaded>>

Drop(K) ==
  /\ K # {}
  /\ service!Drop(K)
  /\ UNCHANGED <<client, toBroker, toClient, arena, reader, sender, replies,
                 loaded>>

Device ==
  \/ \E n \in Numbers : CopyIn(n) \/ Start(n) \/ Return(n) \/ Answer(n)
  \/ \E K \in SUBSET ({Me} \X Numbers) : Drop(K)

-----------------------------------------------------------------------------
Done == rpc = "ended" /\ cpc = "gone" /\ UNCHANGED vars

Next == Program \/ ClientStep \/ Die \/ Reader \/ Sender \/ Device \/ Done

Spec == Init /\ [][Next]_vars

\* The client's methods, the two threads and the device thread run; nothing
\* makes the program call a method, or be killed.
FairSpec ==
  /\ Spec
  /\ WF_vars(ClientStep) /\ WF_vars(Reader) /\ WF_vars(Sender)
  /\ WF_vars(Device)
-----------------------------------------------------------------------------
(* Properties.                                                             *)

\* What is on its way, oldest first: in the pipe to the client, in the
\* sender's hands, queued for it, in the reader's hands, in the pipe to the
\* broker.
OnTheWay ==
  toClient
  \o (IF spc = "send" THEN <<item>> ELSE <<>>)
  \o replies
  \o (IF rpc \in {"run", "put", "stats", "bye"} THEN <<msg>> ELSE <<>>)
  \o toBroker

\* "Replies come back in submission order" (broker.py, Pipelining): while the
\* client lives, what is on its way to the broker and back is exactly what it
\* has in flight, in that order, so that _receive_one never meets another
\* call's reply; and when it asks for statistics or says goodbye, no call is.
RepliesInOrder ==
  /\ cpc \notin {"gone", "answer"} =>
       /\ Len(OnTheWay) = Len(inflight)
       /\ \A i \in 1 .. Len(inflight) : OnTheWay[i].seq = inflight[i]
  /\ cpc = "answer" =>
       /\ inflight = <<>>
       /\ \A i \in 1 .. Len(OnTheWay) : OnTheWay[i].seq = -1

\* A client that waits gets the arrays computed once from its own inputs, for
\* every call that did not fail.
ResultsAreOwn ==
  \A t \in Tickets : results[t] \in {Nothing, Error, Output(Input(t))}

\* The arena stays mapped in the broker until the client's last call has
\* finished, also when the client was killed in the middle of it.
ArenaOutlivesCalls ==
  \A n \in Numbers : Waiting(n) => mapped

\* Pipes of one message, a sender that blocks on a full pipe and a client
\* that blocks on its own: submit, wait and drain always return.
ClientReturns == cpc # "idle" ~> cpc \in {"idle", "gone"}

\* A connection that ends is cleaned up: the arena is unmapped.
ArenaReleased == cpc = "gone" ~> rpc = "ended" /\ ~mapped
=============================================================================
