------------------------------ MODULE LinkInv ------------------------------
(***************************************************************************)
(* The inductive invariants behind the safety properties of BrokerLink:    *)
(* where each call in flight is between the client and the broker, and     *)
(* what its slot of the arena holds there.                                 *)
(***************************************************************************)
EXTENDS BrokerLink

Messages(ops) == [op : ops, seq : Int]
Statuses == Pending \cup {"none", "refused", "ok", "failed"}
Commands == {"run", "stats", "bye", "stop"}
Contents == [of : Int, runs : Nat]
Alive    == cpc # "gone"
Calling  == Alive /\ cpc # "answer"

\* How many calls, the oldest first, have been replied to; have left the
\* sender's queue; the reader's hands; and the pipe to the broker.
Replied == Len(toClient)
Taken   == Replied + IF spc = "send" THEN 1 ELSE 0
Held    == Taken + Len(replies)
Read    == Held + IF rpc \in {"run", "put"} THEN 1 ELSE 0
\* Those that have been submitted to the service, and those before them.
Submitted == Held + IF rpc = "put" THEN 1 ELSE 0
Past      == Len(calls) - IF cpc = "answer" THEN 0 ELSE Submitted

\* The first ticket the client has not sent.
Filling == cpc \in {"room", "send"}
Top     == IF Filling THEN want ELSE seq

\* The calls q are those of the tickets f from the k-th on.
Matches(q, f, k) ==
  k + Len(q) <= Len(f) /\ \A i \in 1 .. Len(q) : q[i].seq = f[k + i]
Ops(q, A) == \A i \in 1 .. Len(q) : q[i].op \in A
Unnumbered(q) == \A i \in 1 .. Len(q) : q[i].seq = -1

\* Tickets below top, each above those before it.
Grows(f, top) ==
  /\ \A i \in 1 .. Len(f) : f[i] < top
  /\ \A i, j \in 1 .. Len(f) : i < j => f[i] < f[j]
\* The first p tickets of g are below those of f, the next k are its first.
Older(g, p, f) == \A n \in 1 .. p : \A i \in 1 .. Len(f) : g[n] < f[i]
Aligned(g, p, f, k) ==
  k <= Len(f) /\ p + k = Len(g) /\ \A i \in 1 .. k : g[p + i] = f[i]

\* The calls up to the p-th are finished; q are the replies to the next.
Finished(st, p) ==
  \A n \in Numbers : n <= p => st[<<Me, n>>] \notin Pending
Answered(q, st, p) ==
  \A i \in 1 .. Len(q) :
    st[<<Me, p + i>>] \notin Pending /\ q[i].op = st[<<Me, p + i>>]

TypeOK ==
  /\ cpc \in {"idle", "room", "send", "wait", "drain", "answer", "gone"}
  /\ seq \in 0 .. MaxCalls /\ want \in Int /\ ask \in {"stats", "bye"}
  /\ inflight \in Seq(Tickets) /\ results \in [Tickets -> Contents]
  /\ toBroker \in Seq(Messages({"run", "stats", "bye"}))
  /\ toClient \in Seq(Messages(Statuses \cup Commands))
  /\ arena \in [0 .. Depth - 1 -> Contents]
  /\ rpc \in {"recv", "run", "put", "stats", "bye", "finally", "join",
              "ended"}
  /\ msg \in Messages(Commands)
  /\ mine \subseteq Numbers /\ mapped \in BOOLEAN /\ calls \in Seq(Int)
  /\ spc \in {"get", "send", "ended"}
  /\ item \in Messages(Commands)
  /\ replies \in Seq(Messages(Commands))
  /\ status \in [{Me} \X Numbers -> Statuses] /\ sent \in [{Me} -> Nat]
  /\ healthy \in BOOLEAN /\ loaded \in [Numbers -> Contents]

\* Every call the service has is one the reader submitted, and those it has
\* not finished are among the reader's.
ServiceInv ==
  /\ sent[Me] = Len(calls) /\ Len(calls) <= MaxCalls
  /\ \A n \in Numbers : n > Len(calls) => status[<<Me, n>>] = "none"
  /\ \A n \in Numbers : Waiting(n) =>
       n \in mine \/ (rpc = "put" /\ n = Len(calls))
  /\ rpc \in {"join", "ended"} => \A n \in Numbers : ~ Waiting(n)
  /\ rpc = "put" => Len(calls) # 0
  /\ Len(calls) # 0 /\ rpc # "ended" => mapped

\* While the client makes calls, each one in flight is at one place of the
\* way to the broker and back.
PathInv ==
  Calling =>
    /\ rpc \in {"recv", "run", "put"} /\ spc \in {"get", "send"}
    /\ Len(inflight) = Read + Len(toBroker)
    /\ Matches(toClient, inflight, 0)
    /\ spc = "send" =>
         item.op = "run" /\ item.seq = inflight[Replied + 1]
    /\ Ops(replies, {"run"}) /\ Matches(replies, inflight, Taken)
    /\ rpc \in {"run", "put"} =>
         msg.op = "run" /\ msg.seq = inflight[Held + 1]
    /\ Ops(toBroker, {"run"}) /\ Matches(toBroker, inflight, Read)

\* While it waits for statistics or for the answer to its goodbye, no call is
\* anywhere; and the answer to the first is the only message.
AskInv ==
  cpc = "answer" =>
    /\ inflight = <<>> /\ rpc \notin {"run", "put"}
    /\ Unnumbered(toClient)
    /\ spc = "send" => item.seq = -1 /\ item.op # "run"
    /\ Unnumbered(replies) /\ Ops(replies, {"stats", "bye", "stop"})
    /\ rpc \in {"stats", "bye"} => msg.seq = -1 /\ msg.op = ask /\ rpc = ask
    /\ Unnumbered(toBroker) /\ Ops(toBroker, {ask})
    /\ ask = "stats" =>
         /\ rpc \in {"recv", "stats"} /\ spc \in {"get", "send"}
         /\ Ops(replies, {"stats"})
         /\ rpc = "stats" => Held + Len(toBroker) = 0
         /\ rpc = "recv" => Held + Len(toBroker) = 1

\* Tickets grow from call to call, also past those that were never sent.
TicketInv ==
  Alive =>
    /\ Filling => want = seq - 1 /\ want \in Tickets
    /\ Grows(calls, Top) /\ Grows(inflight, Top)

\* The calls in flight that the reader has submitted are the last it did, and
\* the service is done with those before them and with those replied to.
CallInv ==
  Alive =>
    /\ 0 <= Past /\ Older(calls, Past, inflight) /\ Finished(status, Past)
    /\ Calling =>
         /\ Aligned(calls, Past, inflight, Submitted)
         /\ Answered(toClient, status, Past)

IInv == TypeOK /\ ServiceInv /\ PathInv /\ AskInv /\ TicketInv /\ CallInv

\* If no ticket is lost while calls are in flight, tickets in flight follow one
\* another up to the next, and no two of them have the same slot.
OversizedAssumption == Oversized # "anytime"
Window(f, top) == \A i \in 1 .. Len(f) : f[i] = top - Len(f) + i - 1
WindowInv ==
  Alive =>
    /\ Len(inflight) <= Depth /\ (cpc = "send" => Len(inflight) < Depth)
    /\ Window(inflight, Top)

\* What the slot ar of ticket t, and the device's copy ld of it, hold when its
\* call has status st.
Holds(ar, ld, st, t) ==
  /\ ld \in {Nothing, Input(t)}
  /\ st = "queued" /\ ld = Nothing => ar = Input(t)
  /\ st \in {"running", "executed", "hung"} => ld = Input(t)
  /\ st = "ok" => ar = Output(Input(t))

\* The slots of the first k tickets of f, submitted as the calls after the
\* p-th; and of those after them.
SlotsHold(ar, ld, st, p, f, k) ==
  \A i \in 1 .. k : Holds(ar[Slot(f[i])], ld[p + i], st[<<Me, p + i>>], f[i])
Filled(ar, f, k) ==
  \A i \in k + 1 .. Len(f) : ar[Slot(f[i])] = Input(f[i])

SlotInv ==
  Alive =>
    /\ \A n \in Numbers : n > Len(calls) => loaded[n] = Nothing
    /\ Calling => /\ SlotsHold(arena, loaded, status, Past, inflight,
                               Submitted)
                  /\ Filled(arena, inflight, Submitted)
    /\ cpc = "send" => arena[Slot(want)] = Input(want)

SInv == WindowInv /\ SlotInv /\ ResultsAreOwn
=============================================================================
