----------------------------- MODULE BrokerProof -----------------------------
(***************************************************************************)
(* Proofs about Broker, for every value of its constants: any number of    *)
(* clients, xclbins and streams, any streak, any faults.                   *)
(***************************************************************************)
EXTENDS BrokerInv, SeqLemmas

USE BrokerAssumption

-----------------------------------------------------------------------------
(* Facts about the operators.                                              *)

\* _pick returns a position of the queue; one that is not the head belongs
\* to the current context, within the streak, and no earlier call of its
\* client is queued.
LEMMA PickProps ==
  ASSUME TypeOK, pending # <<>>
  PROVE  /\ Pick \in Positions
         /\ pending[Pick] \in Call
         /\ Pick # 1 => current # None /\ runLen < Streak
                        /\ pending[Pick].xclbin = current
         /\ \A j \in 1 .. Pick - 1 : pending[j].client # pending[Pick].client
<1>1. pending \in Seq(Call) /\ Len(pending) \in Nat /\ 1 \in Positions
  BY DEF TypeOK, Positions
<1>2. Eligible \subseteq Nat /\ Eligible \subseteq Positions
  BY <1>1 DEF Eligible, Positions
<1>3. Eligible # {} => Min(Eligible) \in Eligible
  BY <1>2, MinProps
<1>4. CASE Pick = 1
  BY <1>1, <1>4 DEF Positions
<1>5. CASE Pick # 1
  <2>1. current # None /\ runLen < Streak /\ Pick \in Eligible
    BY <1>3, <1>5 DEF Pick
  <2> QED
    BY <1>1, <1>2, <2>1 DEF Eligible, Positions
<1> QED
  BY <1>4, <1>5

\* The picked call is one of the calls there can be.
LEMMA PickedType ==
  ASSUME TypeOK, nxt # None
  PROVE  /\ nxt \in Picked /\ nxt.call \in Call /\ X \in Xclbins
         /\ nxt.call.sha \in Streams /\ Id(nxt.call) \in Clients \X Seqs
BY DEF TypeOK, Picked, Call, X, Id

LEMMA RunningType ==
  ASSUME TypeOK, running # None
  PROVE  /\ running \in Picked /\ running.call \in Call
         /\ running.call.xclbin \in Xclbins
         /\ Id(running.call) \in Clients \X Seqs
BY DEF TypeOK, Picked, Call, Id

\* Eviction takes a position of contexts, never the running call's.
LEMMA VictimProps ==
  ASSUME TypeOK, Full, ~Stuck
  PROVE  /\ Victim \in 1 .. Len(contexts)
         /\ running # None => contexts[Victim] # running.call.xclbin
<1>1. Victims # {}
  BY DEF Stuck
<1>2. Victims \subseteq Nat /\ Victims \subseteq 1 .. Len(contexts)
  BY DEF Victims, TypeOK
<1>3. Victim \in Victims
  BY <1>1, <1>2, MinProps DEF Victim
<1> QED
  BY <1>2, <1>3 DEF Victims

Distinct(s) == \A i, j \in 1 .. Len(s) : s[i] = s[j] => i = j

\* Making room: a place is free, no context is doubled, and the running
\* call's context stays.
LEMMA RoomyProps ==
  ASSUME TypeOK, LiveContextsOpen, nxt # None, ~Stuck, ~Hit
  PROVE  /\ Roomy \in Seq(Xclbins) /\ Len(Roomy) < MaxContexts
         /\ Distinct(Roomy) /\ ~Contains(Roomy, X)
         /\ running # None /\ Contains(contexts, running.call.xclbin) =>
              Contains(Roomy, running.call.xclbin)
<1>1. contexts \in Seq(Xclbins) /\ Len(contexts) \in Nat /\ Distinct(contexts)
      /\ Len(contexts) <= MaxContexts /\ MaxContexts \in Nat
  BY DEF TypeOK, LiveContextsOpen, Distinct
<1>2. \A i \in 1 .. Len(contexts) : contexts[i] # X
  BY DEF Hit, Contains
<1>3. CASE ~Full
  BY <1>1, <1>2, <1>3 DEF Full, Roomy, Hit, Contains
<1>4. CASE Full
  <2> DEFINE v == Victim
  <2>1. /\ v \in 1 .. Len(contexts)
        /\ running # None => contexts[v] # running.call.xclbin
    BY <1>4, VictimProps
  <2>2. /\ Roomy \in Seq(Xclbins) /\ Len(Roomy) = Len(contexts) - 1
        /\ \A j \in 1 .. Len(contexts) - 1 :
             Roomy[j] = IF j < v THEN contexts[j] ELSE contexts[j + 1]
    BY <1>1, <1>4, <2>1, RemoveAtProps DEF Roomy
  <2> HIDE DEF v
  <2>3. Distinct(Roomy)
    BY <1>1, <2>1, <2>2 DEF Distinct
  <2>4. ~Contains(Roomy, X)
    BY <1>1, <1>2, <2>1, <2>2 DEF Contains
  <2>5. ASSUME running # None, Contains(contexts, running.call.xclbin)
        PROVE  Contains(Roomy, running.call.xclbin)
    <3>1. PICK i \in 1 .. Len(contexts) : contexts[i] = running.call.xclbin
      BY <2>5 DEF Contains
    <3>2. i # v
      BY <2>1, <2>5, <3>1
    <3>3. CASE i < v
      BY <1>1, <2>1, <2>2, <3>1, <3>3 DEF Contains
    <3>4. CASE i > v
      <4>1. i - 1 \in 1 .. Len(Roomy) /\ Roomy[i - 1] = contexts[i]
        BY <1>1, <2>1, <2>2, <3>4
      <4> QED
        BY <3>1, <4>1 DEF Contains
    <3> QED
      BY <1>1, <2>1, <3>2, <3>3, <3>4
  <2> QED
    BY <1>1, <2>2, <2>3, <2>4, <2>5
<1> QED
  BY <1>3, <1>4

\* The contexts after _context: the call's is open, most recently used, the
\* running call's still is, and the limit holds.
LEMMA OpenedProps ==
  ASSUME TypeOK, LiveContextsOpen, nxt # None, ~Stuck
  PROVE  /\ Opened \in Seq(Xclbins) /\ Len(Opened) <= MaxContexts
         /\ Distinct(Opened) /\ Contains(Opened, X)
         /\ running # None /\ Contains(contexts, running.call.xclbin) =>
              Contains(Opened, running.call.xclbin)
<1>1. contexts \in Seq(Xclbins) /\ Len(contexts) \in Nat /\ Distinct(contexts)
      /\ Len(contexts) <= MaxContexts /\ MaxContexts \in Nat
  BY DEF TypeOK, LiveContextsOpen, Distinct
<1>2. X \in Xclbins
  BY PickedType
<1>3. CASE ~Hit
  <2>1. Opened = Append(Roomy, X)
    BY <1>3 DEF Opened
  <2>2. /\ Roomy \in Seq(Xclbins) /\ Len(Roomy) < MaxContexts
        /\ Distinct(Roomy) /\ ~Contains(Roomy, X)
        /\ running # None /\ Contains(contexts, running.call.xclbin) =>
             Contains(Roomy, running.call.xclbin)
    BY <1>3, RoomyProps
  <2> QED
    BY <1>1, <1>2, <2>1, <2>2, AppendProperties DEF Distinct, Contains
<1>4. CASE Hit
  <2> DEFINE k == CHOOSE i \in 1 .. Len(contexts) : contexts[i] = X
             rest == RemoveAt(contexts, k)
  <2>1. Opened = Append(rest, X)
    BY <1>4 DEF Opened
  <2>2. k \in 1 .. Len(contexts) /\ contexts[k] = X
    BY <1>4 DEF Hit, Contains
  <2>3. /\ rest \in Seq(Xclbins) /\ Len(rest) = Len(contexts) - 1
        /\ \A j \in 1 .. Len(contexts) - 1 :
             rest[j] = IF j < k THEN contexts[j] ELSE contexts[j + 1]
    BY <1>1, <2>2, RemoveAtProps
  <2> HIDE DEF k, rest
  <2>4. /\ Opened \in Seq(Xclbins) /\ Len(Opened) = Len(contexts)
        /\ \A j \in 1 .. Len(contexts) - 1 : Opened[j] = rest[j]
        /\ Opened[Len(contexts)] = X
    BY <1>1, <1>2, <2>1, <2>2, <2>3, AppendProperties
  <2>5. Distinct(Opened)
    BY <1>1, <2>2, <2>3, <2>4 DEF Distinct
  <2>6. Contains(Opened, X)
    BY <1>1, <2>2, <2>4 DEF Contains
  <2>7. ASSUME running # None, Contains(contexts, running.call.xclbin)
        PROVE  Contains(Opened, running.call.xclbin)
    <3>1. PICK i \in 1 .. Len(contexts) : contexts[i] = running.call.xclbin
      BY <2>7 DEF Contains
    <3>2. CASE i = k
      BY <2>2, <2>6, <3>1, <3>2
    <3>3. CASE i < k
      <4>1. i \in 1 .. Len(Opened) /\ Opened[i] = contexts[i]
        BY <1>1, <2>2, <2>3, <2>4, <3>3
      <4> QED
        BY <3>1, <4>1 DEF Contains
    <3>4. CASE i > k
      <4>1. i - 1 \in 1 .. Len(Opened) /\ Opened[i - 1] = contexts[i]
        BY <1>1, <2>2, <2>3, <2>4, <3>4
      <4> QED
        BY <3>1, <4>1 DEF Contains
    <3> QED
      BY <1>1, <2>2, <3>2, <3>3, <3>4
  <2> QED
    BY <1>1, <2>4, <2>5, <2>6, <2>7
<1> QED
  BY <1>3, <1>4

Contexts == [Xclbins -> [insts : SUBSET Streams, uses : Sides,
                         bo : [Sides -> (Clients \X Seqs) \cup {None}]]]

\* Only an evicted context is cleared, never the running call's.
LEMMA ClearedProps ==
  ASSUME TypeOK, nxt # None, ~Stuck
  PROVE  /\ Cleared \in Contexts
         /\ running # None =>
              Cleared[running.call.xclbin] = ctx[running.call.xclbin]
<1>1. Blank \in [insts : SUBSET Streams, uses : Sides,
                 bo : [Sides -> (Clients \X Seqs) \cup {None}]]
  BY DEF Blank, Sides
<1>2. ctx \in Contexts
  BY DEF TypeOK, Contexts
<1>3. Cleared \in Contexts
  BY <1>1, <1>2 DEF Cleared, Contexts
<1>4. ASSUME running # None
      PROVE  Cleared[running.call.xclbin] = ctx[running.call.xclbin]
  BY <1>4, VictimProps, RunningType DEF Cleared
<1> QED
  BY <1>3, <1>4

\* Loading a call touches one BO set of one context and flips its use count.
LEMMA LoadedProps ==
  ASSUME TypeOK, nxt # None, ~Stuck,
         NEW data \in (Clients \X Seqs) \cup {None}
  PROVE  /\ Loaded(data) \in Contexts
         /\ \A x \in Xclbins \ {X} : Loaded(data)[x] = Cleared[x]
         /\ Loaded(data)[X].insts = Cleared[X].insts \cup {nxt.call.sha}
         /\ Cleared[X].uses \in Sides
         /\ Loaded(data)[X].uses \in Sides \ {Cleared[X].uses}
         /\ Loaded(data)[X].bo[Cleared[X].uses] = data
         /\ \A s \in Sides \ {Cleared[X].uses} :
              Loaded(data)[X].bo[s] = Cleared[X].bo[s]
<1>1. Cleared \in Contexts /\ X \in Xclbins /\ nxt.call.sha \in Streams
  BY ClearedProps, PickedType
<1> DEFINE c == Cleared[X]
           l == [insts |-> c.insts \cup {nxt.call.sha}, uses |-> 1 - c.uses,
                 bo |-> [c.bo EXCEPT ![c.uses] = data]]
<1>2. /\ c.insts \in SUBSET Streams /\ c.uses \in Sides
      /\ c.bo \in [Sides -> (Clients \X Seqs) \cup {None}]
  BY <1>1 DEF Contexts
<1>3. 1 - c.uses \in Sides \ {c.uses}
  BY <1>2 DEF Sides
<1>4. l \in [insts : SUBSET Streams, uses : Sides,
             bo : [Sides -> (Clients \X Seqs) \cup {None}]]
  BY <1>1, <1>2, <1>3
<1>5. Loaded(data) = [Cleared EXCEPT ![X] = l]
  BY DEF Loaded
<1>6. Loaded(data)[X] = l /\ \A x \in Xclbins \ {X} : Loaded(data)[x] = Cleared[x]
  BY <1>1, <1>5 DEF Contexts
<1>7. Loaded(data) \in Contexts
  <2> HIDE DEF l
  <2> QED  BY <1>1, <1>4, <1>5 DEF Contexts
<1> QED
  BY <1>2, <1>3, <1>6, <1>7

-----------------------------------------------------------------------------
(* Every step preserves IInv, one lemma per part.                          *)

LEMMA TypeStep == IInv /\ [Next]_vars => TypeOK'
<1> SUFFICES ASSUME IInv, [Next]_vars PROVE TypeOK'
  OBVIOUS
<1>a. TypeOK /\ ControlInv /\ LiveContextsOpen
  BY DEF IInv
<1> USE DEF TypeOK, Answered, OnDevice, Statuses, broker
<1>1. ASSUME NEW c \in Clients, NEW x \in Xclbins, NEW sha \in Streams,
             NEW stream, Submit(c, x, sha, stream)
      PROVE  TypeOK'
  <2> DEFINE call == [client |-> c, seq |-> sent[c] + 1, xclbin |-> x,
                      sha |-> sha]
  <2>1. call \in Call /\ Id(call) \in Clients \X Seqs /\ sent[c] + 1 \in 0 .. MaxCalls
    BY <1>a, <1>1 DEF Submit, Call, Seqs, Id
  <2> HIDE DEF call
  <2>2. /\ pending' = Append(pending, call) /\ streams' = streams \cup {sha}
        /\ sent' = [sent EXCEPT ![c] = sent[c] + 1]
        /\ status' = [status EXCEPT ![Id(call)] = "queued"]
        /\ pc' = IF pc = "sleep" THEN "lock" ELSE pc
        /\ UNCHANGED <<contexts, ctx, healthy, closing, current, runLen, nxt,
                     running, waitOk, skipped>>
    BY <1>1 DEF Submit, Notify, call
  <2> QED
    BY <1>a, <2>1, <2>2
<1>2. ASSUME NEW c \in Clients, NEW sha \in Streams, NEW stream,
             Refuse(c, sha, stream)
      PROVE  TypeOK'
  BY <1>a, <1>2 DEF Refuse, Seqs
<1>3. CASE Close
  BY <1>a, <1>3 DEF Close, Notify
<1>4. CASE Release
  <2>1. Blank \in [insts : SUBSET Streams, uses : Sides,
                   bo : [Sides -> (Clients \X Seqs) \cup {None}]]
    BY DEF Blank, Sides
  <2> QED
    BY <1>a, <1>4, <2>1 DEF Release
<1>5. CASE Sleep \/ Exit \/ NoWait \/ WaitRaises \/ Released
  BY <1>a, <1>5 DEF Sleep, Exit, NoWait, WaitRaises, Released, vars
<1>6. CASE Take
  <2>1. Pick \in 1 .. Len(pending) /\ pending[Pick] \in Call
    BY <1>a, <1>6, PickProps DEF Take, Positions
  <2>2. nxt' \in Picked
    BY <1>6, <2>1 DEF Take, Picked, Sides
  <2>3. pending' \in Seq(Call)
    BY <1>a, <1>6, <2>1, RemoveAtProps DEF Take
  <2> QED
    BY <1>a, <1>6, <2>2, <2>3 DEF Take
<1>7. CASE TakeNone
  <2>1. status' \in [Clients \X Seqs -> Statuses]
    BY <1>a, <1>7 DEF TakeNone
  <2> QED
    BY <1>a, <1>7, <2>1 DEF TakeNone
<1>8. CASE Prepare
  <2>1. nxt # None /\ nxt \in Picked /\ ~Stuck
    BY <1>a, <1>8, PickedType DEF Prepare, ControlInv
  <2>2. Opened \in Seq(Xclbins)
    BY <1>a, <2>1, OpenedProps
  <2>3. Loaded(Id(nxt.call)) \in Contexts /\ Cleared[X].uses \in Sides
    BY <1>a, <2>1, PickedType, LoadedProps
  <2>4. nxt' \in Picked
    BY <1>8, <2>1, <2>3 DEF Prepare, Picked
  <2> QED
    BY <1>a, <1>8, <2>2, <2>3, <2>4 DEF Prepare, Contexts
<1>9. CASE PrepareFails
  <2>1. nxt # None /\ Id(nxt.call) \in Clients \X Seqs
    BY <1>a, <1>9, PickedType DEF PrepareFails, ControlInv
  <2>2. ctx' \in Contexts /\ contexts' \in Seq(Xclbins)
    <3>1. ~Stuck => Opened \in Seq(Xclbins) /\ Cleared \in Contexts
      BY <1>a, <2>1, OpenedProps, ClearedProps
    <3>2. ~Stuck /\ ~Hit => Roomy \in Seq(Xclbins)
      BY <1>a, <2>1, RoomyProps
    <3>3. ~Stuck => \A data \in {Id(nxt.call), Cleared[X].bo[Cleared[X].uses]} :
                      Loaded(data) \in Contexts
      <4>1. ~Stuck => Cleared[X].bo[Cleared[X].uses] \in (Clients \X Seqs) \cup {None}
        BY <1>a, <2>1, <3>1, PickedType DEF Contexts
      <4> QED
        BY <1>a, <2>1, <4>1, LoadedProps
    <3>4. ctx \in Contexts
      BY <1>a DEF Contexts
    <3> QED
      BY <1>a, <1>9, <3>1, <3>2, <3>3, <3>4 DEF PrepareFails
  <2> QED
    BY <1>a, <1>9, <2>1, <2>2 DEF PrepareFails, Contexts
<1>10. CASE Wait \/ WaitTimesOut
  BY <1>a, <1>10, RunningType DEF Wait, WaitTimesOut
<1>11. CASE Start \/ StartRaises
  <2>1. nxt # None /\ X \in Xclbins /\ Id(nxt.call) \in Clients \X Seqs
    BY <1>a, <1>11, PickedType DEF Start, StartRaises
  <2>2. current' \in Xclbins \cup {None} /\ runLen' \in Nat
    BY <1>a, <1>11, <2>1 DEF Start, StartRaises, SwitchTo
  <2>3. status' \in [Clients \X Seqs -> Statuses]
    <3>1. \/ status' = status
          \/ status' = [status EXCEPT ![Id(nxt.call)] = "running"]
      BY <1>11 DEF Start, StartRaises
    <3> QED
      BY <1>a, <2>1, <3>1
  <2>4. skipped' \in Nat
    <3>1. skipped' = skipped \/ skipped' = skipped + 1
      BY <1>11 DEF Start, StartRaises
    <3> QED
      BY <1>a, <3>1
  <2> QED
    BY <1>a, <1>11, <2>2, <2>3, <2>4 DEF Start, StartRaises
<1>12. CASE NoStart
  BY <1>a, <1>12, PickedType DEF NoStart
<1>13. CASE Finish
  BY <1>a, <1>13, RunningType DEF Finish
<1>14. CASE UNCHANGED vars
  BY <1>a, <1>14 DEF vars
<1> QED
  BY <1>1, <1>2, <1>3, <1>4, <1>5, <1>6, <1>7, <1>8, <1>9, <1>10, <1>11,
     <1>12, <1>13, <1>14 DEF Next, Submitters, DeviceThread

LEMMA ControlStep == IInv /\ [Next]_vars => ControlInv'
<1> SUFFICES ASSUME IInv, [Next]_vars PROVE ControlInv'
  OBVIOUS
<1>a. TypeOK /\ ControlInv /\ TypeOK'
  BY TypeStep DEF IInv
<1>b. nxt # None => nxt \in Picked
  BY <1>a DEF TypeOK
<1> USE DEF ControlInv, broker
<1>1. ASSUME NEW c \in Clients, NEW x \in Xclbins, NEW sha \in Streams,
             NEW stream, Submit(c, x, sha, stream)
      PROVE  ControlInv'
  BY <1>a, <1>1 DEF Submit, Accepts, Notify
<1>2. ASSUME NEW c \in Clients, NEW sha \in Streams, NEW stream,
             Refuse(c, sha, stream)
      PROVE  ControlInv'
  BY <1>a, <1>2 DEF Refuse
<1>3. CASE Close \/ Release \/ Released \/ UNCHANGED vars
  BY <1>a, <1>3 DEF Close, Notify, Release, Released, vars
<1>4. CASE Sleep \/ Exit \/ TakeNone
  BY <1>a, <1>4 DEF Sleep, Exit, TakeNone
<1>5. CASE Take
  <2>1. nxt' # None
    <3>1. pending[Pick] \in Call
      BY <1>a, <1>5, PickProps DEF Take
    <3>2. nxt' \in Picked
      BY <1>5, <3>1 DEF Take, Picked, Sides
    <3> QED
      BY <3>2
  <2> QED
    BY <1>a, <1>5, <2>1 DEF Take
<1>6. CASE Prepare \/ PrepareFails
  BY <1>a, <1>6 DEF Prepare, PrepareFails
<1>7. CASE NoWait \/ Wait \/ WaitTimesOut \/ WaitRaises
  BY <1>a, <1>7 DEF NoWait, Wait, WaitTimesOut, WaitRaises
<1>8. CASE Start \/ StartRaises \/ NoStart \/ Finish
  BY <1>a, <1>8 DEF Start, StartRaises, NoStart, Finish
<1> QED
  BY <1>1, <1>2, <1>3, <1>4, <1>5, <1>6, <1>7, <1>8
  DEF Next, Submitters, DeviceThread

\* No two calls of a client carry one number, so an Id names one call.
LEMMA SentStep == IInv /\ [Next]_vars => SentInv'
<1> SUFFICES ASSUME IInv, [Next]_vars PROVE SentInv'
  OBVIOUS
<1>a. TypeOK /\ ControlInv /\ SentInv
  BY DEF IInv
<1> USE DEF SentInv, Positions, broker
<1>1. ASSUME NEW c \in Clients, NEW x \in Xclbins, NEW sha \in Streams,
             NEW stream, Submit(c, x, sha, stream)
      PROVE  SentInv'
  <2> DEFINE call == [client |-> c, seq |-> sent[c] + 1, xclbin |-> x,
                      sha |-> sha]
  <2>1. call \in Call /\ call.client = c /\ call.seq = sent[c] + 1
    BY <1>a, <1>1 DEF Submit, Call, Seqs, TypeOK
  <2>2. /\ pending' = Append(pending, call)
        /\ sent' = [sent EXCEPT ![c] = sent[c] + 1]
        /\ UNCHANGED <<nxt, running>>
    BY <1>1 DEF Submit
  <2> HIDE DEF call
  <2>3. pending \in Seq(Call) /\ sent \in [Clients -> 0 .. MaxCalls]
    BY <1>a DEF TypeOK
  <2>4. /\ Len(pending') = Len(pending) + 1
        /\ \A i \in 1 .. Len(pending) : pending'[i] = pending[i]
        /\ pending'[Len(pending) + 1] = call
    BY <2>1, <2>2, <2>3, AppendProperties
  <2>5. \A d \in Clients : sent'[d] >= sent[d] /\ sent[d] \in Nat /\ sent'[d] \in Nat
    BY <2>2, <2>3
  <2>6. \A d \in Call : d.client \in Clients /\ d.seq \in Nat
    BY DEF Call, Seqs
  <2>7. ASSUME NEW i \in 1 .. Len(pending')
        PROVE  pending'[i].seq <= sent'[pending'[i].client]
    <3>1. CASE i = Len(pending) + 1
      BY <2>1, <2>2, <2>3, <2>4, <3>1
    <3>2. CASE i \in 1 .. Len(pending)
      <4>1. pending[i] \in Call /\ pending'[i] = pending[i]
        BY <2>3, <2>4, <3>2
      <4>2. pending[i].seq <= sent[pending[i].client]
        BY <1>a, <3>2
      <4> QED
        BY <2>5, <2>6, <4>1, <4>2
    <3> QED
      BY <2>3, <2>4, <3>1, <3>2
  <2>8. ASSUME NEW p \in {nxt', running'} \ {None}
        PROVE  p.call.seq <= sent'[p.call.client]
    <3>1. p \in {nxt, running} \ {None}
      BY <2>2
    <3>2. p.call \in Call
      BY <1>a, <3>1 DEF TypeOK, Picked
    <3> QED
      BY <1>a, <2>5, <2>6, <3>1, <3>2
  <2> QED
    BY <2>7, <2>8
<1>2. ASSUME NEW c \in Clients, NEW sha \in Streams, NEW stream,
             Refuse(c, sha, stream)
      PROVE  SentInv'
  <2>1. \A d \in Clients : sent'[d] >= sent[d] /\ sent[d] \in Nat /\ sent'[d] \in Nat
    BY <1>a, <1>2 DEF Refuse, TypeOK
  <2>2. \A i \in Positions : pending[i] \in Call
    BY <1>a DEF TypeOK
  <2>3. \A p \in {nxt, running} \ {None} : p.call \in Call
    BY <1>a DEF TypeOK, Picked
  <2>4. UNCHANGED <<pending, nxt, running>>
    BY <1>2 DEF Refuse
  <2>5. \A d \in Call : d.client \in Clients /\ d.seq \in Nat
    BY DEF Call, Seqs
  <2> QED
    BY <1>a, <2>1, <2>2, <2>3, <2>4, <2>5
<1>3. CASE Close \/ Release \/ Released \/ UNCHANGED vars
  BY <1>a, <1>3 DEF Close, Release, Released, vars
<1>4. CASE Sleep \/ Exit \/ TakeNone
  BY <1>a, <1>4 DEF Sleep, Exit, TakeNone
<1>5. CASE Take
  <2>1. /\ Pick \in 1 .. Len(pending) /\ pending \in Seq(Call)
        /\ pending' = RemoveAt(pending, Pick)
        /\ nxt'.call = pending[Pick] /\ UNCHANGED <<running, sent>>
    BY <1>a, <1>5, PickProps DEF Take, TypeOK
  <2>2. \A i \in 1 .. Len(pending') :
          \E j \in 1 .. Len(pending) : pending'[i] = pending[j]
    <3> DEFINE k == Pick
    <3>1. /\ Len(pending') = Len(pending) - 1
          /\ \A j \in 1 .. Len(pending) - 1 :
               pending'[j] = IF j < k THEN pending[j] ELSE pending[j + 1]
      BY <2>1, RemoveAtProps
    <3> HIDE DEF k
    <3> QED
      BY <2>1, <3>1
  <2> QED
    BY <1>a, <2>1, <2>2
<1>6. CASE Prepare
  <2>1. nxt'.call = nxt.call /\ nxt # None /\ UNCHANGED <<pending, running, sent>>
    BY <1>a, <1>6 DEF Prepare, ControlInv, TypeOK, Picked
  <2> QED
    BY <1>a, <2>1
<1>7. CASE PrepareFails \/ NoWait \/ Wait \/ WaitTimesOut \/ WaitRaises
  BY <1>a, <1>7 DEF PrepareFails, NoWait, Wait, WaitTimesOut, WaitRaises
<1>8. CASE Start \/ StartRaises \/ NoStart \/ Finish
  BY <1>a, <1>8 DEF Start, StartRaises, NoStart, Finish
<1> QED
  BY <1>1, <1>2, <1>3, <1>4, <1>5, <1>6, <1>7, <1>8
  DEF Next, Submitters, DeviceThread

\* What a submission puts at the end of the queue.
LEMMA SubmitProps ==
  ASSUME TypeOK, NEW c \in Clients, NEW x \in Xclbins, NEW sha \in Streams,
         NEW stream, Submit(c, x, sha, stream)
  PROVE  \E call \in Call :
           /\ call.client = c /\ call.seq = sent[c] + 1
           /\ Id(call) = <<c, sent[c] + 1>> /\ Id(call) \in Clients \X Seqs
           /\ Len(pending') = Len(pending) + 1
           /\ \A i \in 1 .. Len(pending) : pending'[i] = pending[i]
           /\ pending'[Len(pending) + 1] = call
           /\ status' = [status EXCEPT ![Id(call)] = "queued"]
           /\ sent' = [sent EXCEPT ![c] = sent[c] + 1]
           /\ pc' = IF pc = "sleep" THEN "lock" ELSE pc
           /\ UNCHANGED <<contexts, ctx, healthy, closing, current, runLen,
                          nxt, running, waitOk, skipped>>
<1> DEFINE call == [client |-> c, seq |-> sent[c] + 1, xclbin |-> x,
                    sha |-> sha]
<1>1. call \in Call /\ call.client = c /\ call.seq = sent[c] + 1
      /\ Id(call) = <<c, sent[c] + 1>> /\ Id(call) \in Clients \X Seqs
  BY DEF TypeOK, Submit, Call, Seqs, Id
<1>2. /\ pending' = Append(pending, call)
      /\ status' = [status EXCEPT ![Id(call)] = "queued"]
      /\ sent' = [sent EXCEPT ![c] = sent[c] + 1]
      /\ pc' = IF pc = "sleep" THEN "lock" ELSE pc
      /\ UNCHANGED <<contexts, ctx, healthy, closing, current, runLen,
                     nxt, running, waitOk, skipped>>
  BY DEF Submit, Notify
<1> HIDE DEF call
<1>3. /\ Len(pending') = Len(pending) + 1
      /\ \A i \in 1 .. Len(pending) : pending'[i] = pending[i]
      /\ pending'[Len(pending) + 1] = call
  BY <1>1, <1>2, AppendProperties DEF TypeOK
<1> QED
  BY <1>1, <1>2, <1>3

\* What taking a call leaves in the queue: every other call, in order.
LEMMA TakeProps ==
  ASSUME IInv, Take
  PROVE  /\ Pick \in Positions /\ nxt'.call = pending[Pick]
         /\ nxt' \in Picked /\ pending[Pick] \in Call
         /\ Len(pending') = Len(pending) - 1
         /\ \A i \in 1 .. Len(pending') :
              pending'[i] = pending[IF i < Pick THEN i ELSE i + 1]
         /\ \A a \in Positions \ {Pick} :
              \E i \in 1 .. Len(pending') : pending'[i] = pending[a]
<1>1. TypeOK /\ pending # <<>> /\ pending \in Seq(Call)
  BY DEF IInv, Take, TypeOK
<1>2. Pick \in Positions /\ pending[Pick] \in Call
  BY <1>1, PickProps
<1>3. nxt'.call = pending[Pick] /\ nxt' \in Picked
  BY <1>2 DEF Take, Picked, Sides
<1> DEFINE k == Pick
<1>4. /\ Len(pending') = Len(pending) - 1
      /\ \A i \in 1 .. Len(pending) - 1 :
           pending'[i] = IF i < k THEN pending[i] ELSE pending[i + 1]
  BY <1>1, <1>2, RemoveAtProps DEF Take, Positions
<1> HIDE DEF k
<1>5. k \in 1 .. Len(pending) /\ Len(pending) \in Nat
  BY <1>1, <1>2 DEF k, Positions
<1>6. ASSUME NEW a \in 1 .. Len(pending), a # k
      PROVE  \E i \in 1 .. Len(pending') : pending'[i] = pending[a]
  <2>1. CASE a < k
    BY <1>4, <1>5, <2>1
  <2>2. CASE a > k
    <3>1. a - 1 \in 1 .. Len(pending') /\ pending'[a - 1] = pending[a]
      BY <1>4, <1>5, <2>2
    <3> QED
      BY <3>1
  <2> QED
    BY <1>5, <1>6, <2>1, <2>2
<1> QED
  BY <1>2, <1>3, <1>4, <1>5, <1>6 DEF k, Positions

LEMMA OrderStep == IInv /\ [Next]_vars => ClientOrder'
<1> SUFFICES ASSUME IInv, [Next]_vars PROVE ClientOrder'
  OBVIOUS
<1>a. TypeOK /\ ControlInv /\ SentInv /\ ClientOrder
  BY DEF IInv
<1>b. /\ pending \in Seq(Call) /\ Len(pending) \in Nat
      /\ \A i \in 1 .. Len(pending) : pending[i] \in Call
      /\ \A p \in {nxt, running} \ {None} : p.call \in Call
      /\ \A d \in Call : d.client \in Clients /\ d.seq \in Nat
      /\ \A d \in Clients : sent[d] \in Nat
  <2>1. \A d \in Call : d.client \in Clients /\ d.seq \in Nat
    BY DEF Call, Seqs
  <2>2. \A p \in {nxt, running} \ {None} : p.call \in Call
    BY <1>a DEF TypeOK, Picked
  <2> QED
    BY <1>a, <2>1, <2>2 DEF TypeOK
<1> USE DEF ClientOrder, Positions, broker
<1>1. ASSUME NEW c \in Clients, NEW x \in Xclbins, NEW sha \in Streams,
             NEW stream, Submit(c, x, sha, stream)
      PROVE  ClientOrder'
  <2>1. PICK call \in Call :
           /\ call.client = c /\ call.seq = sent[c] + 1
           /\ Len(pending') = Len(pending) + 1
           /\ \A i \in 1 .. Len(pending) : pending'[i] = pending[i]
           /\ pending'[Len(pending) + 1] = call
           /\ UNCHANGED <<nxt, running>>
    BY <1>a, <1>1, SubmitProps
  <2>2. \A i \in 1 .. Len(pending) :
          pending[i].client = c => pending[i].seq < call.seq
    BY <1>a, <1>b, <2>1 DEF SentInv
  <2>3. \A p \in {nxt, running} \ {None} :
          p.call.client = c => p.call.seq < call.seq
    BY <1>a, <1>b, <2>1 DEF SentInv
  <2>4. ASSUME NEW i \in 1 .. Len(pending'), NEW j \in 1 .. Len(pending'),
               i < j, pending'[i].client = pending'[j].client
        PROVE  pending'[i].seq < pending'[j].seq
    <3>1. CASE j = Len(pending) + 1
      BY <1>b, <2>1, <2>2, <2>4, <3>1
    <3>2. CASE j \in 1 .. Len(pending)
      <4>1. i \in 1 .. Len(pending)
        BY <1>b, <2>4, <3>2
      <4>2. pending'[i] = pending[i] /\ pending'[j] = pending[j]
        BY <2>1, <3>2, <4>1
      <4> QED
        BY <1>a, <2>4, <3>2, <4>1, <4>2
    <3> QED
      BY <1>b, <2>1, <3>1, <3>2
  <2>5. ASSUME NEW p \in {nxt', running'} \ {None}, NEW i \in 1 .. Len(pending'),
               p.call.client = pending'[i].client
        PROVE  p.call.seq < pending'[i].seq
    <3>1. CASE i = Len(pending) + 1
      BY <1>b, <2>1, <2>3, <2>5, <3>1
    <3>2. CASE i \in 1 .. Len(pending)
      BY <1>a, <1>b, <2>1, <2>5, <3>2
    <3> QED
      BY <1>b, <2>1, <3>1, <3>2
  <2> QED
    BY <1>a, <2>1, <2>4, <2>5
<1>2. ASSUME NEW c \in Clients, NEW sha \in Streams, NEW stream,
             Refuse(c, sha, stream)
      PROVE  ClientOrder'
  BY <1>a, <1>2 DEF Refuse
<1>3. CASE Close \/ Release \/ Released \/ UNCHANGED vars
  BY <1>a, <1>3 DEF Close, Release, Released, vars
<1>4. CASE Sleep \/ Exit
  BY <1>a, <1>4 DEF Sleep, Exit
<1>5. CASE TakeNone
  BY <1>a, <1>5 DEF TakeNone
<1>6. CASE Take
  <2> DEFINE k == Pick
  <2>1. /\ k \in 1 .. Len(pending) /\ nxt'.call = pending[k]
        /\ Len(pending') = Len(pending) - 1
        /\ \A i \in 1 .. Len(pending') :
             pending'[i] = pending[IF i < k THEN i ELSE i + 1]
    BY <1>6, TakeProps
  <2>2. /\ \A j \in 1 .. k - 1 : pending[j].client # pending[k].client
        /\ UNCHANGED running
    BY <1>a, <1>6, PickProps DEF Take
  <2> HIDE DEF k
  <2>3. ASSUME NEW i \in 1 .. Len(pending'), NEW j \in 1 .. Len(pending'),
               i < j, pending'[i].client = pending'[j].client
        PROVE  pending'[i].seq < pending'[j].seq
    <3> DEFINE a == IF i < k THEN i ELSE i + 1
               b == IF j < k THEN j ELSE j + 1
    <3>1. a \in 1 .. Len(pending) /\ b \in 1 .. Len(pending) /\ a < b
      BY <1>b, <2>1, <2>3
    <3>2. pending'[i] = pending[a] /\ pending'[j] = pending[b]
      BY <2>1
    <3> HIDE DEF a, b
    <3> QED
      BY <1>a, <2>3, <3>1, <3>2
  <2>4. ASSUME NEW i \in 1 .. Len(pending'),
               nxt'.call.client = pending'[i].client
        PROVE  nxt'.call.seq < pending'[i].seq
    <3> DEFINE a == IF i < k THEN i ELSE i + 1
    <3>1. a \in 1 .. Len(pending) /\ a # k
      BY <1>b, <2>1
    <3>2. pending'[i] = pending[a]
      BY <2>1
    <3> HIDE DEF a
    <3>3. pending[k].client = pending[a].client
      BY <2>1, <2>4, <3>2
    <3>4. k < a
      <4>1. ~ (a \in 1 .. k - 1)
        BY <2>2, <3>3
      <4> QED
        BY <1>b, <2>1, <3>1, <4>1
    <3> QED
      BY <1>a, <2>1, <3>1, <3>2, <3>3, <3>4
  <2>5. ASSUME NEW i \in 1 .. Len(pending'), running # None,
               running.call.client = pending'[i].client
        PROVE  running.call.seq < pending'[i].seq
    <3> DEFINE a == IF i < k THEN i ELSE i + 1
    <3>1. a \in 1 .. Len(pending) /\ pending'[i] = pending[a]
      BY <1>b, <2>1
    <3> QED
      BY <1>a, <2>5, <3>1
  <2>6. running # None /\ nxt'.call.client = running.call.client
          => running.call.seq < nxt'.call.seq
    BY <1>a, <2>1
  <2> QED
    BY <2>2, <2>3, <2>4, <2>5, <2>6
<1>7. CASE Prepare
  <2>1. nxt'.call = nxt.call /\ nxt # None /\ UNCHANGED <<pending, running>>
    BY <1>a, <1>7 DEF Prepare, ControlInv, TypeOK, Picked
  <2> QED
    BY <1>a, <2>1
<1>8. CASE PrepareFails \/ NoWait \/ Wait \/ WaitTimesOut \/ WaitRaises
  BY <1>a, <1>8 DEF PrepareFails, NoWait, Wait, WaitTimesOut, WaitRaises
<1>9. CASE Start \/ StartRaises \/ NoStart
  BY <1>a, <1>9 DEF Start, StartRaises, NoStart
<1>10. CASE Finish
  BY <1>a, <1>10 DEF Finish
<1> QED
  BY <1>1, <1>2, <1>3, <1>4, <1>5, <1>6, <1>7, <1>8, <1>9, <1>10
  DEF Next, Submitters, DeviceThread

\* The queue and the thread's hands hold different calls.
LEMMA IdsDiffer ==
  ASSUME TypeOK, ClientOrder
  PROVE  /\ \A i, j \in Positions : i # j => Id(pending[i]) # Id(pending[j])
         /\ \A p \in {nxt, running} \ {None}, i \in Positions :
              Id(p.call) # Id(pending[i])
         /\ nxt # None /\ running # None => Id(nxt.call) # Id(running.call)
<1>1. /\ \A i \in Positions : pending[i] \in Call
      /\ \A p \in {nxt, running} \ {None} : p.call \in Call
      /\ Positions \subseteq Int
  BY DEF TypeOK, Picked, Positions
<1>2. \A d \in Call : d.seq \in Nat
  BY DEF Call, Seqs
<1>3. \A d, e \in Call : Id(d) = Id(e) => d.client = e.client /\ d.seq = e.seq
  BY DEF Id
<1>4. ASSUME NEW i \in Positions, NEW j \in Positions, i # j
      PROVE  Id(pending[i]) # Id(pending[j])
  <2>1. i < j \/ j < i
    BY <1>1, <1>4
  <2> QED
    BY <1>1, <1>2, <1>3, <2>1 DEF ClientOrder
<1>5. ASSUME NEW p \in {nxt, running} \ {None}, NEW i \in Positions
      PROVE  Id(p.call) # Id(pending[i])
  BY <1>1, <1>2, <1>3 DEF ClientOrder
<1>6. nxt # None /\ running # None => Id(nxt.call) # Id(running.call)
  BY <1>1, <1>2, <1>3 DEF ClientOrder
<1> QED
  BY <1>4, <1>5, <1>6

\* What is in the queue or in the thread's hands has been sent.
LEMMA HeldSent ==
  ASSUME TypeOK, SentInv
  PROVE  /\ \A i \in Positions : /\ Id(pending[i]) \in Clients \X Seqs
                                 /\ Id(pending[i])[2] <= sent[Id(pending[i])[1]]
         /\ \A p \in {nxt, running} \ {None} :
              /\ Id(p.call) \in Clients \X Seqs
              /\ Id(p.call)[2] <= sent[Id(p.call)[1]]
<1>1. /\ \A i \in Positions : pending[i] \in Call
      /\ \A p \in {nxt, running} \ {None} : p.call \in Call
  BY DEF TypeOK, Picked, Positions
<1> QED
  BY <1>1 DEF SentInv, Id, Call

LEMMA StatusStep == IInv /\ [Next]_vars => StatusInv'
<1> SUFFICES ASSUME IInv, [Next]_vars PROVE StatusInv'
  OBVIOUS
<1>a. TypeOK /\ ControlInv /\ SentInv /\ ClientOrder /\ StatusInv
  BY DEF IInv
<1>b. /\ status \in [Clients \X Seqs -> Statuses]
      /\ pending \in Seq(Call) /\ Len(pending) \in Nat
      /\ \A d \in Clients : sent[d] \in Nat
  BY <1>a DEF TypeOK
<1>c. /\ \A i \in Positions : /\ Id(pending[i]) \in Clients \X Seqs
                              /\ Id(pending[i])[2] <= sent[Id(pending[i])[1]]
      /\ \A p \in {nxt, running} \ {None} :
           /\ Id(p.call) \in Clients \X Seqs
           /\ Id(p.call)[2] <= sent[Id(p.call)[1]]
  BY <1>a, HeldSent
<1>d. /\ \A i, j \in Positions : i # j => Id(pending[i]) # Id(pending[j])
      /\ \A p \in {nxt, running} \ {None}, i \in Positions :
           Id(p.call) # Id(pending[i])
      /\ nxt # None /\ running # None => Id(nxt.call) # Id(running.call)
  BY <1>a, IdsDiffer
<1>e. \A k \in Clients \X Seqs : k[1] \in Clients /\ k[2] \in Nat
  BY DEF Seqs
\* A step that gives one sent call another status and moves nothing else.
<1>f. ASSUME NEW k \in Clients \X Seqs, NEW s, s # "none",
             k[2] <= sent[k[1]], sent' = sent,
             status' = [status EXCEPT ![k] = s]
      PROVE  /\ \A m \in Clients \X Seqs : status'[m] = "none" <=> m[2] > sent'[m[1]]
             /\ status'[k] = s
             /\ \A m \in Clients \X Seqs : m # k => status'[m] = status[m]
  <2>1. status'[k] = s /\ \A m \in Clients \X Seqs : m # k => status'[m] = status[m]
    BY <1>b, <1>f
  <2>2. \A m \in Clients \X Seqs : status[m] = "none" <=> m[2] > sent[m[1]]
    BY <1>a DEF StatusInv
  <2>3. ~ (k[2] > sent[k[1]])
    BY <1>b, <1>e, <1>f
  <2> QED
    BY <1>f, <2>1, <2>2, <2>3
<1> USE DEF broker
<1>1. ASSUME NEW c \in Clients, NEW x \in Xclbins, NEW sha \in Streams,
             NEW stream, Submit(c, x, sha, stream)
      PROVE  StatusInv'
  <2>1. PICK call \in Call :
           /\ Id(call) = <<c, sent[c] + 1>> /\ Id(call) \in Clients \X Seqs
           /\ Len(pending') = Len(pending) + 1
           /\ \A i \in 1 .. Len(pending) : pending'[i] = pending[i]
           /\ pending'[Len(pending) + 1] = call
           /\ status' = [status EXCEPT ![Id(call)] = "queued"]
           /\ sent' = [sent EXCEPT ![c] = sent[c] + 1]
           /\ pc' = IF pc = "sleep" THEN "lock" ELSE pc
           /\ UNCHANGED <<nxt, running, waitOk>>
    BY <1>a, <1>1, SubmitProps
  <2>2. /\ status'[Id(call)] = "queued"
        /\ \A m \in Clients \X Seqs : m # Id(call) => status'[m] = status[m]
    BY <1>b, <2>1
  <2>3. sent'[c] = sent[c] + 1 /\ \A d \in Clients : d # c => sent'[d] = sent[d]
    BY <1>a, <2>1 DEF TypeOK
  <2>4. \A m \in Clients \X Seqs : status'[m] = "none" <=> m[2] > sent'[m[1]]
    <3>1. \A m \in Clients \X Seqs : status[m] = "none" <=> m[2] > sent[m[1]]
      BY <1>a DEF StatusInv
    <3>2. SUFFICES ASSUME NEW m \in Clients \X Seqs
                   PROVE  status'[m] = "none" <=> m[2] > sent'[m[1]]
      OBVIOUS
    <3>3. CASE m = Id(call)
      BY <1>b, <2>1, <2>2, <2>3, <3>3
    <3>4. CASE m # Id(call) /\ m[1] # c
      BY <1>e, <2>2, <2>3, <3>1, <3>4
    <3>5. CASE m # Id(call) /\ m[1] = c
      <4>1. m[2] # sent[c] + 1
        BY <2>1, <3>5
      <4> QED
        BY <1>b, <1>e, <2>2, <2>3, <3>1, <3>5, <4>1
    <3> QED
      BY <3>3, <3>4, <3>5
  <2>5. /\ \A i \in 1 .. Len(pending) : Id(pending[i]) # Id(call)
        /\ \A p \in {nxt, running} \ {None} : Id(p.call) # Id(call)
    BY <1>b, <1>c, <2>1 DEF Positions
  <2>6. \A i \in Positions' : status'[Id(pending'[i])] = "queued"
    <3>1. SUFFICES ASSUME NEW i \in 1 .. Len(pending')
                   PROVE  status'[Id(pending'[i])] = "queued"
      BY DEF Positions
    <3>2. CASE i = Len(pending) + 1
      BY <2>1, <2>2, <3>2
    <3>3. CASE i \in 1 .. Len(pending)
      BY <1>a, <1>c, <2>1, <2>2, <2>5, <3>3 DEF StatusInv, Positions
    <3> QED
      BY <1>b, <2>1, <3>2, <3>3
  <2> QED
    BY <1>a, <1>c, <2>1, <2>2, <2>4, <2>5, <2>6 DEF StatusInv, ControlInv
<1>2. ASSUME NEW c \in Clients, NEW sha \in Streams, NEW stream,
             Refuse(c, sha, stream)
      PROVE  StatusInv'
  <2> DEFINE n == <<c, sent[c] + 1>>
  <2>1. n \in Clients \X Seqs
    BY <1>a, <1>2 DEF Refuse, TypeOK, Seqs
  <2>2. /\ status' = [status EXCEPT ![n] = "refused"]
        /\ sent' = [sent EXCEPT ![c] = sent[c] + 1]
        /\ UNCHANGED <<pending, pc, nxt, running, waitOk>>
    BY <1>2 DEF Refuse
  <2>3. /\ status'[n] = "refused"
        /\ \A m \in Clients \X Seqs : m # n => status'[m] = status[m]
    BY <1>b, <2>1, <2>2
  <2>4. sent'[c] = sent[c] + 1 /\ \A d \in Clients : d # c => sent'[d] = sent[d]
    BY <1>a, <2>2 DEF TypeOK
  <2>5. \A m \in Clients \X Seqs : status'[m] = "none" <=> m[2] > sent'[m[1]]
    <3>1. \A m \in Clients \X Seqs : status[m] = "none" <=> m[2] > sent[m[1]]
      BY <1>a DEF StatusInv
    <3>2. SUFFICES ASSUME NEW m \in Clients \X Seqs
                   PROVE  status'[m] = "none" <=> m[2] > sent'[m[1]]
      OBVIOUS
    <3>3. CASE m = n
      BY <1>b, <2>3, <2>4, <3>3
    <3>4. CASE m # n /\ m[1] # c
      BY <1>e, <2>3, <2>4, <3>1, <3>4
    <3>5. CASE m # n /\ m[1] = c
      <4>1. m[2] # sent[c] + 1
        BY <3>5
      <4> QED
        BY <1>b, <1>e, <2>3, <2>4, <3>1, <3>5, <4>1
    <3> QED
      BY <3>3, <3>4, <3>5
  <2>6. /\ \A i \in Positions : Id(pending[i]) # n
        /\ \A p \in {nxt, running} \ {None} : Id(p.call) # n
    BY <1>b, <1>c
  <2> HIDE DEF n
  <2> QED
    BY <1>a, <1>c, <2>2, <2>3, <2>5, <2>6 DEF StatusInv, Positions
<1>3. CASE Close \/ Release \/ Released \/ UNCHANGED vars
  BY <1>a, <1>3 DEF Close, Notify, Release, Released, vars, StatusInv, ControlInv, Positions
<1>4. CASE Sleep \/ Exit
  BY <1>a, <1>4 DEF Sleep, Exit, StatusInv, Positions
<1>5. CASE TakeNone
  <2>1. /\ pending' = <<>> /\ nxt' = None /\ UNCHANGED <<sent, running>>
        /\ pc = "lock" /\ pc' = "wait"
    BY <1>a, <1>5 DEF TakeNone, ControlInv
  <2>2. \A k \in Clients \X Seqs :
          IF \E i \in Positions : Id(pending[i]) = k
          THEN status'[k] \in {"failed", status[k]} ELSE status'[k] = status[k]
    BY <1>b, <1>5 DEF TakeNone, Positions
  <2>3. \A k \in Clients \X Seqs : status'[k] = "none" <=> k[2] > sent'[k[1]]
    <3>1. \A m \in Clients \X Seqs : status[m] = "none" <=> m[2] > sent[m[1]]
      BY <1>a DEF StatusInv
    <3>2. \A i \in Positions : ~ (Id(pending[i])[2] > sent[Id(pending[i])[1]])
      BY <1>b, <1>c, <1>e
    <3> QED
      BY <2>1, <2>2, <3>1, <3>2
  <2>4. running # None => status'[Id(running.call)] = status[Id(running.call)]
    BY <1>c, <1>d, <2>2
  <2> QED
    BY <1>a, <2>1, <2>3, <2>4 DEF StatusInv, Positions
<1>6. CASE Take
  <2>1. /\ Pick \in Positions /\ nxt'.call = pending[Pick]
        /\ Len(pending') = Len(pending) - 1
        /\ \A i \in 1 .. Len(pending') :
             pending'[i] = pending[IF i < Pick THEN i ELSE i + 1]
    BY <1>6, TakeProps
  <2>2. pc = "lock" /\ pc' = "prepare" /\ UNCHANGED <<status, sent, running, waitOk>>
    BY <1>6 DEF Take
  <2> DEFINE kk == Pick
  <2>3. \A i \in 1 .. Len(pending') : \E j \in Positions : pending'[i] = pending[j]
    <3>1. kk \in 1 .. Len(pending)
      BY <2>1 DEF Positions
    <3> HIDE DEF kk
    <3>2. \A i \in 1 .. Len(pending') : (IF i < kk THEN i ELSE i + 1) \in 1 .. Len(pending)
      BY <1>b, <2>1, <3>1
    <3> QED
      BY <2>1, <3>2 DEF kk, Positions
  <2>4. \A i \in Positions' : status'[Id(pending'[i])] = "queued"
    BY <1>a, <2>2, <2>3 DEF StatusInv, Positions
  <2> QED
    BY <1>a, <2>1, <2>2, <2>4 DEF StatusInv
<1>7. CASE Prepare
  <2>1. /\ nxt'.call = nxt.call /\ nxt # None /\ pc = "prepare" /\ pc' = "wait"
        /\ UNCHANGED <<pending, running, sent, status, waitOk>>
    BY <1>a, <1>7 DEF Prepare, ControlInv, TypeOK, Picked
  <2> QED
    BY <1>a, <2>1 DEF StatusInv, Positions
<1>8. CASE PrepareFails
  <2>1. /\ nxt # None /\ nxt' = None /\ pc = "prepare" /\ pc' = "wait"
        /\ status' = [status EXCEPT ![Id(nxt.call)] = "failed"]
        /\ UNCHANGED <<pending, running, sent, waitOk>>
    BY <1>a, <1>8 DEF PrepareFails, ControlInv
  <2>2. /\ \A m \in Clients \X Seqs : status'[m] = "none" <=> m[2] > sent'[m[1]]
        /\ \A m \in Clients \X Seqs : m # Id(nxt.call) => status'[m] = status[m]
    BY <1>c, <1>f, <2>1
  <2> QED
    BY <1>a, <1>c, <1>d, <2>1, <2>2 DEF StatusInv, Positions
<1>9. CASE NoWait \/ WaitRaises
  BY <1>a, <1>9 DEF NoWait, WaitRaises, StatusInv, Positions
<1>10. CASE Wait \/ WaitTimesOut
  <2>1. PICK s \in {"executed", "hung"} :
           /\ s = IF waitOk' THEN "executed" ELSE "hung"
           /\ status' = [status EXCEPT ![Id(running.call)] = s]
           /\ running # None /\ pc = "wait" /\ pc' = "launch"
           /\ UNCHANGED <<pending, nxt, running, sent>>
    BY <1>10 DEF Wait, WaitTimesOut
  <2>2. /\ \A m \in Clients \X Seqs : status'[m] = "none" <=> m[2] > sent'[m[1]]
        /\ status'[Id(running.call)] = s
        /\ \A m \in Clients \X Seqs : m # Id(running.call) => status'[m] = status[m]
    <3>1. /\ Id(running.call) \in Clients \X Seqs /\ s # "none"
          /\ Id(running.call)[2] <= sent[Id(running.call)[1]]
          /\ sent' = sent /\ status' = [status EXCEPT ![Id(running.call)] = s]
      BY <1>c, <2>1
    <3> QED
      BY <1>f, <3>1
  <2> QED
    BY <1>a, <1>c, <1>d, <2>1, <2>2 DEF StatusInv, Positions
<1>11. CASE Start
  <2>1. /\ nxt # None /\ pc = "launch" /\ pc' = "finish"
        /\ status' = [status EXCEPT ![Id(nxt.call)] = "running"]
        /\ UNCHANGED <<pending, nxt, running, sent, waitOk>>
    BY <1>11 DEF Start
  <2>2. /\ \A m \in Clients \X Seqs : status'[m] = "none" <=> m[2] > sent'[m[1]]
        /\ status'[Id(nxt.call)] = "running"
        /\ \A m \in Clients \X Seqs : m # Id(nxt.call) => status'[m] = status[m]
    BY <1>c, <1>f, <2>1
  <2> QED
    BY <1>a, <1>c, <1>d, <2>1, <2>2 DEF StatusInv, Positions
<1>12. CASE StartRaises
  BY <1>a, <1>12 DEF StartRaises, StatusInv, Positions
<1>13. CASE NoStart
  <2>1. CASE nxt = None
    BY <1>a, <1>13, <2>1 DEF NoStart, StatusInv, Positions
  <2>2. CASE nxt # None
    <3>1. /\ nxt' = None /\ pc = "launch" /\ pc' = "finish"
          /\ status' = [status EXCEPT ![Id(nxt.call)] = "failed"]
          /\ UNCHANGED <<pending, running, sent, waitOk>>
      BY <1>13, <2>2 DEF NoStart
    <3>2. /\ \A m \in Clients \X Seqs : status'[m] = "none" <=> m[2] > sent'[m[1]]
          /\ \A m \in Clients \X Seqs : m # Id(nxt.call) => status'[m] = status[m]
      BY <1>c, <1>f, <2>2, <3>1
    <3> QED
      BY <1>a, <1>c, <1>d, <2>2, <3>1, <3>2 DEF StatusInv, Positions
  <2> QED
    BY <2>1, <2>2
<1>14. CASE Finish
  <2>1. /\ pc = "finish" /\ pc' = "lock" /\ running' = nxt /\ nxt' = None
        /\ UNCHANGED <<pending, sent, waitOk>>
    BY <1>14 DEF Finish
  <2>2. CASE running = None
    BY <1>a, <1>14, <2>1, <2>2 DEF Finish, StatusInv, Positions
  <2>3. CASE running # None
    <3>1. PICK r \in {"ok", "failed"} :
            status' = [status EXCEPT ![Id(running.call)] = r]
      BY <1>14, <2>3 DEF Finish
    <3>2. /\ \A m \in Clients \X Seqs : status'[m] = "none" <=> m[2] > sent'[m[1]]
          /\ \A m \in Clients \X Seqs : m # Id(running.call) => status'[m] = status[m]
      BY <1>c, <1>f, <2>1, <2>3, <3>1
    <3> QED
      BY <1>a, <1>c, <1>d, <2>1, <2>3, <3>2 DEF StatusInv, Positions
  <2> QED
    BY <2>2, <2>3
<1> QED
  BY <1>1, <1>2, <1>3, <1>4, <1>5, <1>6, <1>7, <1>8, <1>9, <1>10, <1>11,
     <1>12, <1>13, <1>14 DEF Next, Submitters, DeviceThread

\* Preparing completes the picked call in place.
LEMMA PrepareProps ==
  ASSUME IInv, Prepare
  PROVE  /\ nxt # None /\ nxt' # None /\ nxt' \in Picked /\ ~Stuck
         /\ nxt'.call = nxt.call /\ nxt'.side = Cleared[X].uses
         /\ nxt'.jumped = nxt.jumped
         /\ Cleared[X].uses \in Sides
<1>1. nxt # None /\ nxt \in Picked /\ ~Stuck /\ TypeOK
  BY PickedType DEF IInv, Prepare, ControlInv
<1>2. Cleared[X].uses \in Sides
  BY <1>1, LoadedProps
<1>3. nxt' \in Picked /\ nxt'.call = nxt.call /\ nxt'.side = Cleared[X].uses
      /\ nxt'.jumped = nxt.jumped
  BY <1>1, <1>2 DEF Prepare, Picked
<1> QED
  BY <1>1, <1>2, <1>3

Waiting == {"queued", "executed"} \cup OnDevice
Queued(k) == \E i \in Positions : Id(pending[i]) = k
InHand(k) == \/ nxt # None /\ Id(nxt.call) = k
             \/ running # None /\ Id(running.call) = k

LEMMA HeldDef ==
  HeldInv <=> (pc \notin {"dead", "released"} =>
                 \A k \in Clients \X Seqs :
                   status[k] \in Waiting => Queued(k) \/ InHand(k))
BY DEF HeldInv, Waiting, Queued, InHand

LEMMA HeldStep == IInv /\ [Next]_vars => HeldInv'
<1> SUFFICES ASSUME IInv, [Next]_vars,
                    pc' \notin {"dead", "released"},
                    NEW k \in Clients \X Seqs, status'[k] \in Waiting
             PROVE  Queued(k)' \/ InHand(k)'
  BY DEF HeldInv, Waiting, Queued, InHand
<1>a. TypeOK /\ ControlInv /\ HeldInv /\ StatusInv
  BY DEF IInv
<1>b. /\ status \in [Clients \X Seqs -> Statuses]
      /\ pending \in Seq(Call) /\ Len(pending) \in Nat
  BY <1>a DEF TypeOK
<1>c. /\ \A i \in Positions : Id(pending[i]) \in Clients \X Seqs
      /\ \A p \in {nxt, running} \ {None} : Id(p.call) \in Clients \X Seqs
  BY HeldSent DEF IInv
\* It was held before if it was waited for before.
<1>d. pc \notin {"dead", "released"} /\ status[k] \in Waiting =>
        Queued(k) \/ InHand(k)
  BY <1>a, HeldDef
<1> USE DEF broker
<1>1. ASSUME NEW c \in Clients, NEW x \in Xclbins, NEW sha \in Streams,
             NEW stream, Submit(c, x, sha, stream)
      PROVE  Queued(k)' \/ InHand(k)'
  <2>1. PICK call \in Call :
           /\ Id(call) \in Clients \X Seqs
           /\ Len(pending') = Len(pending) + 1
           /\ \A i \in 1 .. Len(pending) : pending'[i] = pending[i]
           /\ pending'[Len(pending) + 1] = call
           /\ status' = [status EXCEPT ![Id(call)] = "queued"]
           /\ pc' = IF pc = "sleep" THEN "lock" ELSE pc
           /\ UNCHANGED <<nxt, running>>
    BY <1>a, <1>1, SubmitProps
  <2>2. CASE k = Id(call)
    <3>1. Len(pending) + 1 \in Positions'
      BY <1>b, <2>1 DEF Positions
    <3> QED
      BY <2>1, <2>2, <3>1 DEF Queued
  <2>3. CASE k # Id(call)
    <3>1. status'[k] = status[k] /\ pc \notin {"dead", "released"}
      BY <1>b, <2>1, <2>3
    <3>2. Queued(k) \/ InHand(k)
      BY <1>d, <3>1
    <3>3. Queued(k) => Queued(k)'
      BY <1>b, <2>1 DEF Queued, Positions
    <3>4. InHand(k) => InHand(k)'
      BY <2>1 DEF InHand
    <3> QED
      BY <3>2, <3>3, <3>4
  <2> QED
    BY <2>2, <2>3
<1>2. ASSUME NEW c \in Clients, NEW sha \in Streams, NEW stream,
             Refuse(c, sha, stream)
      PROVE  Queued(k)' \/ InHand(k)'
  <2>1. status' = [status EXCEPT ![<<c, sent[c] + 1>>] = "refused"]
        /\ UNCHANGED <<pending, nxt, running, pc>>
    BY <1>2 DEF Refuse
  <2>2. status[k] \in Waiting
    BY <1>b, <2>1 DEF Waiting, OnDevice
  <2> QED
    BY <1>d, <2>1, <2>2 DEF Queued, InHand, Positions
<1>3. CASE Close \/ Sleep \/ Exit \/ NoWait \/ Released \/ UNCHANGED vars
  BY <1>d, <1>3 DEF Close, Notify, Sleep, Exit, NoWait, Released, vars,
     Queued, InHand, Positions
<1>4. CASE Release \/ WaitRaises \/ StartRaises
  BY <1>4 DEF Release, WaitRaises, StartRaises
<1>5. CASE Take
  <2>1. /\ Pick \in Positions /\ nxt'.call = pending[Pick] /\ nxt' # None
        /\ \A a \in Positions \ {Pick} :
              \E i \in 1 .. Len(pending') : pending'[i] = pending[a]
    BY <1>5, TakeProps
  <2>2. UNCHANGED <<status, running>> /\ nxt = None /\ pc = "lock"
    BY <1>a, <1>5 DEF Take, ControlInv
  <2>3. Queued(k) \/ InHand(k)
    BY <1>d, <2>2
  <2>4. ASSUME NEW a \in Positions, Id(pending[a]) = k
        PROVE  Queued(k)' \/ InHand(k)'
    BY <2>1, <2>4 DEF Queued, InHand, Positions
  <2> QED
    BY <2>2, <2>3, <2>4 DEF Queued, InHand
<1>6. CASE TakeNone
  <2>1. /\ UNCHANGED <<nxt, running>> /\ pc = "lock"
        /\ \/ pending = <<>> /\ status' = status
           \/ status' = [m \in DOMAIN status |->
                IF \E i \in 1 .. Len(pending) : Id(pending[i]) = m
                THEN "failed" ELSE status[m]]
    BY <1>6 DEF TakeNone
  <2>2. status[k] \in Waiting /\ ~Queued(k)
    BY <1>b, <2>1 DEF Waiting, OnDevice, Queued, Positions
  <2> QED
    BY <1>d, <2>1, <2>2 DEF InHand
<1>7. CASE Prepare
  <2>1. /\ nxt'.call = nxt.call /\ nxt # None /\ nxt' # None /\ pc = "prepare"
        /\ UNCHANGED <<pending, running, status>>
    BY <1>7, PrepareProps DEF Prepare
  <2> QED
    BY <1>d, <2>1 DEF Queued, InHand, Positions
<1>8. CASE PrepareFails
  <2>1. /\ nxt # None /\ status' = [status EXCEPT ![Id(nxt.call)] = "failed"]
        /\ pc = "prepare" /\ UNCHANGED <<pending, running>>
    BY <1>a, <1>8 DEF PrepareFails, ControlInv
  <2>2. k # Id(nxt.call) /\ status[k] \in Waiting
    BY <1>b, <1>c, <2>1 DEF Waiting, OnDevice
  <2> QED
    BY <1>d, <2>1, <2>2 DEF Queued, InHand, Positions
<1>9. CASE Wait \/ WaitTimesOut
  <2>1. /\ running # None /\ pc = "wait" /\ UNCHANGED <<pending, nxt, running>>
        /\ \E s : status' = [status EXCEPT ![Id(running.call)] = s]
    BY <1>9 DEF Wait, WaitTimesOut
  <2>2. k = Id(running.call) \/ status[k] \in Waiting
    BY <1>b, <2>1
  <2> QED
    BY <1>d, <2>1, <2>2 DEF Queued, InHand, Positions
<1>10. CASE Start
  <2>1. /\ nxt # None /\ pc = "launch" /\ UNCHANGED <<pending, nxt, running>>
        /\ status' = [status EXCEPT ![Id(nxt.call)] = "running"]
    BY <1>10 DEF Start
  <2>2. k = Id(nxt.call) \/ status[k] \in Waiting
    BY <1>b, <2>1
  <2> QED
    BY <1>d, <2>1, <2>2 DEF Queued, InHand, Positions
<1>11. CASE NoStart
  <2>1. /\ pc = "launch" /\ UNCHANGED <<pending, running>>
        /\ \/ nxt = None /\ status' = status
           \/ nxt # None /\ status' = [status EXCEPT ![Id(nxt.call)] = "failed"]
    BY <1>11 DEF NoStart
  <2>2. status[k] \in Waiting /\ (nxt # None => k # Id(nxt.call))
    BY <1>b, <1>c, <2>1 DEF Waiting, OnDevice
  <2> QED
    BY <1>d, <2>1, <2>2 DEF Queued, InHand, Positions
<1>12. CASE Finish
  <2>1. /\ pc = "finish" /\ running' = nxt /\ UNCHANGED pending
        /\ \/ running = None /\ status' = status
           \/ running # None /\ \E r \in {"ok", "failed"} :
                status' = [status EXCEPT ![Id(running.call)] = r]
    BY <1>12 DEF Finish
  <2>2. status[k] \in Waiting /\ (running # None => k # Id(running.call))
    BY <1>b, <1>c, <2>1 DEF Waiting, OnDevice
  <2> QED
    BY <1>d, <2>1, <2>2 DEF Queued, InHand, Positions
<1> QED
  BY <1>1, <1>2, <1>3, <1>4, <1>5, <1>6, <1>7, <1>8, <1>9, <1>10, <1>11,
     <1>12 DEF Next, Submitters, DeviceThread

LEMMA ContextsStep == IInv /\ [Next]_vars => LiveContextsOpen'
<1> SUFFICES ASSUME IInv, [Next]_vars PROVE LiveContextsOpen'
  OBVIOUS
<1>a. TypeOK /\ ControlInv /\ LiveContextsOpen
  BY DEF IInv
<1> USE DEF broker
<1>1. ASSUME NEW c \in Clients, NEW x \in Xclbins, NEW sha \in Streams,
             NEW stream, Submit(c, x, sha, stream)
      PROVE  LiveContextsOpen'
  <2>1. /\ UNCHANGED <<contexts, ctx, nxt, running>>
        /\ pc' = IF pc = "sleep" THEN "lock" ELSE pc
    BY <1>1 DEF Submit, Notify
  <2> QED
    BY <1>a, <2>1 DEF LiveContextsOpen, Live
<1>2. ASSUME NEW c \in Clients, NEW sha \in Streams, NEW stream,
             Refuse(c, sha, stream)
      PROVE  LiveContextsOpen'
  BY <1>a, <1>2 DEF Refuse, LiveContextsOpen, Live
<1>3. CASE Release
  BY <1>3 DEF Release, LiveContextsOpen
<1>4. CASE Close \/ Sleep \/ Exit \/ Released \/ UNCHANGED vars
  BY <1>a, <1>4 DEF Close, Notify, Sleep, Exit, Released, vars,
     LiveContextsOpen, Live
<1>5. CASE Take \/ TakeNone
  <2>1. /\ pc = "lock" /\ pc' \in {"prepare", "wait"}
        /\ UNCHANGED <<contexts, ctx, running>>
        /\ pc' = "wait" => nxt' = None
    BY <1>a, <1>5 DEF Take, TakeNone, ControlInv
  <2> QED
    BY <1>a, <2>1 DEF LiveContextsOpen, Live
<1>6. CASE Prepare
  <2>1. /\ nxt # None /\ ~Stuck /\ nxt' # None /\ nxt'.call = nxt.call
        /\ pc = "prepare" /\ pc' = "wait" /\ UNCHANGED running
        /\ contexts' = Opened /\ ctx' = Loaded(Id(nxt.call))
    BY <1>6, PrepareProps DEF Prepare
  <2>2. /\ Len(Opened) <= MaxContexts /\ Distinct(Opened) /\ Contains(Opened, X)
        /\ running # None /\ Contains(contexts, running.call.xclbin) =>
             Contains(Opened, running.call.xclbin)
    BY <1>a, <2>1, OpenedProps
  <2>3. /\ \A x \in Xclbins \ {X} : ctx'[x] = Cleared[x]
        /\ ctx'[X].insts = Cleared[X].insts \cup {nxt.call.sha}
    BY <1>a, <2>1, PickedType, LoadedProps
  <2>4. running # None => /\ Contains(contexts, running.call.xclbin)
                          /\ running.call.sha \in ctx[running.call.xclbin].insts
                          /\ running.call.xclbin \in Xclbins
                          /\ Cleared[running.call.xclbin] = ctx[running.call.xclbin]
    BY <1>a, <2>1, RunningType, ClearedProps DEF LiveContextsOpen, Live
  <2>5. \A p \in Live' : p = nxt' \/ p = running
    BY <2>1 DEF Live
  <2>6. running # None => /\ Contains(contexts', running.call.xclbin)
                          /\ running.call.sha \in ctx'[running.call.xclbin].insts
    BY <2>1, <2>2, <2>3, <2>4
  <2>7. Contains(contexts', nxt'.call.xclbin)
        /\ nxt'.call.sha \in ctx'[nxt'.call.xclbin].insts
    BY <2>1, <2>2, <2>3 DEF X
  <2>8. \A p \in Live' : p # None
    BY DEF Live
  <2> QED
    BY <2>1, <2>2, <2>5, <2>6, <2>7, <2>8 DEF LiveContextsOpen, Distinct
<1>7. CASE PrepareFails
  <2>1. /\ nxt # None /\ nxt' = None /\ pc = "prepare" /\ pc' = "wait"
        /\ UNCHANGED running
    BY <1>a, <1>7 DEF PrepareFails, ControlInv
  <2>2. \/ UNCHANGED <<contexts, ctx>>
        \/ ~Hit /\ ~Stuck /\ contexts' = Roomy /\ ctx' = Cleared
        \/ ~Stuck /\ contexts' = Opened /\ ctx' = Cleared
        \/ ~Stuck /\ contexts' = Opened /\
             \E data \in {Id(nxt.call), Cleared[X].bo[Cleared[X].uses]} :
               ctx' = Loaded(data)
    BY <1>7 DEF PrepareFails
  <2>3. /\ Len(contexts') <= MaxContexts /\ Distinct(contexts')
        /\ running # None /\ Contains(contexts, running.call.xclbin) =>
             Contains(contexts', running.call.xclbin)
    <3>1. UNCHANGED contexts => Len(contexts') <= MaxContexts /\ Distinct(contexts')
      BY <1>a DEF LiveContextsOpen, Distinct
    <3>2. ~Hit /\ ~Stuck =>
            /\ Len(Roomy) <= MaxContexts /\ Distinct(Roomy)
            /\ running # None /\ Contains(contexts, running.call.xclbin) =>
                 Contains(Roomy, running.call.xclbin)
      <4>1. SUFFICES ASSUME ~Hit, ~Stuck
                     PROVE  /\ Len(Roomy) <= MaxContexts /\ Distinct(Roomy)
                            /\ running # None /\ Contains(contexts, running.call.xclbin) =>
                                 Contains(Roomy, running.call.xclbin)
        OBVIOUS
      <4>2. /\ Roomy \in Seq(Xclbins) /\ Len(Roomy) < MaxContexts
            /\ Distinct(Roomy)
            /\ running # None /\ Contains(contexts, running.call.xclbin) =>
                 Contains(Roomy, running.call.xclbin)
        BY <1>a, <2>1, <4>1, RoomyProps
      <4> QED
        BY <4>2
    <3>3. ~Stuck =>
            /\ Len(Opened) <= MaxContexts /\ Distinct(Opened)
            /\ running # None /\ Contains(contexts, running.call.xclbin) =>
                 Contains(Opened, running.call.xclbin)
      BY <1>a, <2>1, OpenedProps
    <3> QED
      BY <2>2, <3>1, <3>2, <3>3
  <2>4. running # None => /\ Contains(contexts, running.call.xclbin)
                          /\ running.call.sha \in ctx[running.call.xclbin].insts
                          /\ running.call.xclbin \in Xclbins
    BY <1>a, <2>1, RunningType DEF LiveContextsOpen, Live
  <2>5. running # None =>
          running.call.sha \in ctx'[running.call.xclbin].insts
    <3>1. SUFFICES ASSUME running # None
                   PROVE  running.call.sha \in ctx'[running.call.xclbin].insts
      OBVIOUS
    <3>2. ~Stuck => Cleared[running.call.xclbin] = ctx[running.call.xclbin]
      BY <1>a, <2>1, <3>1, ClearedProps
    <3>3. ~Stuck => \A data \in {Id(nxt.call), Cleared[X].bo[Cleared[X].uses]} :
            running.call.sha \in Loaded(data)[running.call.xclbin].insts
      <4>1. SUFFICES ASSUME ~Stuck, NEW data \in (Clients \X Seqs) \cup {None}
                     PROVE  running.call.sha \in Loaded(data)[running.call.xclbin].insts
        <5>1. ~Stuck => Cleared[X].bo[Cleared[X].uses] \in (Clients \X Seqs) \cup {None}
          BY <1>a, <2>1, PickedType, ClearedProps DEF Contexts
        <5> QED
          BY <1>a, <2>1, <5>1, PickedType
      <4>2. /\ \A x \in Xclbins \ {X} : Loaded(data)[x] = Cleared[x]
            /\ Loaded(data)[X].insts = Cleared[X].insts \cup {nxt.call.sha}
        BY <1>a, <2>1, <4>1, LoadedProps
      <4> QED
        BY <2>4, <3>1, <3>2, <4>1, <4>2
    <3> QED
      BY <2>2, <2>4, <3>1, <3>2, <3>3
  <2>6. \A p \in Live' : p = running /\ p # None
    BY <2>1 DEF Live
  <2> QED
    BY <2>1, <2>3, <2>4, <2>5, <2>6 DEF LiveContextsOpen, Distinct
<1>8. CASE NoWait \/ Wait \/ WaitTimesOut \/ WaitRaises
  BY <1>a, <1>8 DEF NoWait, Wait, WaitTimesOut, WaitRaises,
     LiveContextsOpen, Live
<1>9. CASE Start \/ StartRaises \/ NoStart \/ Finish
  BY <1>a, <1>9 DEF Start, StartRaises, NoStart, Finish,
     LiveContextsOpen, Live
<1> QED
  BY <1>1, <1>2, <1>3, <1>4, <1>5, <1>6, <1>7, <1>8, <1>9
  DEF Next, Submitters, DeviceThread

\* The BO set of a running call is never the one the next call is given:
\* its context's use count has moved on (TurnInv), eviction spares it, and a
\* call of another context fills another context's sets.
LEMMA BuffersStep ==
  IInv /\ [Next]_vars => LiveBuffersPrivate' /\ TurnInv'
<1> SUFFICES ASSUME IInv, [Next]_vars
             PROVE  LiveBuffersPrivate' /\ TurnInv'
  OBVIOUS
<1>a. TypeOK /\ ControlInv /\ LiveBuffersPrivate /\ TurnInv
  BY DEF IInv
<1> USE DEF broker
<1>1. ASSUME NEW c \in Clients, NEW x \in Xclbins, NEW sha \in Streams,
             NEW stream, Submit(c, x, sha, stream)
      PROVE  LiveBuffersPrivate' /\ TurnInv'
  <2>1. /\ UNCHANGED <<ctx, nxt, running>>
        /\ pc' = IF pc = "sleep" THEN "lock" ELSE pc
    BY <1>1 DEF Submit, Notify
  <2> QED
    BY <1>a, <2>1 DEF LiveBuffersPrivate, Live, TurnInv, ControlInv
<1>2. ASSUME NEW c \in Clients, NEW sha \in Streams, NEW stream,
             Refuse(c, sha, stream)
      PROVE  LiveBuffersPrivate' /\ TurnInv'
  BY <1>a, <1>2 DEF Refuse, LiveBuffersPrivate, Live, TurnInv
<1>3. CASE Release
  BY <1>3 DEF Release, LiveBuffersPrivate, TurnInv
<1>4. CASE Close \/ Sleep \/ Exit \/ Released \/ UNCHANGED vars
  BY <1>a, <1>4 DEF Close, Notify, Sleep, Exit, Released, vars,
     LiveBuffersPrivate, Live, TurnInv, ControlInv
<1>5. CASE Take \/ TakeNone
  <2>1. /\ pc = "lock" /\ pc' \in {"prepare", "wait"}
        /\ UNCHANGED <<ctx, running>>
        /\ pc' = "wait" => nxt' = None
    BY <1>a, <1>5 DEF Take, TakeNone, ControlInv
  <2> QED
    BY <1>a, <2>1 DEF LiveBuffersPrivate, Live, TurnInv
<1>6. CASE Prepare
  <2>1. /\ nxt # None /\ ~Stuck /\ nxt' # None /\ nxt'.call = nxt.call
        /\ nxt'.side = Cleared[X].uses
        /\ pc = "prepare" /\ pc' = "wait" /\ UNCHANGED running
        /\ ctx' = Loaded(Id(nxt.call))
    BY <1>6, PrepareProps DEF Prepare
  <2>2. /\ \A x \in Xclbins \ {X} : ctx'[x] = Cleared[x]
        /\ ctx'[X].uses # Cleared[X].uses
        /\ ctx'[X].bo[Cleared[X].uses] = Id(nxt.call)
        /\ \A s \in Sides \ {Cleared[X].uses} : ctx'[X].bo[s] = Cleared[X].bo[s]
    BY <1>a, <2>1, PickedType, LoadedProps
  <2>3. running # None =>
          /\ running.side \in Sides /\ running.call.xclbin \in Xclbins
          /\ Cleared[running.call.xclbin] = ctx[running.call.xclbin]
          /\ ctx[running.call.xclbin].bo[running.side] = Id(running.call)
          /\ ctx[running.call.xclbin].uses # running.side
    BY <1>a, <2>1, RunningType, ClearedProps
    DEF LiveBuffersPrivate, Live, TurnInv, Picked
  <2>4. running # None =>
          ctx'[running.call.xclbin].bo[running.side] = Id(running.call)
    BY <2>2, <2>3
  <2>5. ctx'[nxt'.call.xclbin].bo[nxt'.side] = Id(nxt'.call)
        /\ ctx'[nxt'.call.xclbin].uses # nxt'.side
    BY <2>1, <2>2 DEF X
  <2>6. \A p \in Live' : p # None /\ (p = nxt' \/ p = running)
    BY <2>1 DEF Live
  <2> QED
    BY <2>1, <2>4, <2>5, <2>6 DEF LiveBuffersPrivate, TurnInv
<1>7. CASE PrepareFails
  <2>1. /\ nxt # None /\ nxt' = None /\ pc = "prepare" /\ pc' = "wait"
        /\ UNCHANGED running
    BY <1>a, <1>7 DEF PrepareFails, ControlInv
  <2>2. \/ UNCHANGED ctx
        \/ ~Stuck /\ ctx' = Cleared
        \/ ~Stuck /\
             \E data \in {Id(nxt.call), Cleared[X].bo[Cleared[X].uses]} :
               ctx' = Loaded(data)
    BY <1>7 DEF PrepareFails
  <2>3. running # None =>
          /\ running.side \in Sides /\ running.call.xclbin \in Xclbins
          /\ ctx[running.call.xclbin].bo[running.side] = Id(running.call)
          /\ ctx[running.call.xclbin].uses # running.side
    BY <1>a, <2>1, RunningType DEF LiveBuffersPrivate, Live, TurnInv, Picked
  <2>4. ASSUME running # None
        PROVE  ctx'[running.call.xclbin].bo[running.side] = Id(running.call)
    <3>1. ~Stuck => Cleared[running.call.xclbin] = ctx[running.call.xclbin]
      BY <1>a, <2>1, <2>4, ClearedProps
    <3>2. ASSUME ~Stuck, NEW data \in (Clients \X Seqs) \cup {None}
          PROVE  Loaded(data)[running.call.xclbin].bo[running.side]
                   = Id(running.call)
      <4>1. /\ \A x \in Xclbins \ {X} : Loaded(data)[x] = Cleared[x]
            /\ \A s \in Sides \ {Cleared[X].uses} :
                 Loaded(data)[X].bo[s] = Cleared[X].bo[s]
        BY <1>a, <2>1, <3>2, LoadedProps
      <4> QED
        BY <2>3, <2>4, <3>1, <3>2, <4>1
    <3>3. ~Stuck => Cleared[X].bo[Cleared[X].uses] \in (Clients \X Seqs) \cup {None}
      BY <1>a, <2>1, PickedType, ClearedProps DEF Contexts
    <3>4. Id(nxt.call) \in Clients \X Seqs
      BY <1>a, <2>1, PickedType
    <3> QED
      BY <2>2, <2>3, <2>4, <3>1, <3>2, <3>3, <3>4
  <2>5. \A p \in Live' : p = running /\ p # None
    BY <2>1 DEF Live
  <2> QED
    BY <2>1, <2>4, <2>5 DEF LiveBuffersPrivate, TurnInv
<1>8. CASE NoWait \/ Wait \/ WaitTimesOut \/ WaitRaises
  BY <1>a, <1>8 DEF NoWait, Wait, WaitTimesOut, WaitRaises,
     LiveBuffersPrivate, Live, TurnInv
<1>9. CASE Start \/ StartRaises \/ NoStart \/ Finish
  BY <1>a, <1>9 DEF Start, StartRaises, NoStart, Finish,
     LiveBuffersPrivate, Live, TurnInv
<1> QED
  BY <1>1, <1>2, <1>3, <1>4, <1>5, <1>6, <1>7, <1>8, <1>9
  DEF Next, Submitters, DeviceThread

\* A start over the head needs a run shorter than the streak and lengthens
\* that run; a switch, which alone shortens it, never goes over the head.
LEMMA SkipStep == IInv /\ [Next]_vars => SkipInv'
<1> SUFFICES ASSUME IInv, [Next]_vars PROVE SkipInv'
  OBVIOUS
<1>a. /\ TypeOK /\ ControlInv /\ SkipInv
      /\ runLen \in Nat /\ skipped \in Nat /\ Streak \in Int
  BY DEF IInv, TypeOK
<1> USE DEF broker
<1>1. ASSUME NEW c \in Clients, NEW x \in Xclbins, NEW sha \in Streams,
             NEW stream, Submit(c, x, sha, stream)
      PROVE  SkipInv'
  <2>1. /\ UNCHANGED <<current, runLen, skipped, nxt>>
        /\ pc' = IF pc = "sleep" THEN "lock" ELSE pc
    BY <1>1 DEF Submit, Notify
  <2> QED
    BY <1>a, <2>1 DEF SkipInv
<1>2. ASSUME NEW c \in Clients, NEW sha \in Streams, NEW stream,
             Refuse(c, sha, stream)
      PROVE  SkipInv'
  BY <1>a, <1>2 DEF Refuse, SkipInv
<1>3. CASE Close \/ Release \/ Sleep \/ Exit \/ Released \/ UNCHANGED vars
  BY <1>a, <1>3 DEF Close, Notify, Release, Sleep, Exit, Released, vars, SkipInv
<1>4. CASE Take
  <2>1. /\ nxt'.call = pending[Pick] /\ nxt'.jumped = (Pick # 1)
        /\ skipped' = IF Pick = 1 THEN 0 ELSE skipped
        /\ UNCHANGED <<current, runLen>>
    BY <1>4 DEF Take
  <2>2. Pick # 1 => runLen < Streak /\ pending[Pick].xclbin = current
    BY <1>a, <1>4, PickProps DEF Take
  <2> QED
    BY <1>a, <2>1, <2>2 DEF SkipInv
<1>5. CASE TakeNone
  BY <1>a, <1>5 DEF TakeNone, ControlInv, SkipInv
<1>6. CASE Prepare
  <2>1. /\ nxt # None /\ nxt'.call = nxt.call /\ nxt'.jumped = nxt.jumped
        /\ pc = "prepare" /\ UNCHANGED <<current, runLen, skipped>>
    BY <1>6, PrepareProps DEF Prepare
  <2> QED
    BY <1>a, <2>1 DEF SkipInv
<1>7. CASE PrepareFails \/ NoWait \/ Wait \/ WaitTimesOut \/ WaitRaises
  BY <1>a, <1>7 DEF PrepareFails, NoWait, Wait, WaitTimesOut, WaitRaises, SkipInv
<1>8. CASE Start \/ StartRaises
  <2>1. /\ nxt # None /\ pc = "launch" /\ X \in Xclbins /\ X # None
        /\ current' = X /\ runLen' = IF current = X THEN runLen + 1 ELSE 1
        /\ pc' \in {"finish", "dead"} /\ UNCHANGED nxt
    BY <1>a, <1>8, PickedType DEF Start, StartRaises, SwitchTo
  <2>2. \/ skipped' = skipped
        \/ nxt.jumped /\ skipped' = skipped + 1
    BY <1>8 DEF Start, StartRaises
  <2>3. nxt.jumped => current = X /\ runLen < Streak
    BY <1>a, <2>1 DEF SkipInv, X
  <2>4. ~nxt.jumped => skipped = 0
    BY <1>a, <2>1 DEF SkipInv
  <2> QED
    BY <1>a, <2>1, <2>2, <2>3, <2>4 DEF SkipInv
<1>9. CASE NoStart \/ Finish
  BY <1>a, <1>9 DEF NoStart, Finish, SkipInv
<1> QED
  BY <1>1, <1>2, <1>3, <1>4, <1>5, <1>6, <1>7, <1>8, <1>9
  DEF Next, Submitters, DeviceThread

-----------------------------------------------------------------------------
(* The theorems.                                                           *)

LEMMA InvInit == Init => IInv
<1> SUFFICES ASSUME Init PROVE IInv
  OBVIOUS
<1> USE DEF Init
<1>1. TypeOK
  <2>1. Blank \in [insts : SUBSET Streams, uses : Sides,
                   bo : [Sides -> (Clients \X Seqs) \cup {None}]]
    BY DEF Blank, Sides
  <2>2. ctx \in [Xclbins -> [insts : SUBSET Streams, uses : Sides,
                            bo : [Sides -> (Clients \X Seqs) \cup {None}]]]
    BY <2>1
  <2>3. sent \in [Clients -> 0 .. MaxCalls]
    OBVIOUS
  <2>4. status \in [Clients \X Seqs -> Statuses]
    BY DEF Statuses
  <2>5. <<>> \in Seq(Call) /\ <<>> \in Seq(Xclbins)
    OBVIOUS
  <2> QED
    BY <2>2, <2>3, <2>4, <2>5 DEF TypeOK
<1>2. ControlInv /\ TurnInv /\ SkipInv
  BY DEF ControlInv, TurnInv, SkipInv
<1>3. SentInv /\ ClientOrder
  BY DEF SentInv, ClientOrder, Positions
<1>4. StatusInv /\ HeldInv
  <2>1. \A k \in Clients \X Seqs : k[1] \in Clients /\ k[2] \in 1 .. MaxCalls
    BY DEF Seqs
  <2> QED
    BY <2>1 DEF StatusInv, HeldInv, Positions, OnDevice
<1>5. LiveContextsOpen /\ LiveBuffersPrivate
  BY DEF LiveContextsOpen, LiveBuffersPrivate, Live
<1> QED
  BY <1>1, <1>2, <1>3, <1>4, <1>5 DEF IInv

LEMMA InvStep == IInv /\ [Next]_vars => IInv'
BY TypeStep, ControlStep, SentStep, OrderStep, StatusStep, HeldStep,
   ContextsStep, BuffersStep, SkipStep DEF IInv

\* The state of the broker is always within its types, and the parts of IInv
\* hold in it.
THEOREM Invariance == Spec => []IInv
<1>1. Init => IInv
  BY InvInit
<1>2. IInv /\ [Next]_vars => IInv'
  BY InvStep
<1> QED
  BY <1>1, <1>2, PTL DEF Spec

\* Every variable keeps its type.
THEOREM TypeCorrect == Spec => []TypeOK
<1>1. IInv => TypeOK
  BY DEF IInv
<1> QED
  BY <1>1, Invariance, PTL

\* The two live calls never share a buffer.
THEOREM BuffersPrivate == Spec => []LiveBuffersPrivate
<1>1. IInv => LiveBuffersPrivate
  BY DEF IInv
<1> QED
  BY <1>1, Invariance, PTL

\* The context limit holds, and eviction spares live calls' contexts.
THEOREM ContextsOpen == Spec => []LiveContextsOpen
<1>1. IInv => LiveContextsOpen
  BY DEF IInv
<1> QED
  BY <1>1, Invariance, PTL

\* No client's calls are reordered.
THEOREM OrderKept == Spec => []ClientOrder
<1>1. IInv => ClientOrder
  BY DEF IInv
<1> QED
  BY <1>1, Invariance, PTL

\* The head of the queue is passed over fewer than streak times.
THEOREM HeadServed == Spec => []HeadNotStarved
<1>1. IInv => HeadNotStarved
  BY DEF IInv, SkipInv, TypeOK, HeadNotStarved
<1> QED
  BY <1>1, Invariance, PTL

\* No call is lost or duplicated.
THEOREM Accounted == Spec => []CallsAccounted
<1>1. IInv => CallsAccounted
  <2> SUFFICES ASSUME IInv PROVE CallsAccounted
    OBVIOUS
  <2>1. \A i, j \in Positions : Id(pending[i]) = Id(pending[j]) => i = j
    BY IdsDiffer DEF IInv
  <2>2. ASSUME pc # "dead" /\ pc # "released", NEW k \in Clients \X Seqs,
               status[k] \in {"queued", "running", "executed", "hung"}
        PROVE  \/ \E i \in Positions : Id(pending[i]) = k
               \/ \E p \in {nxt, running} \ {None} : Id(p.call) = k
    BY <2>2 DEF IInv, HeldInv, OnDevice
  <2>3. \A i \in Positions : status[Id(pending[i])] = "queued"
    BY DEF IInv, StatusInv
  <2>4. ASSUME pc # "dead" /\ pc # "released", nxt # None
        PROVE  status[Id(nxt.call)] \in {"queued", "running"}
    <3>1. pc \in {"prepare", "wait", "launch", "finish"}
      BY <2>4 DEF IInv, ControlInv, TypeOK
    <3> QED
      BY <2>4, <3>1 DEF IInv, StatusInv
  <2>5. ASSUME pc # "dead" /\ pc # "released", running # None
        PROVE  status[Id(running.call)] \in {"running", "executed", "hung"}
    <3>1. pc \in {"lock", "prepare", "wait", "launch", "finish"}
      BY <2>5 DEF IInv, ControlInv, TypeOK
    <3> QED
      BY <2>5, <3>1 DEF IInv, StatusInv
  <2> QED
    BY <2>1, <2>2, <2>3, <2>4, <2>5 DEF CallsAccounted
<1> QED
  BY <1>1, Invariance, PTL

\* close() finds every accepted call answered when the thread has returned.
THEOREM Drained == Spec => []ExitDrained
<1>1. IInv => ExitDrained
  BY DEF IInv, TypeOK, Statuses, HeldInv, ControlInv, ExitDrained, Positions,
     OnDevice, Answered
<1> QED
  BY <1>1, Invariance, PTL

\* With two contexts or more, the call that is prepared always finds room.
THEOREM RoomFound == Spec => [](MaxContexts > 1 => RoomForContext)
<1>1. ASSUME MaxContexts > 1, IInv PROVE RoomForContext
  <2> SUFFICES ASSUME Len(contexts) >= MaxContexts PROVE Victims # {}
    BY DEF RoomForContext, Stuck, Full
  <2>1. contexts \in Seq(Xclbins) /\ MaxContexts \in 1 .. 4
    BY <1>1, BrokerAssumption DEF IInv, TypeOK
  <2>2. 1 \in 1 .. Len(contexts) /\ 2 \in 1 .. Len(contexts)
    BY <1>1, <2>1
  <2>3. contexts[1] # contexts[2]
    BY <1>1, <2>2 DEF IInv, LiveContextsOpen
  <2> QED
    BY <2>2, <2>3 DEF Victims
<1>2. IInv => (MaxContexts > 1 => RoomForContext)
  BY <1>1
<1> QED
  BY <1>2, Invariance, PTL

\* After a timed-out dispatch nothing is started, evicted or overwritten.
THEOREM TimedOutLeftAlone == Spec => UnhealthyLeavesDeviceAlone
<1> DEFINE Alone ==
      ~healthy => /\ \A k \in Clients \X Seqs :
                       status'[k] = "running" => status[k] = "running"
                  /\ pc' = "released" \/ UNCHANGED <<contexts, ctx>>
<1>1. ASSUME IInv, Next, ~healthy PROVE Alone
  <2> USE <1>1
  <2>1. pc # "prepare" /\ TypeOK
    BY DEF IInv, ControlInv
  <2>2. CASE Submitters
    BY <2>1, <2>2 DEF Submitters, Submit, Refuse, Accepts, TypeOK
  <2>3. CASE Close \/ Release \/ Released
    BY <2>3 DEF Close, Release, Released, vars
  <2>4. CASE DeviceThread
    <3>1. CASE Sleep \/ Exit \/ Take \/ NoWait \/ WaitRaises \/ StartRaises
      BY <3>1 DEF Sleep, Exit, Take, NoWait, WaitRaises, StartRaises
    <3>2. CASE TakeNone
      BY <3>2, <2>1 DEF TakeNone, TypeOK
    <3>3. CASE Prepare \/ PrepareFails
      BY <3>3, <2>1 DEF Prepare, PrepareFails
    <3>4. CASE Wait \/ WaitTimesOut
      BY <3>4, <2>1 DEF Wait, WaitTimesOut, TypeOK
    <3>5. CASE Start
      BY <3>5 DEF Start
    <3>6. CASE NoStart \/ Finish
      BY <3>6, <2>1 DEF NoStart, Finish, TypeOK
    <3> QED
      BY <2>4, <3>1, <3>2, <3>3, <3>4, <3>5, <3>6 DEF DeviceThread
  <2> QED
    BY <1>1, <2>2, <2>3, <2>4 DEF Next
<1>2. IInv /\ [Next]_vars => [Alone]_vars
  BY <1>1
<1> QED
  BY <1>2, Invariance, PTL DEF Spec, UnhealthyLeavesDeviceAlone

(***************************************************************************)
(* The device scheduler implements the call service: its queue, contexts,  *)
(* buffers and pipelining never show in the calls' status.                 *)
(***************************************************************************)

\* What is in no hand is in no service call: the calls a step of the broker
\* changes are named by the service as <<client, number>>.
LEMMA SameCalls == Service!Calls = Clients \X Seqs
  BY DEF Service!Calls, Seqs

\* A queued call's identifier is one of the service's calls.
LEMMA HeldIds ==
  ASSUME TypeOK
  PROVE  /\ \A i \in Positions : Id(pending[i]) \in Clients \X Seqs
         /\ nxt # None => Id(nxt.call) \in Clients \X Seqs
         /\ running # None => Id(running.call) \in Clients \X Seqs
<1>1. \A c \in Call : Id(c) \in Clients \X Seqs
  BY DEF Call, Id
<1>2. \A i \in Positions : pending[i] \in Call
  BY DEF TypeOK, Positions
<1>3. /\ nxt # None => nxt.call \in Call
      /\ running # None => running.call \in Call
  BY DEF TypeOK, Picked
<1> QED
  BY <1>1, <1>2, <1>3

\* Nothing has been asked for.
LEMMA InitMaps == Init => Service!Init
  BY SameCalls DEF Init, Service!Init

\* submit, accepted or refused, is a request.
LEMMA SubmitMaps ==
  ASSUME IInv, Submitters
  PROVE  Service!Next
<1>1. PICK c \in Clients :
        /\ sent[c] < MaxCalls /\ sent' = [sent EXCEPT ![c] = @ + 1]
        /\ UNCHANGED healthy
        /\ \/ healthy /\ status' = [status EXCEPT ![<<c, sent[c] + 1>>] = "queued"]
           \/ status' = [status EXCEPT ![<<c, sent[c] + 1>>] = "refused"]
  <2>1. PICK c \in Clients, sha \in Streams,
             stream \in {"nothing", "stream", "corrupt"} :
          \/ \E x \in Xclbins : Submit(c, x, sha, stream)
          \/ Refuse(c, sha, stream)
    BY DEF Submitters
  <2>2. ASSUME NEW x \in Xclbins, Submit(c, x, sha, stream)
        PROVE  /\ sent[c] < MaxCalls /\ sent' = [sent EXCEPT ![c] = @ + 1]
               /\ healthy /\ UNCHANGED healthy
               /\ status' = [status EXCEPT ![<<c, sent[c] + 1>>] = "queued"]
    BY <2>2 DEF Submit, Accepts, Id
  <2>3. ASSUME Refuse(c, sha, stream)
        PROVE  /\ sent[c] < MaxCalls /\ sent' = [sent EXCEPT ![c] = @ + 1]
               /\ UNCHANGED healthy
               /\ status' = [status EXCEPT ![<<c, sent[c] + 1>>] = "refused"]
    BY <2>3 DEF Refuse
  <2> QED
    BY <2>1, <2>2, <2>3
<1>2. Service!Request(c)
  BY <1>1 DEF Service!Request, Service!Become
<1> QED
  BY <1>2 DEF Service!Next

\* Emptying the queue after a timeout drops the calls in it.
LEMMA TakeNoneMaps ==
  ASSUME IInv, TakeNone
  PROVE  Service!Next \/ UNCHANGED Service!vars
<1> DEFINE K == {Id(pending[i]) : i \in Positions}
<1>1. UNCHANGED <<sent, healthy>>
  BY DEF TakeNone, broker
<1>2. CASE UNCHANGED status
  BY <1>1, <1>2 DEF Service!vars
<1>3. CASE status' = [k \in DOMAIN status |->
             IF \E i \in 1 .. Len(pending) : Id(pending[i]) = k
             THEN "failed" ELSE status[k]]
  <2>1. K \in SUBSET Service!Calls
    BY HeldIds, SameCalls DEF IInv
  <2>2. DOMAIN status = Service!Calls
    BY SameCalls DEF IInv, TypeOK
  <2>3. status' = [k \in Service!Calls |-> IF k \in K THEN "failed" ELSE status[k]]
    BY <1>3, <2>2 DEF Positions
  <2>4. \A k \in K : status[k] = "queued"
    BY DEF IInv, StatusInv
  <2>5. Service!Drop(K)
    BY <1>1, <2>3, <2>4 DEF Service!Drop, Service!Is
  <2> QED
    BY <2>1, <2>5 DEF Service!Next
<1> QED
  BY <1>2, <1>3 DEF TakeNone

\* A call that fails before it is started is dropped.
LEMMA PreparedDropped ==
  ASSUME IInv, nxt # None, pc \in {"prepare", "wait", "launch"},
         status' = [status EXCEPT ![Id(nxt.call)] = "failed"],
         UNCHANGED <<sent, healthy>>
  PROVE  Service!Next
<1> DEFINE k == Id(nxt.call)
<1>1. k \in Service!Calls /\ status[k] = "queued"
  BY HeldIds, SameCalls DEF IInv, StatusInv
<1>2. status' = [j \in Service!Calls |-> IF j \in {k} THEN "failed" ELSE status[j]]
  BY <1>1, SameCalls DEF IInv, TypeOK
<1>3. Service!Drop({k})
  BY <1>1, <1>2 DEF Service!Drop, Service!Is
<1> QED
  BY <1>1, <1>3 DEF Service!Next

\* The wait for a dispatch, in time or not, is its return.
LEMMA WaitMaps ==
  ASSUME IInv, Wait \/ WaitTimesOut
  PROVE  Service!Next
<1> DEFINE k == Id(running.call)
<1>1. k \in Service!Calls /\ status[k] = "running"
  BY HeldIds, SameCalls DEF IInv, StatusInv, Wait, WaitTimesOut
<1>2. Service!Return(k)
  BY <1>1 DEF Wait, WaitTimesOut, broker, Service!Return, Service!Is,
     Service!Become
<1> QED
  BY <1>1, <1>2 DEF Service!Next

\* A call is started alone, and after the earlier ones of its client.
LEMMA StartMaps ==
  ASSUME IInv, Start
  PROVE  Service!Next
<1> DEFINE k == Id(nxt.call)
<1>1. /\ nxt # None /\ healthy /\ pc = "launch" /\ UNCHANGED <<sent, healthy>>
      /\ status' = [status EXCEPT ![k] = "running"]
  BY DEF Start, broker
<1>2. k \in Service!Calls /\ status[k] = "queued"
  BY <1>1, HeldIds, SameCalls DEF IInv, StatusInv
<1>3. \A j \in Service!Calls : status[j] # "running"
  <2> SUFFICES ASSUME NEW j \in Clients \X Seqs, status[j] = "running"
               PROVE  FALSE
    BY SameCalls
  <2>1. \/ \E i \in Positions : Id(pending[i]) = j
        \/ \E p \in {nxt, running} \ {None} : Id(p.call) = j
    BY <1>1 DEF IInv, HeldInv, OnDevice
  <2> QED
    BY <1>1, <1>2, <2>1 DEF IInv, StatusInv
<1>4. \A n \in 1 .. k[2] - 1 : status[<<k[1], n>>] # "queued"
  <2> SUFFICES ASSUME NEW n \in 1 .. k[2] - 1, status[<<k[1], n>>] = "queued"
               PROVE  FALSE
    OBVIOUS
  <2>1. k = <<nxt.call.client, nxt.call.seq>> /\ nxt.call \in Call
    BY <1>1 DEF IInv, TypeOK, Picked, Id
  <2>2. <<k[1], n>> \in Clients \X Seqs /\ n < nxt.call.seq
    <3>1. k[1] = nxt.call.client /\ k[2] = nxt.call.seq
      BY <2>1
    <3>2. nxt.call.client \in Clients /\ nxt.call.seq \in 1 .. MaxCalls
      BY <2>1 DEF Call, Seqs
    <3>3. n < nxt.call.seq /\ n \in 1 .. MaxCalls
      BY <3>1, <3>2, BrokerAssumption
    <3> QED
      BY <3>1, <3>2, <3>3 DEF Seqs
  <2>3. \/ \E i \in Positions : Id(pending[i]) = <<k[1], n>>
        \/ \E p \in {nxt, running} \ {None} : Id(p.call) = <<k[1], n>>
    BY <1>1, <2>2 DEF IInv, HeldInv
  <2>4. ASSUME NEW i \in Positions, Id(pending[i]) = <<k[1], n>> PROVE FALSE
    <3>1. pending[i].client = nxt.call.client /\ pending[i].seq = n
      BY <2>1, <2>4 DEF Id
    <3>2. nxt.call.seq < pending[i].seq
      BY <1>1, <3>1 DEF IInv, ClientOrder
    <3> QED
      BY <2>1, <2>2, <3>1, <3>2 DEF Call, Seqs
  <2>5. Id(nxt.call) # <<k[1], n>>
    BY <2>1, <2>2 DEF Id, Call, Seqs
  <2>6. running # None => status[Id(running.call)] # "queued"
    BY <1>1 DEF IInv, StatusInv
  <2> QED
    BY <2>3, <2>4, <2>5, <2>6
<1>5. Service!Start(k)
  BY <1>1, <1>2, <1>3, <1>4 DEF Service!Start, Service!Is, Service!Become
<1> QED
  BY <1>2, <1>5 DEF Service!Next

\* Copying the outputs back, or failing to, answers the call.
LEMMA FinishMaps ==
  ASSUME IInv, Finish
  PROVE  Service!Next \/ UNCHANGED Service!vars
<1> DEFINE k == Id(running.call)
<1>1. UNCHANGED <<sent, healthy>> /\ pc = "finish"
  BY DEF Finish, broker
<1>2. CASE UNCHANGED status
  BY <1>1, <1>2 DEF Service!vars
<1>3. ASSUME running # None, NEW r \in {"ok", "failed"}, r = "ok" => waitOk,
             status' = [status EXCEPT ![k] = r]
      PROVE  Service!Next
  <2>1. k \in Service!Calls /\ status[k] = IF waitOk THEN "executed" ELSE "hung"
    BY <1>1, <1>3, HeldIds, SameCalls DEF IInv, StatusInv
  <2>2. Service!Answer(k)
    BY <1>1, <1>3, <2>1 DEF Service!Answer, Service!Is, Service!Become
  <2> QED
    BY <2>1, <2>2 DEF Service!Next
<1> QED
  BY <1>2, <1>3 DEF Finish

\* Every step of the broker is a step of the service or changes nothing of it.
LEMMA StepMaps ==
  IInv /\ [Next]_vars => [Service!Next]_(Service!vars)
<1> SUFFICES ASSUME IInv, [Next]_vars
             PROVE  Service!Next \/ UNCHANGED Service!vars
  OBVIOUS
<1>1. CASE Submitters
  BY <1>1, SubmitMaps
<1>2. CASE Close \/ Release \/ Released \/ UNCHANGED vars
  BY <1>2 DEF Close, Release, Released, vars, Service!vars
<1>3. CASE DeviceThread
  <2>1. CASE Sleep \/ Exit \/ Take \/ Prepare \/ NoWait \/ WaitRaises \/ StartRaises
    BY <2>1 DEF Sleep, Exit, Take, Prepare, NoWait, WaitRaises, StartRaises,
       broker, Service!vars
  <2>2. CASE TakeNone
    BY <2>2, TakeNoneMaps
  <2>3. CASE PrepareFails
    BY <2>3, PreparedDropped DEF PrepareFails, broker, IInv, ControlInv
  <2>4. CASE Wait \/ WaitTimesOut
    BY <2>4, WaitMaps
  <2>5. CASE Start
    BY <2>5, StartMaps
  <2>6. CASE NoStart
    BY <2>6, PreparedDropped DEF NoStart, broker, Service!vars
  <2>7. CASE Finish
    BY <2>7, FinishMaps
  <2> QED
    BY <1>3, <2>1, <2>2, <2>3, <2>4, <2>5, <2>6, <2>7 DEF DeviceThread
<1> QED
  BY <1>1, <1>2, <1>3 DEF Next

\* Every behaviour of the broker is one of the call service.
THEOREM Refinement == Spec => ImplementsService
  BY InitMaps, StepMaps, Invariance, PTL DEF Spec, ImplementsService, Service!Spec
=============================================================================
