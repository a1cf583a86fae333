---------------------------- MODULE SessionProof ----------------------------
(***************************************************************************)
(* Proofs about SessionRing: its inductive invariant, and the safety       *)
(* properties that follow from it, for rings of any depth, any number of   *)
(* stages and requests, and any program that looks at its waits.           *)
(***************************************************************************)
EXTENDS SessionInv, SeqLemmas

-----------------------------------------------------------------------------
(* Commands on the device.                                                 *)

\* A command that is taken has failed, or has written its BO; the others keep
\* their place.
LEMMA UnderTail ==
  ASSUME NEW q \in Seq(Command), q # <<>>, NEW c \in Command,
         NEW p, NEW f, NEW f2, f \subseteq f2, NEW b, NEW b2,
         Under(p, q, f, b, c),
         Head(q) = c => c \in f2 \/ Drawn(p, f2, b2, c),
         Head(q).slot # c.slot => b2 = b
  PROVE  Under(p, Tail(q), f2, b2, c)
<1>1. /\ Len(q) \in Nat \ {0} /\ Head(q) = q[1]
      /\ Len(Tail(q)) = Len(q) - 1
      /\ \A i \in 1 .. Len(q) - 1 : Tail(q)[i] = q[i + 1]
  BY TailProps
<1>2. ASSUME NEW i \in 1 .. Len(q), Behind(q, c.slot, i)
      PROVE  Behind(Tail(q), c.slot, i - 1)
  BY <1>1, <1>2 DEF Behind
<1>3. ASSUME Behind(q, c.slot, 0)
      PROVE  Behind(Tail(q), c.slot, 0) /\ b2 = b
  BY <1>1, <1>3 DEF Behind
<1>4. CASE \E i \in 1 .. Len(q) : q[i] = c /\ Behind(q, c.slot, i)
  <2>1. PICK i \in 1 .. Len(q) : q[i] = c /\ Behind(q, c.slot, i)
    BY <1>4
  <2>2. Behind(Tail(q), c.slot, i - 1)
    BY <1>2, <2>1
  <2>3. CASE i = 1
    BY <1>1, <2>1, <2>2, <2>3 DEF Under
  <2>4. CASE i # 1
    <3>1. i - 1 \in 1 .. Len(Tail(q)) /\ Tail(q)[i - 1] = c
      BY <1>1, <2>1, <2>4
    <3> QED
      BY <2>2, <3>1 DEF Under
  <2> QED
    BY <2>3, <2>4
<1>5. CASE Behind(q, c.slot, 0) /\ (c \in f \/ Drawn(p, f, b, c))
  <2>1. Behind(Tail(q), c.slot, 0) /\ b2 = b
    BY <1>3, <1>5
  <2>2. Drawn(p, f, b, c) => Drawn(p, f2, b, c)
    BY DEF Drawn
  <2> QED
    BY <1>5, <2>1, <2>2 DEF Under
<1> QED
  BY <1>4, <1>5 DEF Under

\* A command for another slot changes nothing.
LEMMA UnderAppend ==
  ASSUME NEW q \in Seq(Command), NEW c \in Command, NEW d \in Command,
         NEW p, NEW f, NEW b, Under(p, q, f, b, c), d.slot # c.slot
  PROVE  Under(p, Append(q, d), f, b, c)
<1>1. /\ Len(Append(q, d)) = Len(q) + 1 /\ Len(q) \in Nat
      /\ Append(q, d)[Len(q) + 1] = d
      /\ \A i \in 1 .. Len(q) : Append(q, d)[i] = q[i]
  BY AppendProperties
<1>2. ASSUME NEW i \in Nat, Behind(q, c.slot, i)
      PROVE  Behind(Append(q, d), c.slot, i)
  BY <1>1, <1>2 DEF Behind
<1>3. CASE \E i \in 1 .. Len(q) : q[i] = c /\ Behind(q, c.slot, i)
  <2>1. PICK i \in 1 .. Len(q) : q[i] = c /\ Behind(q, c.slot, i)
    BY <1>3
  <2>2. i \in 1 .. Len(Append(q, d)) /\ Append(q, d)[i] = c
        /\ Behind(Append(q, d), c.slot, i)
    BY <1>1, <1>2, <2>1
  <2> QED
    BY <2>2 DEF Under
<1>4. CASE Behind(q, c.slot, 0) /\ (c \in f \/ Drawn(p, f, b, c))
  BY <1>2, <1>4 DEF Under
<1> QED
  BY <1>3, <1>4 DEF Under

\* A command that was just dispatched is the last.
LEMMA UnderNew ==
  ASSUME NEW q \in Seq(Command), NEW c \in Command, NEW p, NEW f, NEW b
  PROVE  Under(p, Append(q, c), f, b, c)
<1>1. /\ Len(Append(q, c)) = Len(q) + 1 /\ Len(q) \in Nat
      /\ Append(q, c)[Len(q) + 1] = c
  BY AppendProperties
<1>2. Behind(Append(q, c), c.slot, Len(q) + 1)
  BY <1>1 DEF Behind
<1> QED
  BY <1>1, <1>2 DEF Under

\* One that is complete was the last to write the BO, and no other is left in
\* its slot.
LEMMA UnderDone ==
  ASSUME NEW q, NEW c, NEW p, NEW f, NEW b, Under(p, q, f, b, c),
         ~ Contains(q, c), c \notin f
  PROVE  Drawn(p, f, b, c) /\ Behind(q, c.slot, 0)
BY DEF Under, Contains

\* What the constants and the kind of session determine.
LEMMA KindProps ==
  ASSUME TypeOK
  PROVE  /\ Depth \in Nat \ {0} /\ MaxReqs \in Nat /\ 0 \in Slots
         /\ Commands \in Nat \ {0} /\ (~ Monolithic => Commands = 2)
         /\ Monolithic \in BOOLEAN /\ Faults \in BOOLEAN
         /\ (Monolithic => "async" \notin program.methods)
         /\ program.requests \in 0 .. MaxReqs
         /\ "bench" \notin program.methods
<1>1. /\ Depth \in Nat \ {0} /\ Stages \in Nat \ {0} /\ MaxReqs \in Nat
      /\ program \in Program
      /\ (IF program.monolithic THEN "async" ELSE "maps")
           \notin program.methods
  BY RingAssumption DEF RingAssumption, TypeOK
<1>2. /\ program.monolithic \in BOOLEAN /\ program.faults \in BOOLEAN
      /\ program.requests \in 0 .. MaxReqs
      /\ program.methods \subseteq {"run", "async", "maps"}
  BY <1>1 DEF Program
<1> QED
  BY <1>1, <1>2 DEF Commands, Monolithic, Faults, Slots

LEMMA QueueProps ==
  ASSUME TypeOK, NEW i \in 1 .. Len(queue)
  PROVE  /\ queue[i] \in Command /\ queue[i].slot \in Slots
         /\ queue[i].of \in Nat /\ queue[i].cmd \in Nat
<1>1. queue \in Seq(Command)
  BY DEF TypeOK
<1>2. queue[i] \in Command
  BY <1>1
<1> QED
  BY <1>2 DEF Command

-----------------------------------------------------------------------------
(* The device takes a command.                                             *)

\* What Execute and GiveUp have in common.
Device ==
  /\ queue # <<>> /\ queue' = Tail(queue)
  /\ failed \subseteq failed' /\ failed' \subseteq Command
  /\ bout' \in [Slots -> Content] /\ mem' \in Content
  /\ \A s \in Slots : Head(queue).slot # s => bout'[s] = bout[s]
  /\ ~ Faults => failed' = failed
  /\ UNCHANGED <<hpc, op, req, k, issued, program, cur, handle, place, bin,
                 result, lost, closed>>

LEMMA ExecuteDevice ==
  ASSUME IInv, Execute
  PROVE  Device /\ failed' = failed
<1> DEFINE c == Head(queue)
           input == bin[c.slot].of
           drained == IF Monolithic /\ c.cmd = 1 THEN input ELSE mem.of
           pushed == IF Monolithic THEN drained ELSE input
<1>1. /\ queue \in Seq(Command) /\ failed \subseteq Command
      /\ bin \in [Slots -> Content] /\ bout \in [Slots -> Content]
      /\ mem \in Content
  BY DEF IInv, TypeOK
<1>2. queue # <<>> /\ c \in Command
  BY <1>1, TailProps DEF Execute
<1>3. c.slot \in Slots /\ c.cmd \in Nat /\ drained \in Int /\ pushed \in Int
  BY <1>1, <1>2 DEF Command, Content
<1>4. /\ bout' = [bout EXCEPT ![c.slot] = [of |-> drained, cmd |-> c.cmd]]
      /\ mem' = [of |-> pushed, cmd |-> c.cmd]
  BY DEF Execute
<1> HIDE DEF c, drained, pushed
<1>5. bout' \in [Slots -> Content] /\ mem' \in Content
  BY <1>1, <1>3, <1>4 DEF Content
<1>6. \A s \in Slots : c.slot # s => bout'[s] = bout[s]
  BY <1>1, <1>4
<1> QED
  BY <1>1, <1>2, <1>5, <1>6 DEF Execute, Device, ring, c

LEMMA GiveUpDevice ==
  ASSUME IInv, GiveUp
  PROVE  Device /\ failed' = failed \cup {Head(queue)} /\ UNCHANGED mem
<1>1. queue # <<>> /\ Head(queue) \in Command
  BY TailProps DEF IInv, TypeOK, GiveUp
<1> QED
  BY <1>1 DEF IInv, TypeOK, GiveUp, Device, ring

\* The command that is taken writes its BO, from its request's input or from
\* what the command before it left, or it fails. Either way a first dispatch
\* counts as pushed.
LEMMA TakenProps ==
  ASSUME IInv, Execute \/ GiveUp, NEW r, NEW n, NEW s \in Slots,
         Head(queue) = Cmd(r, n, s),
         bin[s] = Wrote(r, 0), Monolithic /\ n # 1 => mem.of = r,
         ~Monolithic /\ n = 2 => Pushed(r, s)
  PROVE  /\ \/ Head(queue) \in failed'
            \/ Drawn(program, failed', bout'[s], Cmd(r, n, s))
         /\ Head(queue) \in failed' \/ mem'.of = r
<1>1. CASE Execute
  <2>1. /\ Cmd(r, n, s).cmd = n /\ Cmd(r, n, s).slot = s
        /\ Cmd(r, n, s).of = r
    BY DEF Cmd
  <2>2. bin[s].of = r /\ bout \in [Slots -> Content]
        /\ Monolithic \in BOOLEAN
    BY KindProps DEF IInv, TypeOK, Wrote
  <2>3. failed' = failed
    BY <1>1, ExecuteDevice
  <2>4. /\ bout'[s].cmd = n /\ mem'.of = r
        /\ bout'[s].of = IF Monolithic /\ n = 1 THEN r ELSE mem.of
    BY <1>1, <2>1, <2>2 DEF Execute
  <2>5. bout'[s].of # r => ~Monolithic /\ (n # 2 \/ Cmd(r, 1, s) \in failed)
    BY <2>2, <2>4 DEF Pushed
  <2> QED
    BY <2>1, <2>3, <2>4, <2>5 DEF Drawn, Monolithic
<1>2. CASE GiveUp
  BY <1>2, GiveUpDevice
<1> QED
  BY <1>1, <1>2

\* A first dispatch that is taken has pushed, or has failed.
LEMMA TakenPushes ==
  ASSUME IInv, Execute \/ GiveUp, NEW r, NEW s \in Slots,
         Head(queue) = Cmd(r, 1, s), bin[s] = Wrote(r, 0)
  PROVE  mem'.of = r \/ Cmd(r, 1, s) \in failed'
BY TakenProps

\* Whoever's second dispatch is on the device stays fed.
LEMMA FedTaken ==
  ASSUME IInv, Execute \/ GiveUp, NEW r, NEW s \in Slots, bin[s] = Wrote(r, 0),
         \A i \in 1 .. Len(queue) : Fed(i, r, s), NEW i \in 1 .. Len(queue')
  PROVE  Fed(i, r, s)'
<1>0. queue # <<>> /\ queue' = Tail(queue)
  BY ExecuteDevice, GiveUpDevice DEF Device
<1>1. /\ queue \in Seq(Command) /\ Len(queue) \in Nat \ {0}
      /\ Head(queue) = queue[1] /\ Len(queue') = Len(queue) - 1
      /\ \A j \in 1 .. Len(queue) - 1 : queue'[j] = queue[j + 1]
  BY <1>0, TailProps DEF IInv, TypeOK
<1>2. i + 1 \in 2 .. Len(queue) /\ queue'[i] = queue[i + 1]
  BY <1>1
<1> SUFFICES ASSUME queue'[i] = Cmd(r, 2, s)
             PROVE  IF i = 1 THEN mem'.of = r \/ Cmd(r, 1, s) \in failed'
                             ELSE queue'[i - 1] = Cmd(r, 1, s)
  BY DEF Fed, Pushed
<1>3. queue[i] = Cmd(r, 1, s)
  <2>1. Fed(i + 1, r, s)
    BY <1>2
  <2> QED
    BY <1>2, <2>1 DEF Fed
<1>4. CASE i = 1
  BY <1>1, <1>3, <1>4, TakenPushes
<1>5. CASE i # 1
  <2>1. i - 1 \in 1 .. Len(queue) - 1
    BY <1>2, <1>5
  <2> QED
    BY <1>1, <1>3, <1>5, <2>1
<1> QED
  BY <1>4, <1>5

LEMMA PushTaken == ASSUME IInv, Execute \/ GiveUp PROVE PushInv'
<1>0. Device
  BY ExecuteDevice, GiveUpDevice
<1>1. /\ Len(queue) \in Nat \ {0} /\ Head(queue) = queue[1]
      /\ Len(queue') = Len(queue) - 1 /\ queue' \in Seq(Command)
      /\ \A i \in 1 .. Len(queue) - 1 : queue'[i] = queue[i + 1]
  BY <1>0, TailProps DEF IInv, TypeOK, Device
<1>2. queue' = <<>> => Len(queue) = 1 /\ queue[Len(queue)] = Head(queue)
  <2>1. queue' = <<>> => Len(queue') = 0
    OBVIOUS
  <2>2. queue' = <<>> => Len(queue) = 1
    BY <1>1, <2>1
  <2>3. Head(queue) = queue[1]
    BY <1>1
  <2> QED
    BY <2>2, <2>3
<1>3. queue' # <<>> => queue'[Len(queue')] = queue[Len(queue)]
  <2>1. CASE queue' # <<>>
    <3>1. Len(queue') \in 1 .. Len(queue) - 1
      BY <1>1, <2>1, EmptySeq
    <3> QED
      BY <1>1, <3>1
  <2> QED
    BY <2>1
<1> SUFFICES ASSUME ~Monolithic
             PROVE  /\ \A s \in Slots, i \in 1 .. Len(queue') :
                         Unread(s) => Fed(i, handle[s], s)'
                    /\ hpc \in {"dispatch", "wait"} =>
                         \A i \in 1 .. Len(queue') : Fed(i, req, cur)'
                    /\ hpc = "wait" /\ k = 1 /\ queue' = <<>> =>
                         mem'.of = req \/ Cmd(req, 1, cur) \in failed'
                    /\ hpc = "dispatch" /\ k = 2 =>
                         IF queue' = <<>>
                         THEN mem'.of = req \/ Cmd(req, 1, cur) \in failed'
                         ELSE queue'[Len(queue')] = Cmd(req, 1, cur)
  BY <1>0 DEF PushInv, Pushed, Fed, Unread, Cached, Device, Monolithic
<1>4. ASSUME NEW s \in Slots, NEW i \in 1 .. Len(queue'), Unread(s)
      PROVE  Fed(i, handle[s], s)'
  <2>1. bin[s] = Wrote(handle[s], 0)
    BY <1>4 DEF IInv, HandleInv, Unread
  <2>2. \A j \in 1 .. Len(queue) : Fed(j, handle[s], s)
    BY <1>4 DEF IInv, PushInv
  <2>3. handle' = handle
    BY <1>0 DEF Device
  <2>4. \A j \in 1 .. Len(queue') : Fed(j, handle[s], s)'
    BY <2>1, <2>2, <2>3, FedTaken DEF Fed, Pushed
  <2> QED
    BY <1>4, <2>4
<1>5. ASSUME hpc \in {"dispatch", "wait"}
      PROVE  \A i \in 1 .. Len(queue') : Fed(i, req, cur)'
  <2>1. cur \in Slots /\ bin[cur] = Wrote(req, 0)
    BY <1>5 DEF IInv, TypeOK, CallInv, Dispatching
  <2>2. \A j \in 1 .. Len(queue) : Fed(j, req, cur)
    BY <1>5 DEF IInv, PushInv
  <2>3. UNCHANGED <<req, cur>>
    BY <1>0 DEF Device
  <2> QED
    BY <2>1, <2>2, <2>3, FedTaken DEF Fed, Pushed
<1>6. ASSUME \/ hpc = "wait" /\ k = 1
             \/ hpc = "dispatch" /\ k = 2, queue' = <<>>
      PROVE  mem'.of = req \/ Cmd(req, 1, cur) \in failed'
  <2>1. cur \in Slots /\ bin[cur] = Wrote(req, 0)
    BY <1>6 DEF IInv, TypeOK, CallInv, Dispatching
  <2>2. queue[Len(queue)] = Cmd(req, 1, cur)
    BY <1>0, <1>6 DEF IInv, LastInv, PushInv, Device
  <2> QED
    BY <1>2, <1>6, <2>1, <2>2, TakenPushes
<1>7. hpc = "dispatch" /\ k = 2 /\ queue' # <<>> =>
        queue'[Len(queue')] = Cmd(req, 1, cur)
  BY <1>0, <1>3 DEF IInv, PushInv, Device
<1> QED
  BY <1>4, <1>5, <1>6, <1>7

\* A step outside of a dispatch that leaves the device alone.
LEMMA PushStays ==
  ASSUME IInv, UNCHANGED <<program, queue, mem, failed>>,
         hpc' \notin {"dispatch", "wait"},
         \A s \in Slots :
           Unread(s)' => handle'[s] = handle[s] /\ Unread(s)
  PROVE  PushInv'
<1> SUFFICES ASSUME ~Monolithic, NEW s \in Slots, NEW i \in 1 .. Len(queue),
                    Unread(s)'
             PROVE  queue[i] = Cmd(handle'[s], 2, s) =>
                      IF i = 1 THEN Pushed(handle'[s], s)
                               ELSE queue[i - 1] = Cmd(handle'[s], 1, s)
  BY DEF PushInv, Fed, Pushed, Monolithic
<1>1. handle'[s] = handle[s] /\ Unread(s)
  OBVIOUS
<1>2. Fed(i, handle[s], s)
  BY <1>1 DEF IInv, PushInv
<1> QED
  BY <1>1, <1>2 DEF Fed

LEMMA DeviceStep == ASSUME IInv, Execute \/ GiveUp PROVE IInv'
<1>0. Device
  BY ExecuteDevice, GiveUpDevice
<1>1. /\ queue \in Seq(Command) /\ Len(queue) \in Nat \ {0}
      /\ Head(queue) = queue[1] /\ Head(queue) \in Command
      /\ queue' \in Seq(Command) /\ Len(queue') = Len(queue) - 1
      /\ \A i \in 1 .. Len(queue) - 1 : queue'[i] = queue[i + 1]
  <2>1. queue \in Seq(Command) /\ queue # <<>> /\ queue' = Tail(queue)
    BY <1>0 DEF IInv, TypeOK, Device
  <2> QED
    BY <2>1, TailProps
<1>2. Commands' = Commands /\ Monolithic' = Monolithic /\ Faults' = Faults
  BY <1>0 DEF Device, Commands, Monolithic, Faults
<1>3. TypeOK'
  BY <1>0, <1>1 DEF IInv, TypeOK, Device
<1>4. ControlInv' /\ NothingYet' /\ CloseInv' /\ ResultOwnIfPushed'
  BY <1>0, <1>2
  DEF IInv, ControlInv, NothingYet, CloseInv, ResultOwnIfPushed, Unpushed,
      Device, Final
<1>5. OwnedInv'
  BY <1>0, <1>1
  DEF IInv, OwnedInv, Device, Abandoned, Unread, Cached
<1>6. LastInv'
  <2>1. queue' # <<>> =>
          /\ queue # <<>> /\ queue'[Len(queue')] = queue[Len(queue)]
    <3>1. CASE queue' # <<>>
      <4>1. Len(queue) - 1 \in 1 .. Len(queue) - 1
        BY <1>1, <3>1, EmptySeq
      <4> QED
        BY <1>0, <1>1, <4>1 DEF Device
    <3> QED
      BY <3>1
  <2> QED
    BY <1>0, <2>1 DEF IInv, LastInv, Device, BenchCmd, Cmd
<1>7. HandleInv'
  <2> SUFFICES ASSUME NEW s \in Slots, handle[s] # Free
               PROVE  LET r == handle[s]
                      IN /\ ~ Monolithic /\ r \in 1 .. issued /\ place[r] = s
                         /\ hpc \in Calling \cup Timing => r # req
                         /\ result[r] # Raised
                         /\ ~ Cached(r) =>
                              /\ hpc \notin Timing
                              /\ bin[s] = Wrote(r, 0)
                              /\ Under(program, queue', failed', bout'[s],
                                       Cmd(r, Commands, s))
    BY <1>0, <1>2 DEF HandleInv, Device, Cached
  <2> DEFINE r == handle[s]
             c == Cmd(r, Commands, s)
  <2>1. /\ ~ Monolithic /\ r \in 1 .. issued /\ place[r] = s
        /\ hpc \in Calling \cup Timing => r # req
        /\ result[r] # Raised
        /\ ~ Cached(r) =>
             /\ hpc \notin Timing /\ bin[s] = Wrote(r, 0)
             /\ Under(program, queue, failed, bout[s], c)
    BY DEF IInv, HandleInv
  <2>2. ASSUME ~ Cached(r)
        PROVE  Under(program, queue', failed', bout'[s], c)
    <3>1. c \in Command /\ c.of = r /\ c.cmd = Commands /\ c.slot = s
      BY <2>1, KindProps DEF IInv, TypeOK, Command, Cmd
    <3>2. Head(queue) = c =>
            c \in failed' \/ Drawn(program, failed', bout'[s], c)
      <4>1. Head(queue) = c => Pushed(r, s)
        BY <1>1, <2>1, <2>2, KindProps DEF IInv, PushInv, Fed, Unread
      <4> QED
        BY <2>1, <2>2, <4>1, TakenProps
    <3>3. Head(queue).slot # s => bout'[s] = bout[s]
      BY <1>0 DEF Device
    <3>4. queue # <<>> /\ queue' = Tail(queue) /\ failed \subseteq failed'
      BY <1>0 DEF Device
    <3> HIDE DEF c, r
    <3> QED
      BY <1>1, <2>1, <2>2, <3>1, <3>2, <3>3, <3>4, UnderTail
  <2> QED
    BY <2>1, <2>2
<1>8. hpc = "wait" =>
        LET c == Cmd(req, k, cur)
        IN  /\ c \in Command /\ c.of = req /\ c.cmd = k /\ c.slot = cur
            /\ Under(program, queue, failed, bout[cur], c)
            /\ bin[cur] = Wrote(req, 0)
            /\ Monolithic /\ k # 1 => mem.of = req
            /\ Head(queue) = c =>
                 /\ \/ c \in failed'
                    \/ Drawn(program, failed', bout'[cur], c)
                 /\ c \in failed' \/ mem'.of = req
  <2>1. CASE hpc = "wait"
    <3>1. /\ Cmd(req, k, cur) \in Command /\ Cmd(req, k, cur).of = req
          /\ Cmd(req, k, cur).cmd = k /\ Cmd(req, k, cur).slot = cur
          /\ cur \in Slots
      BY <2>1 DEF IInv, TypeOK, Command, Cmd
    <3>2. /\ Under(program, queue, failed, bout[cur], Cmd(req, k, cur))
          /\ bin[cur] = Wrote(req, 0)
      BY <2>1 DEF IInv, CallInv, Dispatching
    <3>3. Monolithic /\ k # 1 => mem.of = req
      BY <2>1, KindProps DEF IInv, ControlInv, StageInv
    <3>4. ~Monolithic /\ k = 2 /\ Head(queue) = Cmd(req, k, cur) =>
            Pushed(req, cur)
      BY <1>1, <2>1 DEF IInv, PushInv, Fed
    <3> QED
      BY <3>1, <3>2, <3>3, <3>4, TakenProps
  <2> QED
    BY <2>1
<1>9. CallInv'
  <2>1. hpc = "wait" =>
          Under(program, queue', failed', bout'[cur], Cmd(req, k, cur))
    <3>1. CASE hpc = "wait"
      <4> DEFINE c == Cmd(req, k, cur)
      <4>1. /\ c \in Command /\ c.of = req /\ c.cmd = k /\ c.slot = cur
            /\ Under(program, queue, failed, bout[cur], c)
            /\ Head(queue) = c =>
                 c \in failed' \/ Drawn(program, failed', bout'[cur], c)
        BY <1>8, <3>1
      <4>2. /\ queue # <<>> /\ queue' = Tail(queue)
            /\ failed \subseteq failed'
            /\ Head(queue).slot # cur => bout'[cur] = bout[cur]
        BY <1>0 DEF Device, IInv, TypeOK
      <4> HIDE DEF c
      <4>3. Under(program, queue', failed', bout'[cur], c)
        BY <1>1, <4>1, <4>2, UnderTail
      <4> QED
        BY <4>3 DEF c
    <3> QED
      BY <3>1
  <2>2. hpc # "read"
    BY <1>0 DEF Device, IInv, LastInv
  <2> QED
    BY <1>0, <1>2, <2>1, <2>2 DEF IInv, CallInv, Device, Dispatching
<1>10. StageInv'
  <2> SUFFICES ASSUME Monolithic
               PROVE  /\ ~ (hpc = "dispatch" /\ k > 1)
                      /\ hpc = "wait" /\ k > 1 =>
                           queue' = <<>> /\ mem'.of = req
                      /\ hpc = "wait" /\ queue' = <<>>
                         /\ Cmd(req, k, cur) \notin failed' => mem'.of = req
    BY <1>0, <1>2 DEF StageInv, Device
  <2>1. ~ (hpc = "dispatch" /\ k > 1)
    BY <1>0 DEF IInv, StageInv, Device
  <2>2. hpc = "wait" /\ k > 1 => queue' = <<>>
    <3>1. CASE hpc = "wait" /\ k > 1
      <4>1. Len(queue) = 1
        BY <1>0, <3>1 DEF IInv, StageInv, Device
      <4> QED
        BY <1>1, <4>1, EmptySeq
    <3> QED
      BY <3>1
  <2>3. hpc = "wait" /\ queue' = <<>> => Head(queue) = Cmd(req, k, cur)
    <3>1. CASE hpc = "wait" /\ queue' = <<>>
      <4>1. Len(queue) = 1
        BY <1>1, <3>1
      <4> QED
        BY <1>0, <1>1, <3>1, <4>1 DEF IInv, LastInv, Device
    <3> QED
      BY <3>1
  <2>4. hpc = "wait" /\ k > 1 => mem'.of = req
    <3>1. CASE GiveUp
      BY <3>1, GiveUpDevice DEF IInv, StageInv
    <3>2. CASE Execute
      <4>1. CASE hpc = "wait" /\ k > 1
        <5>1. Head(queue).cmd # 1
          BY <2>2, <2>3, <4>1 DEF Cmd
        <5> QED
          BY <3>2, <4>1, <5>1 DEF Execute, IInv, StageInv
      <4> QED
        BY <4>1
    <3> QED
      BY <3>1, <3>2
  <2>5. hpc = "wait" /\ queue' = <<>> /\ Cmd(req, k, cur) \notin failed'
          => mem'.of = req
    BY <1>8, <2>3
  <2> QED
    BY <2>1, <2>2, <2>4, <2>5
<1>11. PushInv'
  BY <1>0, PushTaken
<1> QED
  BY <1>3, <1>4, <1>5, <1>6, <1>7, <1>9, <1>10, <1>11 DEF IInv

-----------------------------------------------------------------------------
(* The host reads a handle.                                                *)

\* What a request may be given: its own result, if its input was pushed.
Given(r, b) == b \in Content /\ b.cmd = Commands /\ (Unpushed(r) \/ b.of = r)

LEMMA DrawnGiven ==
  ASSUME IInv, NEW r \in Reqs, NEW b \in Content,
         Drawn(program, failed, b, Cmd(r, Commands, place[r]))
  PROVE  Given(r, b)
<1>1. /\ Cmd(r, Commands, place[r]).of = r
      /\ Cmd(r, Commands, place[r]).cmd = Commands
      /\ Cmd(r, Commands, place[r]).slot = place[r]
  BY DEF Cmd
<1>2. ~Monolithic => Commands = 2
  BY KindProps DEF IInv
<1> QED
  BY <1>1, <1>2 DEF Drawn, Given, Unpushed, Monolithic

LEMMA GivenProps ==
  ASSUME IInv, NEW r \in Reqs, NEW b, Given(r, b)
  PROVE  /\ b \in Content /\ b # Nothing
         /\ Unpushed(r) \/ b = Final(r)
         /\ (~Monolithic => b # Raised)
<1>1. Commands \in Nat \ {0} /\ (~Monolithic => Commands = 2)
  BY KindProps DEF IInv
<1>2. b = [of |-> b.of, cmd |-> b.cmd]
  BY DEF Given, Content
<1> QED
  BY <1>1, <1>2 DEF Given, Final, Nothing, Raised

\* When the last command of a handle is complete, the output BO of its slot
\* is what it wrote, and nothing of the slot is on the device.
LEMMA HandleDone ==
  ASSUME IInv, NEW s \in Slots, handle[s] # Free,
         Cached(handle[s]) \/ Completed(LastCmd(handle[s]))
  PROVE  /\ handle[s] \in Reqs /\ handle[s] \in 1 .. issued
         /\ ~ Cached(handle[s]) =>
              /\ Given(handle[s], bout[place[handle[s]]])
              /\ \A i \in 1 .. Len(queue) : queue[i].slot # s
<1> DEFINE r == handle[s]
           c == Cmd(r, Commands, s)
<1>1. /\ r \in Reqs /\ r \in 1 .. issued /\ place[r] = s
      /\ ~ Cached(r) => Under(program, queue, failed, bout[s], c)
      /\ bout[s] \in Content
  BY DEF IInv, TypeOK, HandleInv
<1>2. CASE Completed(LastCmd(r)) /\ ~ Cached(r)
  <2>1. ~ Contains(queue, c) /\ c \notin failed
    BY <1>1, <1>2 DEF Completed, LastCmd
  <2>2. c.of = r /\ c.cmd = Commands /\ c.slot = s
    BY DEF Cmd
  <2> HIDE DEF c, r
  <2>3. Drawn(program, failed, bout[s], c) /\ Behind(queue, c.slot, 0)
    BY <1>1, <1>2, <2>1, UnderDone
  <2>4. Given(r, bout[s])
    BY <1>1, <2>3, DrawnGiven DEF c
  <2> QED
    BY <1>1, <2>2, <2>3, <2>4 DEF Behind, r
<1> QED
  BY <1>1, <1>2

\* Reading it gives the request what its own last command wrote.
LEMMA FetchProps ==
  ASSUME IInv, NEW s \in Slots, handle[s] # Free,
         Cached(handle[s]) \/ Completed(LastCmd(handle[s])),
         Fetch(handle[s])
  PROVE  /\ result' \in [Reqs -> Content]
         /\ Commands \in Nat \ {0}
         /\ \A r \in Reqs : r # handle[s] => result'[r] = result[r]
         /\ ~ Cached(handle[s]) => Given(handle[s], result'[handle[s]])
         /\ Cached(handle[s]) => result' = result
         /\ result'[handle[s]] \notin {Nothing, Raised}
<1>1. /\ handle[s] \in Reqs /\ handle[s] \in 1 .. issued
      /\ ~ Cached(handle[s]) =>
           Given(handle[s], bout[place[handle[s]]])
  BY HandleDone
<1>2. result \in [Reqs -> Content] /\ Commands \in Nat \ {0}
      /\ ~Monolithic
  BY KindProps DEF IInv, TypeOK, HandleInv
<1>3. ~ Cached(handle[s]) =>
        /\ bout[place[handle[s]]] \in Content
        /\ bout[place[handle[s]]] \notin {Nothing, Raised}
  BY <1>1, <1>2, GivenProps
<1>4. CASE Cached(handle[s])
  BY <1>2, <1>4 DEF Fetch, Cached
<1>5. CASE ~ Cached(handle[s])
  <2>1. result' = [result EXCEPT ![handle[s]] = bout[place[handle[s]]]]
    BY <1>5 DEF Fetch
  <2> QED
    BY <1>1, <1>2, <1>3, <1>5, <2>1
<1> QED
  BY <1>4, <1>5

\* It takes no command's owner away: those of the slot are gone.
LEMMA FetchOwned ==
  ASSUME IInv, NEW s \in Slots, handle[s] # Free,
         Cached(handle[s]) \/ Completed(LastCmd(handle[s])),
         Fetch(handle[s]), NEW i \in 1 .. Len(queue),
         hpc \notin Timing
  PROVE  LET c == queue[i]
         IN  /\ c.of \in 1 .. issued
             /\ \/ result'[c.of] = Raised \/ c.of \in lost
                \/ /\ c.slot # s /\ handle[c.slot] = c.of
                   /\ handle[c.slot] # Free
                   /\ result'[c.of] \in {Nothing, Raised}
                \/ /\ c.of = req /\ hpc \in {"dispatch", "wait"}
                   /\ c.slot = cur
<1> DEFINE c == queue[i]
<1>1. /\ c \in Command /\ c.slot \in Slots /\ c.of \in 1 .. issued
      /\ c.of \in Reqs
  <2>1. c \in Command /\ c.slot \in Slots /\ c.of \in Nat
    BY QueueProps DEF IInv
  <2>2. c.of \in 1 .. issued
    BY DEF IInv, OwnedInv
  <2>3. issued \in 0 .. MaxReqs /\ MaxReqs \in Nat
    BY KindProps DEF IInv, TypeOK
  <2> HIDE DEF c
  <2> QED
    BY <2>1, <2>2, <2>3 DEF Reqs
<1>2. /\ \A r \in Reqs : r # handle[s] => result'[r] = result[r]
      /\ Cached(handle[s]) => result' = result
  BY FetchProps
<1>3. /\ ~ Cached(handle[s]) => c.slot # s
      /\ result[handle[s]] # Raised
  BY HandleDone DEF IInv, HandleInv
<1>4. CASE Abandoned(c.of)
  BY <1>1, <1>2, <1>3, <1>4 DEF Abandoned
<1>5. CASE handle[c.slot] = c.of /\ Unread(c.slot)
  <2>1. c.slot # s
    BY <1>3, <1>5 DEF Unread
  <2>2. c.of # handle[s]
    BY <1>1, <1>5, <2>1 DEF IInv, HandleInv, Unread
  <2> QED
    BY <1>1, <1>2, <1>5, <2>1, <2>2 DEF Unread, Cached
<1> QED
  BY <1>1, <1>4, <1>5 DEF IInv, OwnedInv

\* A handle that is kept, in another slot, is as before.
LEMMA FetchHandle ==
  ASSUME IInv, NEW s \in Slots, handle[s] # Free,
         Cached(handle[s]) \/ Completed(LastCmd(handle[s])),
         Fetch(handle[s]), NEW t \in Slots, handle[t] # Free
  PROVE  /\ result'[handle[t]] # Raised
         /\ t # s => result'[handle[t]] = result[handle[t]]
<1>1. /\ result'[handle[s]] # Raised
      /\ \A r \in Reqs : r # handle[s] => result'[r] = result[r]
  BY FetchProps
<1>2. t # s => handle[t] # handle[s]
  BY DEF IInv, HandleInv
<1>3. handle[t] \in Reqs /\ result[handle[t]] # Raised
  BY DEF IInv, HandleInv, TypeOK
<1> QED
  BY <1>1, <1>2, <1>3

LEMMA HandleWaitStep ==
  ASSUME IInv, NEW r \in Reqs, HandleWait(r)
  PROVE  IInv'
<1>1. PICK s \in Slots : handle[s] = r
  BY DEF HandleWait
<1>2. /\ handle[s] # Free /\ Completed(LastCmd(handle[s]))
      /\ Fetch(handle[s]) /\ hpc = "idle" /\ ~ Cached(handle[s])
  BY <1>1 DEF HandleWait, Reqs, Free
<1>3. UNCHANGED <<hpc, op, req, k, issued, program, cur, handle, place, bin,
                  bout, queue, failed, mem, lost, closed>>
  BY DEF HandleWait, ring, device
<1>4. Commands' = Commands /\ Monolithic' = Monolithic /\ Faults' = Faults
  BY <1>3 DEF Commands, Monolithic, Faults
<1>5. /\ result' \in [Reqs -> Content]
      /\ \A q \in Reqs : q # handle[s] => result'[q] = result[q]
      /\ Unpushed(handle[s]) \/ result'[handle[s]] = Final(handle[s])
      /\ result'[handle[s]] \notin {Nothing, Raised}
      /\ handle[s] \in 1 .. issued
  BY <1>2, FetchProps, HandleDone, GivenProps
<1>6. TypeOK' /\ ControlInv' /\ LastInv' /\ CallInv' /\ StageInv' /\ CloseInv'
  BY <1>2, <1>3, <1>4, <1>5
  DEF IInv, TypeOK, ControlInv, LastInv, CallInv, StageInv, CloseInv,
      Calling, Dispatching, Preparing, Timing
<1>7. NothingYet'
  <2>1. issued \in Nat
    BY KindProps DEF IInv, TypeOK
  <2> QED
    BY <1>2, <1>3, <1>5, <2>1
    DEF IInv, NothingYet, Calling, Preparing, Dispatching
<1>8. OwnedInv'
  <2>1. hpc \notin Timing
    BY <1>2 DEF Timing
  <2> SUFFICES ASSUME NEW i \in 1 .. Len(queue)
               PROVE  /\ queue[i].of \in 1 .. issued
                      /\ \/ result'[queue[i].of] = Raised
                         \/ queue[i].of \in lost
                         \/ /\ handle[queue[i].slot] = queue[i].of
                            /\ handle[queue[i].slot] # Free
                            /\ result'[queue[i].of] \in {Nothing, Raised}
                         \/ /\ queue[i].of = req /\ queue[i].slot = cur
                            /\ hpc \in {"dispatch", "wait"}
    BY <1>3 DEF OwnedInv, Abandoned, Unread, Cached
  <2> QED
    BY <1>2, <2>1, FetchOwned
<1>9. HandleInv'
  <2>1. \A t \in Slots : handle[t] # Free =>
          /\ result'[handle[t]] # Raised
          /\ t # s => result'[handle[t]] = result[handle[t]]
    BY <1>2, FetchHandle
  <2> QED
    BY <1>3, <1>4, <1>5, <2>1 DEF IInv, HandleInv, Cached
<1>10. ResultOwnIfPushed'
  BY <1>3, <1>4, <1>5 DEF IInv, ResultOwnIfPushed, Unpushed, Final
<1>11. PushInv'
  <2>1. \A t \in Slots : Unread(t)' => Unread(t)
    <3> SUFFICES ASSUME NEW t \in Slots, handle[t] # Free,
                        result'[handle[t]] \in {Nothing, Raised}
                 PROVE  result[handle[t]] \in {Nothing, Raised}
      BY <1>3 DEF Unread, Cached
    <3>1. t # s => result'[handle[t]] = result[handle[t]]
      BY <1>2, FetchHandle
    <3> QED
      BY <1>5, <3>1
  <2> QED
    BY <1>2, <1>3, <2>1, PushStays
<1> QED
  BY <1>6, <1>7, <1>8, <1>9, <1>10, <1>11 DEF IInv

-----------------------------------------------------------------------------
(* run and run_async.                                                      *)

LEMMA CallStep ==
  ASSUME IInv, NEW o \in {"run", "async", "maps"}, Call(o)
  PROVE  IInv'
<1>1. /\ hpc = "idle" /\ ~ closed /\ issued < program.requests
      /\ o \in program.methods /\ op' = o /\ hpc' = "recycle" /\ k' = 1
      /\ issued' = issued + 1 /\ req' = issued + 1
      /\ UNCHANGED <<program, cur, handle, place, bin, bout, queue, failed,
                     mem, result, lost, closed>>
  BY DEF Call, ring, device
<1>2. /\ Commands' = Commands /\ Monolithic' = Monolithic
      /\ Faults' = Faults
  BY <1>1 DEF Commands, Monolithic, Faults
<1>3. /\ issued \in Nat /\ issued' \in 0 .. MaxReqs /\ req' \in Reqs
      /\ req' \in Nat
  BY <1>1, KindProps DEF IInv, TypeOK, Reqs
<1>4. TypeOK'
  BY <1>1, <1>3 DEF IInv, TypeOK, Calling, Preparing
<1>5. ControlInv'
  BY <1>1, <1>2, <1>3
  DEF IInv, ControlInv, Calling, Preparing, Dispatching, Timing
<1>6. NothingYet'
  BY <1>1, <1>3 DEF IInv, NothingYet
<1>7. OwnedInv'
  BY <1>1, <1>3 DEF IInv, OwnedInv, Abandoned, Unread, Cached, Timing
<1>8. LastInv' /\ CallInv' /\ StageInv' /\ CloseInv' /\ ResultOwnIfPushed'
  BY <1>1, <1>2
  DEF IInv, LastInv, CallInv, StageInv, CloseInv, ResultOwnIfPushed, Unpushed,
      Final,
      Dispatching
<1>9. HandleInv'
  BY <1>1, <1>2, <1>3 DEF IInv, HandleInv, Cached, Timing
<1>10. PushInv'
  BY <1>1, PushStays DEF Unread, Cached
<1> QED
  BY <1>4, <1>5, <1>6, <1>7, <1>8, <1>9, <1>10 DEF IInv

\* The slot's handle is read and let go.
LEMMA RecycleStep == ASSUME IInv, Recycle PROVE IInv'
<1>1. /\ hpc = "recycle" /\ hpc' = "fill"
      /\ handle' = [handle EXCEPT ![cur] = Free]
      /\ UNCHANGED <<op, req, k, issued, program, cur, place, bin, bout,
                     queue, failed, mem, lost, closed>>
  BY DEF Recycle, device
<1>2. /\ Commands' = Commands /\ Monolithic' = Monolithic
      /\ Faults' = Faults
  BY <1>1 DEF Commands, Monolithic, Faults
<1>3. /\ cur \in Slots /\ handle \in [Slots -> Reqs \cup {Free}]
      /\ issued \in Nat /\ req \in Reqs
      /\ op \in program.methods /\ k = 1 /\ req = issued
  BY <1>1, KindProps
  DEF IInv, TypeOK, ControlInv, Calling, Preparing
<1>4. \/ handle[cur] = Free /\ result' = result
      \/ /\ handle[cur] # Free
         /\ Cached(handle[cur]) \/ Completed(LastCmd(handle[cur]))
         /\ Fetch(handle[cur])
  BY DEF Recycle
<1>5. /\ result' \in [Reqs -> Content]
      /\ \A r \in Reqs : result'[r] # result[r] =>
           r = handle[cur] /\ (Unpushed(r) \/ result'[r] = Final(r))
           /\ r <= issued /\ r # req
  <2>1. CASE handle[cur] = Free
    BY <1>4, <2>1 DEF IInv, TypeOK
  <2>2. CASE handle[cur] # Free
    <3>1. handle[cur] \in 1 .. issued /\ handle[cur] # req
      BY <1>1, <1>3, <2>2 DEF IInv, HandleInv, Calling, Preparing
    <3>2. /\ result' \in [Reqs -> Content]
          /\ \A r \in Reqs : r # handle[cur] => result'[r] = result[r]
          /\ ~ Cached(handle[cur]) =>
               Given(handle[cur], result'[handle[cur]])
          /\ Cached(handle[cur]) => result' = result
          /\ handle[cur] \in Reqs
      BY <1>3, <1>4, <2>2, FetchProps
    <3>3. ~ Cached(handle[cur]) =>
            \/ Unpushed(handle[cur])
            \/ result'[handle[cur]] = Final(handle[cur])
      BY <3>2, GivenProps
    <3> QED
      BY <3>1, <3>2, <3>3
  <2> QED
    BY <2>1, <2>2
<1>6. TypeOK'
  BY <1>1, <1>3, <1>5
  DEF IInv, TypeOK, Calling, Preparing
<1>7. ControlInv' /\ CloseInv' /\ ResultOwnIfPushed'
  BY <1>1, <1>2, <1>3, <1>5
  DEF IInv, ControlInv, CloseInv, ResultOwnIfPushed, Unpushed, Final, Calling,
      Preparing,
      Dispatching, Timing
<1>8. NothingYet'
  <2>1. \A r \in Reqs : r > issued \/ r = req => result'[r] = result[r]
    BY <1>3, <1>5 DEF Reqs
  <2> QED
    BY <1>1, <1>3, <2>1 DEF IInv, NothingYet, Calling, Preparing
<1>9. OwnedInv'
  <2>0. \A i \in 1 .. Len(queue) : queue[i].slot \in Slots
    BY QueueProps DEF IInv
  <2> SUFFICES ASSUME NEW i \in 1 .. Len(queue)
               PROVE  /\ queue[i].of \in 1 .. issued
                      /\ \/ result'[queue[i].of] = Raised
                         \/ queue[i].of \in lost
                         \/ /\ queue[i].slot # cur
                            /\ handle[queue[i].slot] = queue[i].of
                            /\ handle[queue[i].slot] # Free
                            /\ result'[queue[i].of] \in {Nothing, Raised}
    BY <1>1, <1>3, <2>0 DEF OwnedInv, Abandoned, Unread, Cached
  <2>1. hpc \notin Timing /\ hpc \notin {"dispatch", "wait"}
    BY <1>1 DEF Timing
  <2>2. CASE handle[cur] = Free
    <3>1. result' = result
      BY <1>4, <2>2
    <3> QED
      BY <1>1, <2>1, <2>2, <3>1
      DEF IInv, OwnedInv, Unread, Cached, Abandoned
  <2>3. CASE handle[cur] # Free
    BY <1>1, <1>3, <1>4, <2>1, <2>3, FetchOwned DEF Abandoned
  <2> QED
    BY <2>2, <2>3
<1>10. LastInv' /\ CallInv' /\ StageInv'
  BY <1>1, <1>2, <1>3
  DEF IInv, LastInv, CallInv, StageInv, Dispatching
<1>11. ASSUME NEW t \in Slots, handle'[t] # Free
       PROVE  /\ handle[t] # Free /\ handle'[t] = handle[t]
              /\ result'[handle[t]] = result[handle[t]]
  <2>1. t # cur /\ handle'[t] = handle[t]
    BY <1>1, <1>3, <1>11
  <2>2. handle[t] \in Reqs /\ handle[t] # handle[cur]
    BY <1>3, <1>11, <2>1 DEF IInv, HandleInv
  <2> QED
    BY <1>5, <1>11, <2>1, <2>2
<1>12. HandleInv'
  <2>1. "fill" \notin Timing /\ "recycle" \notin Timing
        /\ "recycle" \in Calling
    BY DEF Timing, Calling, Preparing
  <2> QED
    BY <1>1, <1>2, <1>11, <2>1 DEF IInv, HandleInv, Cached
<1>13. PushInv'
  BY <1>1, <1>11, PushStays DEF Unread, Cached
<1> QED
  BY <1>6, <1>7, <1>8, <1>9, <1>10, <1>12, <1>13 DEF IInv

\* A method raises: its request is given up.
LEMMA RaiseStep ==
  ASSUME IInv, RecycleRaises \/ WaitRaises \/ RoundRaises
  PROVE  IInv'
<1>1. /\ hpc \in Calling \cup Timing /\ hpc' = "idle"
      /\ result' = [result EXCEPT ![req] = Raised]
      /\ UNCHANGED <<op, req, k, issued, program, cur, handle, place, bin,
                     bout, queue, failed, mem, lost, closed>>
  BY DEF RecycleRaises, WaitRaises, RoundRaises, ring, device, Calling,
         Preparing, Dispatching, Timing
<1>2. /\ Commands' = Commands /\ Monolithic' = Monolithic
      /\ Faults' = Faults
  BY <1>1 DEF Commands, Monolithic, Faults
<1>3. /\ req \in Reqs /\ req = issued /\ issued \in Nat
      /\ result \in [Reqs -> Content] /\ Raised \in Content
      /\ hpc \notin {"idle", "closing"}
  <2>1. req \in Reqs /\ req = issued
    BY <1>1 DEF IInv, ControlInv
  <2>2. issued \in Nat /\ result \in [Reqs -> Content]
    BY KindProps DEF IInv, TypeOK
  <2>3. Raised \in Content
    BY DEF Raised, Content
  <2>4. hpc \notin {"idle", "closing"}
    BY <1>1 DEF Calling, Preparing, Dispatching, Timing
  <2> QED
    BY <2>1, <2>2, <2>3, <2>4
<1>4. /\ result' \in [Reqs -> Content] /\ result'[req] = Raised
      /\ \A r \in Reqs : r # req => result'[r] = result[r]
  BY <1>1, <1>3
<1>5. TypeOK'
  BY <1>1, <1>4 DEF IInv, TypeOK
<1>6. ControlInv' /\ CloseInv' /\ ResultOwnIfPushed'
  BY <1>1, <1>2, <1>3, <1>4
  DEF IInv, ControlInv, CloseInv, ResultOwnIfPushed, Unpushed, Final, Calling,
      Preparing,
      Dispatching, Timing
<1>7. NothingYet'
  BY <1>1, <1>3, <1>4
  DEF IInv, NothingYet, Calling, Preparing, Dispatching
<1>8. OwnedInv'
  <2> SUFFICES ASSUME NEW i \in 1 .. Len(queue)
               PROVE  \/ result'[queue[i].of] = Raised
                      \/ queue[i].of \in lost
                      \/ /\ handle[queue[i].slot] = queue[i].of
                         /\ handle[queue[i].slot] # Free
                         /\ result'[queue[i].of] \in {Nothing, Raised}
    BY <1>1 DEF IInv, OwnedInv, Abandoned, Unread, Cached
  <2>1. queue[i].of \in Reqs
    <3>1. queue[i].of \in 1 .. issued /\ issued \in 0 .. MaxReqs
          /\ MaxReqs \in Nat
      BY KindProps DEF IInv, OwnedInv, TypeOK
    <3> QED
      BY <3>1 DEF Reqs
  <2>2. CASE queue[i].of = req
    BY <1>1, <1>4, <2>2 DEF Abandoned
  <2>3. CASE queue[i].of # req
    BY <1>1, <1>4, <2>1, <2>3
    DEF IInv, OwnedInv, Abandoned, Unread, Cached
  <2> QED
    BY <2>2, <2>3
<1>9. LastInv' /\ CallInv' /\ StageInv'
  BY <1>1 DEF LastInv, CallInv, StageInv, Dispatching
<1>10. HandleInv'
  <2>1. \A t \in Slots : handle[t] # Free =>
          handle[t] \in Reqs /\ handle[t] # req
    BY <1>1 DEF IInv, HandleInv, TypeOK
  <2>2. "idle" \notin Timing /\ "idle" \notin Calling
    BY DEF Timing, Calling, Preparing, Dispatching
  <2> QED
    BY <1>1, <1>2, <1>4, <2>1, <2>2 DEF IInv, HandleInv, Cached
<1>11. PushInv'
  <2>1. \A t \in Slots : handle[t] # Free =>
          handle[t] \in Reqs /\ handle[t] # req
    BY <1>1 DEF IInv, HandleInv, TypeOK
  <2> QED
    BY <1>1, <1>4, <2>1, PushStays DEF Unread, Cached
<1> QED
  BY <1>5, <1>6, <1>7, <1>8, <1>9, <1>10, <1>11 DEF IInv

\* No handle keeps the slot: what is on the device for it has been given up.
LEMMA FillStep == ASSUME IInv, Fill PROVE IInv'
<1>1. /\ hpc = "fill" /\ hpc' = "dispatch"
      /\ bin' = [bin EXCEPT ![cur] = Wrote(req, 0)]
      /\ place' = [place EXCEPT ![req] = cur]
      /\ UNCHANGED <<op, req, k, issued, program, cur, handle, bout, queue,
                     failed, mem, result, lost, closed>>
  BY DEF Fill, device, Wrote
<1>2. /\ Commands' = Commands /\ Monolithic' = Monolithic
      /\ Faults' = Faults
  BY <1>1 DEF Commands, Monolithic, Faults
<1>3. /\ cur \in Slots /\ req \in Reqs /\ req \in Nat /\ k = 1
      /\ handle[cur] = Free /\ Wrote(req, 0) \in Content
      /\ Commands \in Nat \ {0} /\ place \in [Reqs -> Slots]
      /\ bin \in [Slots -> Content]
  <2>1. /\ cur \in Slots /\ req \in Nat /\ place \in [Reqs -> Slots]
        /\ bin \in [Slots -> Content] /\ Commands \in Nat \ {0}
    BY KindProps DEF IInv, TypeOK
  <2>2. req \in Reqs /\ k = 1 /\ handle[cur] = Free
    BY <1>1 DEF IInv, ControlInv, CallInv, Calling, Preparing
  <2>3. Wrote(req, 0) \in Content
    BY <2>1 DEF Wrote, Content
  <2> QED
    BY <2>1, <2>2, <2>3
<1>4. TypeOK'
  BY <1>1, <1>3 DEF IInv, TypeOK, Calling, Dispatching
<1>5. /\ ControlInv' /\ NothingYet' /\ LastInv' /\ StageInv' /\ CloseInv'
      /\ ResultOwnIfPushed'
  BY <1>1, <1>2, <1>3
  DEF IInv, ControlInv, NothingYet, LastInv, StageInv, CloseInv,
      ResultOwnIfPushed, Unpushed, Final, Calling, Preparing, Dispatching,
      Timing
<1>6. OwnedInv'
  BY <1>1 DEF IInv, OwnedInv, Abandoned, Unread, Cached, Timing
<1>7. CallInv'
  BY <1>1, <1>3 DEF CallInv
<1>8. HandleInv'
  <2> HIDE DEF Wrote
  <2> SUFFICES ASSUME NEW s \in Slots, handle[s] # Free
               PROVE  /\ bin'[s] = bin[s]
                      /\ place'[handle[s]] = place[handle[s]]
                      /\ handle[s] # req
    <3>1. "fill" \notin Timing /\ "dispatch" \notin Timing
          /\ "fill" \in Calling
      BY DEF Timing, Calling, Preparing
    <3> QED
      BY <1>1, <1>2, <3>1 DEF IInv, HandleInv, Cached
  <2>1. s # cur
    BY <1>3
  <2>2. handle[s] # req /\ handle[s] \in Reqs
    BY <1>1 DEF IInv, HandleInv, TypeOK, Calling, Preparing
  <2> QED
    BY <1>1, <1>3, <2>1, <2>2
<1>9. PushInv'
  <2>1. \A i \in 1 .. Len(queue) : queue[i].of # req
    <3> SUFFICES ASSUME NEW i \in 1 .. Len(queue), queue[i].of = req
                 PROVE  FALSE
      OBVIOUS
    <3>1. ~ Abandoned(req)
      BY <1>1 DEF IInv, NothingYet, ControlInv, Abandoned, Nothing, Raised,
         Calling, Preparing
    <3>2. queue[i].slot \in Slots
      BY QueueProps DEF IInv
    <3>3. \A s \in Slots : handle[s] = req => handle[s] = Free
      BY <1>1 DEF IInv, HandleInv, Calling, Preparing
    <3> QED
      BY <1>1, <3>1, <3>2, <3>3 DEF IInv, OwnedInv, Unread, Timing
  <2>2. \A i \in 1 .. Len(queue) : queue[i] # Cmd(req, 2, cur)
    BY <2>1 DEF Cmd
  <2> QED
    BY <1>1, <1>2, <1>3, <2>2
    DEF IInv, PushInv, Fed, Pushed, Unread, Cached
<1> QED
  BY <1>4, <1>5, <1>6, <1>7, <1>8, <1>9 DEF IInv

\* The command goes behind all others.
LEMMA DispatchStep == ASSUME IInv, Dispatch PROVE IInv'
<1> DEFINE c == Cmd(req, k, cur)
           Handed == op = "async" /\ k = Commands
<1>1. /\ hpc = "dispatch" /\ queue' = Append(queue, c)
      /\ UNCHANGED <<op, req, k, issued, program, place, bin, bout, failed,
                     mem, result, lost, closed>>
  BY DEF Dispatch
<1>2. /\ Commands' = Commands /\ Monolithic' = Monolithic
      /\ Faults' = Faults
  BY <1>1 DEF Commands, Monolithic, Faults
<1>3. /\ cur \in Slots /\ req \in Reqs /\ req \in 1 .. issued
      /\ k \in 1 .. Commands /\ Commands \in Nat \ {0}
      /\ Depth \in Nat \ {0} /\ handle[cur] = Free
      /\ handle \in [Slots -> Reqs \cup {Free}]
      /\ place[req] = cur /\ bin[cur] = Wrote(req, 0)
      /\ result[req] = Nothing /\ op \in program.methods /\ ~ closed
      /\ queue \in Seq(Command) /\ req # Free
  <2>1. /\ req \in Reqs /\ req = issued /\ k \in 1 .. Commands
        /\ op \in program.methods /\ ~ closed
    BY <1>1 DEF IInv, ControlInv, Calling, Dispatching
  <2>2. /\ handle[cur] = Free /\ place[req] = cur
        /\ bin[cur] = Wrote(req, 0)
    BY <1>1 DEF IInv, CallInv, Dispatching
  <2>3. result[req] = Nothing
    BY <1>1 DEF IInv, NothingYet, Calling, Dispatching
  <2>4. req \in Nat \ {0} /\ req # Free
    BY <2>1, KindProps DEF IInv, Reqs, Free
  <2> QED
    BY <2>1, <2>2, <2>3, <2>4, KindProps DEF IInv, TypeOK
<1>4. c \in Command /\ c.of = req /\ c.cmd = k /\ c.slot = cur
  BY <1>3 DEF IInv, TypeOK, Cmd, Command
<1>5. /\ Handed =>
           /\ handle' = [handle EXCEPT ![cur] = req]
           /\ cur' = (cur + 1) % Depth /\ hpc' = "idle"
      /\ ~ Handed => hpc' = "wait" /\ cur' = cur /\ handle' = handle
  BY DEF Dispatch
<1> HIDE DEF Handed
<1>6. Handed => op = "async" /\ k = Commands /\ ~ Monolithic
  BY <1>3, KindProps DEF IInv, Handed
<1>7. ~ Handed => op # "async" \/ k < Commands
  BY <1>3 DEF Handed
<1> HIDE DEF c
<1>8. /\ queue' \in Seq(Command) /\ Len(queue') = Len(queue) + 1
      /\ Len(queue) \in Nat /\ queue'[Len(queue) + 1] = c
      /\ \A i \in 1 .. Len(queue) : queue'[i] = queue[i]
  <2>1. queue' = Append(queue, c)
    BY <1>1 DEF c
  <2> QED
    BY <1>3, <1>4, <2>1, AppendProperties
<1>9. TypeOK'
  <2>1. (cur + 1) % Depth \in Slots
    BY <1>3 DEF Slots
  <2>2. cur' \in Slots /\ handle' \in [Slots -> Reqs \cup {Free}]
        /\ hpc' \in {"idle", "wait"}
    BY <1>3, <1>5, <2>1
  <2> QED
    BY <1>1, <1>8, <2>2 DEF IInv, TypeOK, Calling, Dispatching
<1>10. ControlInv' /\ NothingYet' /\ CloseInv' /\ ResultOwnIfPushed'
  <2>1. hpc' \in {"idle", "wait"} /\ (hpc' = "wait" => ~ Handed)
    BY <1>5
  <2> QED
    BY <1>1, <1>2, <1>3, <1>7, <2>1
    DEF IInv, ControlInv, NothingYet, CloseInv, ResultOwnIfPushed, Unpushed,
        Final, Calling,
        Preparing, Dispatching, Timing
<1>11. OwnedInv'
  <2> SUFFICES ASSUME NEW i \in 1 .. Len(queue')
               PROVE  /\ queue'[i].of \in 1 .. issued
                      /\ \/ Abandoned(queue'[i].of)
                         \/ /\ handle'[queue'[i].slot] = queue'[i].of
                            /\ handle'[queue'[i].slot] # Free
                            /\ ~ Cached(queue'[i].of)
                         \/ /\ queue'[i].of = req /\ hpc' = "wait"
                            /\ queue'[i].slot = cur'
    BY <1>1 DEF OwnedInv, Abandoned, Unread, Cached
  <2>1. \/ i \in 1 .. Len(queue) /\ queue'[i] = queue[i]
        \/ queue'[i] = c
    BY <1>8
  <2>2. /\ queue'[i].of \in 1 .. issued
        /\ \/ Abandoned(queue'[i].of)
           \/ /\ handle[queue'[i].slot] = queue'[i].of
              /\ queue'[i].slot \in Slots /\ Unread(queue'[i].slot)
           \/ queue'[i].of = req /\ queue'[i].slot = cur
    <3>1. CASE i \in 1 .. Len(queue) /\ queue'[i] = queue[i]
      <4>1. queue[i].slot \in Slots
        BY <3>1, QueueProps DEF IInv
      <4> QED
        BY <1>1, <3>1, <4>1 DEF IInv, OwnedInv, Timing
    <3>2. CASE queue'[i] = c
      BY <1>3, <1>4, <3>2
    <3> QED
      BY <2>1, <3>1, <3>2
  <2>3. CASE /\ handle[queue'[i].slot] = queue'[i].of
             /\ queue'[i].slot \in Slots /\ Unread(queue'[i].slot)
    <3>1. queue'[i].slot # cur
      BY <1>3, <2>3 DEF Unread
    <3>2. handle'[queue'[i].slot] = handle[queue'[i].slot]
      BY <1>3, <1>5, <2>3, <3>1
    <3> QED
      BY <2>2, <2>3, <3>2 DEF Unread
  <2>4. CASE queue'[i].of = req /\ queue'[i].slot = cur
    <3>1. ~ Cached(req)
      BY <1>3 DEF Cached
    <3> QED
      BY <1>3, <1>5, <2>2, <2>4, <3>1
  <2> QED
    BY <2>2, <2>3, <2>4
<1>12. LastInv'
  <2>1. queue'[Len(queue')] = c
    BY <1>8
  <2> QED
    BY <1>1, <1>5, <2>1 DEF LastInv, c, Cmd
<1>13. \A p : Under(p, queue', failed, bout[cur], c)
  <2>1. queue' = Append(queue, c)
    BY <1>1 DEF c
  <2> QED
    BY <1>3, <1>4, <2>1, UnderNew
<1>14. CallInv'
  BY <1>1, <1>2, <1>3, <1>5, <1>13 DEF CallInv, Dispatching, c
<1>15. StageInv'
  <2> SUFFICES ASSUME Monolithic, hpc' = "wait"
               PROVE  /\ k > 1 => Len(queue') = 1 /\ mem.of = req
                      /\ queue' # <<>>
    BY <1>1, <1>2, <1>5 DEF StageInv
  <2>1. queue' # <<>>
    BY <1>8, EmptySeq
  <2>2. k > 1 => queue = <<>> /\ mem.of = req
    BY <1>1 DEF IInv, StageInv
  <2>3. queue = <<>> => Len(queue) = 0
    BY EmptySeq, <1>3
  <2> QED
    BY <1>8, <2>1, <2>2, <2>3
<1>16. HandleInv'
  <2> SUFFICES ASSUME NEW s \in Slots, handle'[s] # Free
               PROVE  LET r == handle'[s]
                      IN /\ ~ Monolithic /\ r \in 1 .. issued /\ place[r] = s
                         /\ hpc' \in Calling \cup Timing => r # req
                         /\ result[r] # Raised
                         /\ ~ Cached(r) =>
                              /\ hpc' \notin Timing
                              /\ bin[s] = Wrote(r, 0)
                              /\ Under(program, queue', failed, bout[s],
                                       Cmd(r, Commands, s))
    BY <1>1, <1>2 DEF HandleInv, Cached
  <2>1. hpc' \notin Timing
    BY <1>5 DEF Timing
  <2>2. CASE Handed /\ s = cur
    <3>1. handle'[s] = req
      BY <1>3, <1>5, <2>2
    <3>2. hpc' \notin Calling
      BY <1>5, <2>2 DEF Calling, Preparing, Dispatching
    <3>3. c = Cmd(req, Commands, s)
      BY <1>6, <2>2 DEF c
    <3>4. result[req] # Raised
      BY <1>3 DEF Nothing, Raised
    <3> QED
      BY <1>3, <1>6, <1>13, <2>1, <2>2, <3>1, <3>2, <3>3, <3>4
  <2>3. CASE ~ (Handed /\ s = cur)
    <3>1. s # cur /\ handle'[s] = handle[s]
      BY <1>3, <1>5, <2>3
    <3> DEFINE r == handle[s]
               d == Cmd(r, Commands, s)
    <3>2. /\ ~ Monolithic /\ r \in 1 .. issued /\ place[r] = s
          /\ r # req /\ result[r] # Raised
          /\ ~ Cached(r) =>
               /\ bin[s] = Wrote(r, 0)
               /\ Under(program, queue, failed, bout[s], d)
      BY <1>1, <3>1 DEF IInv, HandleInv, Calling, Dispatching
    <3>3. d \in Command /\ d.slot = s
      BY <1>3, <3>1, <3>2 DEF Cmd, Command, IInv, TypeOK
    <3>4. queue' = Append(queue, c)
      BY <1>1 DEF c
    <3> HIDE DEF d, r
    <3>5. ~ Cached(r) => Under(program, queue', failed, bout[s], d)
      BY <1>3, <1>4, <3>1, <3>2, <3>3, <3>4, UnderAppend
    <3> QED
      BY <2>1, <3>1, <3>2, <3>5 DEF d, r
  <2> QED
    BY <2>2, <2>3
<1>17. PushInv'
  <2> SUFFICES ASSUME ~ Monolithic
               PROVE  PushInv'
    BY <1>2 DEF PushInv
  <2>1. ASSUME NEW i \in 1 .. Len(queue'), queue'[i] = Cmd(req, 2, cur)
        PROVE  IF i = 1 THEN Pushed(req, cur)
                        ELSE queue'[i - 1] = Cmd(req, 1, cur)
    <3>1. CASE i \in 1 .. Len(queue)
      <4>1. Fed(i, req, cur)
        BY <1>1, <3>1 DEF IInv, PushInv
      <4>2. i # 1 => i - 1 \in 1 .. Len(queue)
        BY <1>8, <3>1
      <4> QED
        BY <1>8, <2>1, <3>1, <4>1, <4>2 DEF Fed
    <3>2. CASE i = Len(queue) + 1
      <4>1. k = 2
        BY <1>4, <1>8, <2>1, <3>2 DEF Cmd
      <4>2. IF queue = <<>> THEN Pushed(req, cur)
                            ELSE queue[Len(queue)] = Cmd(req, 1, cur)
        BY <1>1, <4>1 DEF IInv, PushInv
      <4>3. /\ queue = <<>> => i = 1
            /\ queue # <<>> => i # 1 /\ i - 1 = Len(queue)
                               /\ Len(queue) \in 1 .. Len(queue)
        BY <1>3, <1>8, <3>2, EmptySeq
      <4> QED
        BY <1>8, <4>2, <4>3
    <3> QED
      BY <1>8, <3>1, <3>2
  <2>2. ASSUME NEW s \in Slots, s # cur, Unread(s), NEW i \in 1 .. Len(queue'),
               queue'[i] = Cmd(handle[s], 2, s)
        PROVE  IF i = 1 THEN Pushed(handle[s], s)
                        ELSE queue'[i - 1] = Cmd(handle[s], 1, s)
    <3>1. i \in 1 .. Len(queue)
      <4>1. Cmd(handle[s], 2, s).slot = s
        BY DEF Cmd
      <4> QED
        BY <1>4, <1>8, <2>2, <4>1
    <3>2. Fed(i, handle[s], s)
      BY <2>2, <3>1 DEF IInv, PushInv
    <3>3. i # 1 => i - 1 \in 1 .. Len(queue)
      BY <1>8, <3>1
    <3> QED
      BY <1>8, <2>2, <3>1, <3>2, <3>3 DEF Fed
  <2>3. ASSUME NEW s \in Slots, Unread(s)'
        PROVE  \/ s = cur /\ handle'[s] = req
               \/ s # cur /\ handle'[s] = handle[s] /\ Unread(s)
    BY <1>1, <1>3, <1>5, <2>3 DEF Unread, Cached
  <2>4. queue' # <<>>
    BY <1>8, EmptySeq
  <2>5. \A s \in Slots, i \in 1 .. Len(queue') :
          Unread(s)' => Fed(i, handle[s], s)'
    BY <1>1, <2>1, <2>2, <2>3 DEF Fed, Pushed
  <2>6. hpc' = "wait" => \A i \in 1 .. Len(queue') : Fed(i, req, cur)'
    BY <1>1, <1>5, <2>1 DEF Fed, Pushed
  <2>7. hpc' # "dispatch"
    BY <1>5
  <2> QED
    BY <2>4, <2>5, <2>6, <2>7 DEF PushInv
<1> QED
  BY <1>9, <1>10, <1>11, <1>12, <1>14, <1>15, <1>16, <1>17 DEF IInv

\* A wait that is over, and was not for a command whose outcome is ignored,
\* leaves nothing on the device.
LEMMA WaitedProps ==
  ASSUME WaitsChecked, IInv, Waited
  PROVE  /\ hpc = "wait" /\ k \in 1 .. Commands
         /\ k = Commands =>
              /\ queue = <<>>
              /\ Drawn(program, failed, bout[cur], Cmd(req, Commands, cur))
         /\ Monolithic => queue = <<>> /\ mem.of = req
<1> DEFINE c == Cmd(req, k, cur)
<1>1. hpc = "wait" /\ (Completed(c) \/ (Unchecked /\ OtherState(c)))
  BY DEF Waited
<1>2. /\ k \in 1 .. Commands /\ op \in program.methods
      /\ op # "async" \/ k < Commands
      /\ ~ Faults => failed = {}
      /\ Under(program, queue, failed, bout[cur], c)
  BY <1>1
  DEF IInv, ControlInv, CallInv, Calling, Dispatching
<1>3. /\ k \in Nat /\ Commands \in Nat /\ queue \in Seq(Command)
      /\ Monolithic \in BOOLEAN
  BY KindProps DEF IInv, TypeOK
<1>4. c.of = req /\ c.cmd = k /\ c.slot = cur
  BY DEF Cmd
<1>5. Monolithic /\ op = "run" => ~ OtherState(c)
  <2>1. Monolithic /\ op = "run" => ~ Faults
    BY <1>2 DEF WaitsChecked, IInv, TypeOK, Monolithic, Faults
  <2> QED
    BY <1>2, <2>1 DEF OtherState
<1>6. k = Commands \/ Monolithic => Completed(c)
  BY <1>1, <1>2, <1>3, <1>5 DEF Unchecked
<1>7. ASSUME Completed(c)
      PROVE  /\ queue = <<>> /\ c \notin failed
             /\ Drawn(program, failed, bout[cur], c)
  <2>1. ~ Contains(queue, c) /\ c \notin failed
    BY <1>7 DEF Completed
  <2>2. CASE queue # <<>>
    <3>1. queue[Len(queue)] = c
      BY <1>1, <2>2 DEF IInv, LastInv
    <3>2. Len(queue) \in 1 .. Len(queue)
      BY <1>3, <2>2, EmptySeq
    <3> QED
      BY <2>1, <3>1, <3>2 DEF Contains
  <2> HIDE DEF c
  <2>3. Drawn(program, failed, bout[cur], c)
    BY <1>2, <1>4, <2>1, UnderDone
  <2> QED
    BY <2>1, <2>2, <2>3
<1>8. Monolithic => mem.of = req
  BY <1>1, <1>6, <1>7 DEF IInv, StageInv
<1> QED
  BY <1>1, <1>2, <1>6, <1>7, <1>8

LEMMA WaitedStep == ASSUME WaitsChecked, IInv, Waited PROVE IInv'
<1>1. /\ hpc = "wait" /\ k \in 1 .. Commands
      /\ k = Commands =>
           /\ queue = <<>>
           /\ Drawn(program, failed, bout[cur], Cmd(req, Commands, cur))
      /\ Monolithic => queue = <<>> /\ mem.of = req
  BY WaitedProps
<1>2. /\ k < Commands => k' = k + 1 /\ hpc' = "dispatch"
      /\ ~ (k < Commands) => k' = k /\ hpc' = "read"
      /\ UNCHANGED <<op, req, issued, program, cur, handle, place, bin, bout,
                     queue, failed, mem, result, lost, closed>>
  BY DEF Waited, ring, device
<1>3. Commands' = Commands /\ Monolithic' = Monolithic /\ Faults' = Faults
  BY <1>2 DEF Commands, Monolithic, Faults
<1>4. /\ Commands \in Nat \ {0} /\ k \in Nat /\ k' \in Nat
      /\ hpc' \in {"dispatch", "read"}
      /\ hpc' = "dispatch" => k' \in 1 .. Commands
      /\ hpc' = "read" => k' = Commands /\ k = Commands
  BY <1>1, <1>2, KindProps DEF IInv, TypeOK
<1>5. TypeOK'
  BY <1>2, <1>4 DEF IInv, TypeOK, Calling, Dispatching
<1>6. ControlInv' /\ NothingYet' /\ CloseInv' /\ ResultOwnIfPushed'
  BY <1>1, <1>2, <1>3, <1>4
  DEF IInv, ControlInv, NothingYet, CloseInv, ResultOwnIfPushed, Unpushed,
      Final, Calling,
      Preparing, Dispatching, Timing
<1>7. OwnedInv'
  <2>1. hpc' = "read" => Len(queue) = 0
    BY <1>1, <1>4
  <2> QED
    BY <1>1, <1>2, <1>4, <2>1
    DEF IInv, OwnedInv, Abandoned, Unread, Cached, Timing
<1>8. LastInv' /\ StageInv'
  BY <1>1, <1>2, <1>3, <1>4 DEF IInv, LastInv, StageInv
<1>9. CallInv'
  BY <1>1, <1>2, <1>3, <1>4 DEF IInv, CallInv, Dispatching
<1>10. HandleInv'
  BY <1>1, <1>2, <1>3, <1>4
  DEF IInv, HandleInv, Cached, Calling, Dispatching, Timing
<1>11. PushInv'
  <2> SUFFICES ASSUME ~ Monolithic
               PROVE  PushInv'
    BY <1>3 DEF PushInv
  <2>1. hpc' = "dispatch" /\ k' = 2 => k = 1
    BY <1>2, <1>4
  <2>2. k = 1 => IF queue = <<>> THEN Pushed(req, cur)
                 ELSE queue[Len(queue)] = Cmd(req, 1, cur)
    BY <1>1 DEF IInv, PushInv, LastInv
  <2>3. hpc' # "wait"
    BY <1>4
  <2>4. /\ \A s \in Slots, i \in 1 .. Len(queue) :
             Unread(s) => Fed(i, handle[s], s)
        /\ \A i \in 1 .. Len(queue) : Fed(i, req, cur)
    BY <1>1 DEF IInv, PushInv
  <2> QED
    BY <1>2, <2>1, <2>2, <2>3, <2>4 DEF PushInv, Fed, Pushed, Unread, Cached
<1> QED
  BY <1>5, <1>6, <1>7, <1>8, <1>9, <1>10, <1>11 DEF IInv

LEMMA ReadStep == ASSUME IInv, Read PROVE IInv'
<1>1. /\ hpc = "read" /\ hpc' = "idle"
      /\ result' = [result EXCEPT ![req] = bout[cur]]
      /\ cur' = (cur + 1) % Depth
      /\ UNCHANGED <<op, req, k, issued, program, handle, place, bin, bout,
                     queue, failed, mem, lost, closed>>
  BY DEF Read, device
<1>2. Commands' = Commands /\ Monolithic' = Monolithic /\ Faults' = Faults
  BY <1>1 DEF Commands, Monolithic, Faults
<1>3. /\ req \in Reqs /\ req = issued /\ issued \in Nat
      /\ Unpushed(req) \/ bout[cur] = Final(req)
      /\ bout[cur] \in Content
      /\ result \in [Reqs -> Content] /\ queue = <<>> /\ cur' \in Slots
  <2>1. req \in Reqs /\ req = issued
    BY <1>1 DEF IInv, ControlInv, Calling, Dispatching
  <2>2. /\ Drawn(program, failed, bout[cur], Cmd(req, Commands, cur))
        /\ queue = <<>> /\ place[req] = cur
    BY <1>1 DEF IInv, CallInv, LastInv, Dispatching
  <2>3. /\ issued \in Nat /\ bout[cur] \in Content
        /\ result \in [Reqs -> Content]
    BY KindProps DEF IInv, TypeOK
  <2>4. cur' \in Slots
    BY <1>1, KindProps DEF IInv, TypeOK, Slots
  <2>5. Unpushed(req) \/ bout[cur] = Final(req)
    BY <2>1, <2>2, <2>3, DrawnGiven, GivenProps
  <2> QED
    BY <2>1, <2>2, <2>3, <2>4, <2>5
<1>4. /\ result' \in [Reqs -> Content]
      /\ Unpushed(req) \/ result'[req] = Final(req)
      /\ \A r \in Reqs : r # req => result'[r] = result[r]
  BY <1>1, <1>3
<1>5. TypeOK'
  BY <1>1, <1>3, <1>4 DEF IInv, TypeOK
<1>6. ControlInv' /\ CloseInv'
  BY <1>1, <1>2 DEF IInv, ControlInv, CloseInv, Calling, Preparing,
     Dispatching, Timing
<1>7. NothingYet' /\ ResultOwnIfPushed'
  BY <1>1, <1>2, <1>3, <1>4
  DEF IInv, NothingYet, ResultOwnIfPushed, Unpushed, Final, Calling,
      Preparing, Dispatching
<1>8. OwnedInv' /\ LastInv' /\ CallInv' /\ StageInv'
  <2>1. queue' = <<>> /\ Len(queue') = 0
    BY <1>1, <1>3
  <2> QED
    BY <1>1, <2>1 DEF OwnedInv, LastInv, CallInv, StageInv, Dispatching
<1>9. HandleInv'
  <2>1. \A t \in Slots : handle[t] # Free =>
          handle[t] \in Reqs /\ handle[t] # req
    BY <1>1 DEF IInv, HandleInv, TypeOK, Calling, Dispatching
  <2>2. "idle" \notin Timing /\ "idle" \notin Calling
    BY DEF Timing, Calling, Preparing, Dispatching
  <2> QED
    BY <1>1, <1>2, <1>4, <2>1, <2>2 DEF IInv, HandleInv, Cached
<1>10. PushInv'
  BY <1>1, <1>3 DEF PushInv
<1> QED
  BY <1>5, <1>6, <1>7, <1>8, <1>9, <1>10 DEF IInv

-----------------------------------------------------------------------------
(* benchmark.                                                              *)

LEMMA StartBenchmarkStep ==
  ASSUME WaitsChecked, IInv, StartBenchmark
  PROVE  IInv'
<1>1. /\ hpc = "idle" /\ ~ closed /\ ~ Monolithic
      /\ issued < program.requests
      /\ op' = "bench" /\ hpc' = "round" /\ k' = 1
      /\ issued' = issued + 1 /\ req' = issued + 1
      /\ UNCHANGED <<program, cur, handle, place, bin, bout, queue, failed,
                     mem, result, lost, closed>>
  BY DEF StartBenchmark, ring, device
<1>2. Commands' = Commands /\ Monolithic' = Monolithic /\ Faults' = Faults
  BY <1>1 DEF Commands, Monolithic, Faults
<1>3. /\ issued \in Nat /\ issued' \in 0 .. MaxReqs /\ req' \in Reqs
      /\ req' \in Nat
  BY <1>1, KindProps DEF IInv, TypeOK, Reqs
<1>4. \A s \in Slots : handle[s] # Free => Cached(handle[s])
  <2>1. Benchmark # "anytime"
    BY DEF WaitsChecked, IInv, TypeOK, Benchmark
  <2> QED
    BY <2>1 DEF StartBenchmark
<1>5. TypeOK'
  BY <1>1, <1>3 DEF IInv, TypeOK, Timing
<1>6. ControlInv' /\ NothingYet' /\ CloseInv' /\ ResultOwnIfPushed'
  BY <1>1, <1>2, <1>3
  DEF IInv, ControlInv, NothingYet, CloseInv, ResultOwnIfPushed, Unpushed,
      Final, Calling,
      Preparing, Dispatching, Timing
<1>7. OwnedInv'
  BY <1>1, <1>3 DEF IInv, OwnedInv, Abandoned, Unread, Cached, Timing
<1>8. LastInv' /\ CallInv' /\ StageInv'
  BY <1>1 DEF LastInv, CallInv, StageInv, Dispatching
<1>9. HandleInv'
  BY <1>1, <1>2, <1>3, <1>4
  DEF IInv, HandleInv, Cached, Calling, Preparing, Dispatching
<1>10. PushInv'
  BY <1>1, PushStays DEF Unread, Cached
<1> QED
  BY <1>5, <1>6, <1>7, <1>8, <1>9, <1>10 DEF IInv

\* A pipeline uses slots of the ring.
LEMMA PongProps ==
  ASSUME TypeOK, NEW n \in Nat \ {0}
  PROVE  Pong(n) \in Slots
<1>1. Depth \in Nat \ {0}
  BY KindProps
<1> DEFINE m == IF n <= Warm THEN n - 1 ELSE n - Warm - 1
<1>2. m \in Nat
  BY DEF Warm
<1> HIDE DEF m
<1>3. m % 1 = 0 /\ m % 2 \in 0 .. 1
  BY <1>2
<1> QED
  BY <1>1, <1>3 DEF Pong, Slots, m

\* The round's input may be that of an earlier round of the same pipeline.
LEMMA RoundStep == ASSUME IInv, Round PROVE IInv'
<1> DEFINE c == BenchCmd(k)
<1>1. /\ hpc = "round" /\ queue' = Append(queue, c)
      /\ bin' = [bin EXCEPT ![Pong(k)] = Wrote(req, 0)]
      /\ \/ k' = k + 1 /\ hpc' = "round"
         \/ k' = k /\ hpc' = "roundwait"
      /\ UNCHANGED <<op, req, issued, program, cur, handle, place, bout,
                     failed, mem, result, lost, closed>>
  BY DEF Round, ring, Wrote
<1>2. Commands' = Commands /\ Monolithic' = Monolithic /\ Faults' = Faults
  BY <1>1 DEF Commands, Monolithic, Faults
<1>3. /\ req \in Reqs /\ req \in 1 .. issued /\ k \in Nat \ {0}
      /\ Wrote(req, 0) \in Content /\ ~ Monolithic
      /\ queue \in Seq(Command) /\ bin \in [Slots -> Content]
  <2>1. req \in Reqs /\ req = issued /\ ~ Monolithic /\ k \in Nat \ {0}
    BY <1>1 DEF IInv, TypeOK, ControlInv, Timing
  <2>2. req \in Nat \ {0} /\ MaxReqs \in Nat
    BY <2>1, KindProps DEF IInv, Reqs
  <2>3. Wrote(req, 0) \in Content
    BY <2>2 DEF Wrote, Content
  <2> QED
    BY <2>1, <2>2, <2>3 DEF IInv, TypeOK
<1>4. /\ Pong(k) \in Slots /\ c \in Command /\ c.of = req
      /\ c.slot = Pong(k)
  <2>1. Pong(k) \in Slots
    BY <1>3, PongProps DEF IInv
  <2> QED
    BY <1>3, <2>1 DEF BenchCmd, Cmd, Command, IInv, TypeOK
<1> HIDE DEF c
<1>5. /\ queue' \in Seq(Command) /\ Len(queue') = Len(queue) + 1
      /\ Len(queue) \in Nat /\ queue'[Len(queue) + 1] = c
      /\ \A i \in 1 .. Len(queue) : queue'[i] = queue[i]
  <2>1. queue' = Append(queue, c)
    BY <1>1 DEF c
  <2> QED
    BY <1>3, <1>4, <2>1, AppendProperties
<1>6. /\ bin' \in [Slots -> Content] /\ bin'[Pong(k)] = Wrote(req, 0)
      /\ \A s \in Slots : s # Pong(k) => bin'[s] = bin[s]
  BY <1>1, <1>3, <1>4
<1>7. /\ hpc' \in {"round", "roundwait"} /\ k' \in Nat \ {0}
  BY <1>1, <1>3
<1>8. TypeOK'
  BY <1>1, <1>5, <1>6, <1>7 DEF IInv, TypeOK, Timing
<1>9. ControlInv' /\ NothingYet' /\ CloseInv' /\ ResultOwnIfPushed'
  BY <1>1, <1>2, <1>7
  DEF IInv, ControlInv, NothingYet, CloseInv, ResultOwnIfPushed, Unpushed,
      Final, Calling,
      Preparing, Dispatching, Timing
<1>10. OwnedInv'
  <2> SUFFICES ASSUME NEW i \in 1 .. Len(queue')
               PROVE  /\ queue'[i].of \in 1 .. issued
                      /\ \/ Abandoned(queue'[i].of)
                         \/ /\ queue'[i].of = req
                            /\ bin'[queue'[i].slot] = Wrote(req, 0)
                         \/ /\ handle[queue'[i].slot] = queue'[i].of
                            /\ Unread(queue'[i].slot)
    BY <1>1, <1>7 DEF OwnedInv, Abandoned, Unread, Cached, Timing
  <2>1. \/ i \in 1 .. Len(queue) /\ queue'[i] = queue[i]
        \/ queue'[i] = c
    BY <1>5
  <2>2. CASE i \in 1 .. Len(queue) /\ queue'[i] = queue[i]
    <3>1. queue[i].slot \in Slots
      BY <2>2, QueueProps DEF IInv
    <3>2. /\ queue[i].of \in 1 .. issued
          /\ \/ Abandoned(queue[i].of)
             \/ handle[queue[i].slot] = queue[i].of /\ Unread(queue[i].slot)
             \/ queue[i].of = req /\ bin[queue[i].slot] = Wrote(req, 0)
      BY <1>1, <2>2 DEF IInv, OwnedInv
    <3> QED
      BY <1>6, <2>2, <3>1, <3>2
  <2>3. CASE queue'[i] = c
    BY <1>3, <1>4, <1>6, <2>3
  <2> QED
    BY <2>1, <2>2, <2>3
<1>11. LastInv'
  <2>1. queue'[Len(queue')] = c
    BY <1>5
  <2> QED
    BY <1>1, <2>1 DEF LastInv, c, BenchCmd, Cmd, Pong
<1>12. CallInv' /\ StageInv'
  BY <1>2, <1>3, <1>7 DEF CallInv, StageInv, Dispatching
<1>13. HandleInv'
  BY <1>1, <1>2, <1>7 DEF IInv, HandleInv, Cached, Calling, Preparing,
     Dispatching, Timing
<1>14. PushInv'
  <2>1. \A s \in Slots : ~ Unread(s)'
    BY <1>1 DEF IInv, HandleInv, Unread, Cached, Timing
  <2> QED
    BY <1>7, <2>1 DEF PushInv
<1> QED
  BY <1>8, <1>9, <1>10, <1>11, <1>12, <1>13, <1>14 DEF IInv

\* The pipeline goes on.
LEMMA RoundWaitStep ==
  ASSUME IInv, \/ RoundWait
               \/ RoundDrain /\ k = Warm
  PROVE  IInv'
<1>1. /\ hpc \in {"roundwait", "rounddrain"}
      /\ \/ hpc' = "rounddrain" /\ k' = k /\ hpc = "roundwait"
         \/ hpc' = "round" /\ k' = k + 1
      /\ UNCHANGED <<op, req, issued, program, cur, handle, place, bin, bout,
                     queue, failed, mem, result, lost, closed>>
  BY DEF RoundWait, RoundDrain, ring, device
<1>2. Commands' = Commands /\ Monolithic' = Monolithic /\ Faults' = Faults
  BY <1>1 DEF Commands, Monolithic, Faults
<1>3. k \in Nat \ {0} /\ k' \in Nat \ {0}
  BY <1>1 DEF IInv, TypeOK, ControlInv, Timing
<1>4. TypeOK'
  BY <1>1, <1>3 DEF IInv, TypeOK, Timing
<1>5. /\ ControlInv' /\ NothingYet' /\ CloseInv' /\ ResultOwnIfPushed'
      /\ CallInv' /\ StageInv'
  BY <1>1, <1>2, <1>3
  DEF IInv, ControlInv, NothingYet, CloseInv, ResultOwnIfPushed, Unpushed,
      Final, CallInv,
      StageInv, Calling, Preparing, Dispatching, Timing
<1>6. OwnedInv'
  BY <1>1 DEF IInv, OwnedInv, Abandoned, Unread, Cached, Timing
<1>7. LastInv'
  BY <1>1 DEF IInv, LastInv, BenchCmd, Cmd, Pong
<1>8. HandleInv'
  BY <1>1, <1>2 DEF IInv, HandleInv, Cached, Calling, Preparing,
     Dispatching, Timing
<1>9. PushInv'
  BY <1>1, PushStays DEF Unread, Cached
<1> QED
  BY <1>4, <1>5, <1>6, <1>7, <1>8, <1>9 DEF IInv

\* With its last round complete nothing of it is on the device.
LEMMA RoundDrainStep ==
  ASSUME IInv, RoundDrain, k # Warm
  PROVE  IInv'
<1>1. /\ hpc = "rounddrain" /\ Completed(BenchCmd(k))
      /\ hpc' = "idle"
      /\ UNCHANGED <<op, req, k, issued, program, cur, handle, place, bin,
                     bout, queue, failed, mem, result, lost, closed>>
  BY DEF RoundDrain, ring, device
<1>2. Commands' = Commands /\ Monolithic' = Monolithic /\ Faults' = Faults
  BY <1>1 DEF Commands, Monolithic, Faults
<1>3. queue = <<>> /\ Len(queue) = 0
  <2>1. CASE queue # <<>>
    <3>1. queue[Len(queue)] = BenchCmd(k)
      BY <1>1, <2>1 DEF IInv, LastInv
    <3>2. Len(queue) \in 1 .. Len(queue)
      BY <2>1, EmptySeq DEF IInv, TypeOK
    <3> QED
      BY <1>1, <3>1, <3>2 DEF Completed, Contains
  <2> QED
    BY <2>1
<1>4. TypeOK'
  BY <1>1 DEF IInv, TypeOK
<1>5. /\ ControlInv' /\ NothingYet' /\ CloseInv' /\ ResultOwnIfPushed'
  BY <1>1, <1>2
  DEF IInv, ControlInv, NothingYet, CloseInv, ResultOwnIfPushed, Unpushed,
      Final, Calling,
      Preparing, Dispatching, Timing
<1>6. OwnedInv' /\ LastInv' /\ CallInv' /\ StageInv'
  BY <1>1, <1>3 DEF OwnedInv, LastInv, CallInv, StageInv, Dispatching
<1>7. HandleInv'
  BY <1>1, <1>2 DEF IInv, HandleInv, Cached, Calling, Preparing,
     Dispatching, Timing
<1>8. PushInv'
  BY <1>1, <1>3 DEF PushInv
<1> QED
  BY <1>4, <1>5, <1>6, <1>7, <1>8 DEF IInv

-----------------------------------------------------------------------------
(* close.                                                                  *)

LEMMA CloseStep == ASSUME IInv, Close PROVE IInv'
<1>1. /\ hpc = "idle" /\ ~ closed /\ hpc' = "closing" /\ k' = 0
      /\ UNCHANGED <<op, req, issued, program, cur, handle, place, bin, bout,
                     queue, failed, mem, result, lost, closed>>
  BY DEF Close, ring, device
<1>2. Commands' = Commands /\ Monolithic' = Monolithic /\ Faults' = Faults
  BY <1>1 DEF Commands, Monolithic, Faults
<1>3. Depth \in Nat /\ \A s \in Slots : ~ (s < 0)
  BY KindProps DEF IInv, Slots
<1>4. TypeOK'
  BY <1>1 DEF IInv, TypeOK
<1>5. /\ ControlInv' /\ NothingYet' /\ CloseInv' /\ ResultOwnIfPushed'
      /\ LastInv' /\ CallInv' /\ StageInv'
  BY <1>1, <1>2, <1>3
  DEF IInv, ControlInv, NothingYet, CloseInv, ResultOwnIfPushed, Unpushed,
      Final, LastInv,
      CallInv, StageInv, Calling, Preparing, Dispatching, Timing
<1>6. OwnedInv'
  BY <1>1 DEF IInv, OwnedInv, Abandoned, Unread, Cached, Timing
<1>7. HandleInv'
  BY <1>1, <1>2 DEF IInv, HandleInv, Cached, Calling, Preparing,
     Dispatching, Timing
<1>8. PushInv'
  BY <1>1, PushStays DEF Unread, Cached
<1> QED
  BY <1>4, <1>5, <1>6, <1>7, <1>8 DEF IInv

\* A slot's handle is read, or its run is let go with the request given up.
LEMMA CloseSlotStep == ASSUME IInv, CloseSlot PROVE IInv'
<1>1. /\ hpc = "closing" /\ k < Depth /\ k' = k + 1
      /\ handle' = [handle EXCEPT ![k] = Free]
      /\ UNCHANGED <<hpc, op, req, issued, program, cur, place, bin, bout,
                     queue, failed, mem, closed>>
  BY DEF CloseSlot, device
<1>2. Commands' = Commands /\ Monolithic' = Monolithic /\ Faults' = Faults
  BY <1>1 DEF Commands, Monolithic, Faults
<1>3. /\ k \in Nat /\ k \in Slots /\ k + 1 <= Depth
      /\ handle \in [Slots -> Reqs \cup {Free}] /\ issued \in Nat
      /\ \A s \in Slots : s < k + 1 => s < k \/ s = k
      /\ ~ closed
  <2>1. k \in Nat /\ Depth \in Nat \ {0} /\ issued \in Nat
    BY KindProps DEF IInv, TypeOK
  <2>2. handle \in [Slots -> Reqs \cup {Free}] /\ ~ closed
    BY <1>1 DEF IInv, TypeOK, ControlInv
  <2> QED
    BY <1>1, <2>1, <2>2 DEF Slots
<1>4. \/ /\ handle[k] # Free
         /\ Cached(handle[k]) \/ Completed(LastCmd(handle[k]))
         /\ Fetch(handle[k]) /\ lost' = lost
      \/ /\ handle[k] # Free /\ lost' = lost \cup {handle[k]}
         /\ result' = result
      \/ handle[k] = Free /\ result' = result /\ lost' = lost
  BY DEF CloseSlot
<1>5. /\ result' \in [Reqs -> Content]
      /\ lost \subseteq lost' /\ lost' \subseteq Reqs
      /\ \A r \in Reqs : result'[r] # result[r] =>
           /\ r = handle[k] /\ r <= issued
           /\ Unpushed(r) \/ result'[r] = Final(r)
  <2>1. CASE result' = result
    BY <1>3, <1>4, <2>1 DEF IInv, TypeOK
  <2>2. CASE /\ handle[k] # Free
             /\ Cached(handle[k]) \/ Completed(LastCmd(handle[k]))
             /\ Fetch(handle[k]) /\ lost' = lost
    <3>1. /\ result' \in [Reqs -> Content]
          /\ \A r \in Reqs : r # handle[k] => result'[r] = result[r]
          /\ ~ Cached(handle[k]) => Given(handle[k], result'[handle[k]])
          /\ Cached(handle[k]) => result' = result
      BY <1>3, <2>2, FetchProps
    <3>2. handle[k] \in 1 .. issued
      BY <1>3, <2>2, HandleDone
    <3>3. ~ Cached(handle[k]) =>
            \/ Unpushed(handle[k])
            \/ result'[handle[k]] = Final(handle[k])
      BY <1>3, <2>2, <3>1, GivenProps
    <3> QED
      BY <1>3, <2>2, <3>1, <3>2, <3>3 DEF IInv, TypeOK
  <2> QED
    BY <1>4, <2>1, <2>2
<1>6. TypeOK'
  BY <1>1, <1>3, <1>5 DEF IInv, TypeOK
<1>7. ControlInv' /\ ResultOwnIfPushed' /\ CloseInv'
  BY <1>1, <1>2, <1>3, <1>5
  DEF IInv, ControlInv, ResultOwnIfPushed, Unpushed, CloseInv, Final, Calling,
      Preparing,
      Dispatching, Timing
<1>8. NothingYet'
  <2>1. \A r \in Reqs : r \in Int
    BY DEF Reqs
  <2> QED
    BY <1>1, <1>3, <1>5, <2>1
    DEF IInv, NothingYet, Calling, Preparing, Dispatching
<1>9. OwnedInv'
  <2>0. \A i \in 1 .. Len(queue) : queue[i].slot \in Slots
    BY QueueProps DEF IInv
  <2>1. hpc \notin Timing /\ hpc \notin {"dispatch", "wait"}
    BY <1>1 DEF Timing
  <2> SUFFICES ASSUME NEW i \in 1 .. Len(queue)
               PROVE  /\ queue[i].of \in 1 .. issued
                      /\ \/ result'[queue[i].of] = Raised
                         \/ queue[i].of \in lost'
                         \/ /\ queue[i].slot # k
                            /\ handle[queue[i].slot] = queue[i].of
                            /\ handle[queue[i].slot] # Free
                            /\ result'[queue[i].of] \in {Nothing, Raised}
    BY <1>1, <1>3, <2>0 DEF OwnedInv, Abandoned, Unread, Cached
  <2>2. CASE /\ handle[k] # Free
             /\ Cached(handle[k]) \/ Completed(LastCmd(handle[k]))
             /\ Fetch(handle[k]) /\ lost' = lost
    BY <1>3, <2>1, <2>2, FetchOwned
  <2>3. CASE result' = result /\ (handle[k] # Free => handle[k] \in lost')
    BY <1>5, <2>1, <2>3 DEF IInv, OwnedInv, Abandoned, Unread, Cached
  <2> QED
    BY <1>4, <2>2, <2>3
<1>10. LastInv' /\ CallInv' /\ StageInv'
  BY <1>1 DEF LastInv, CallInv, StageInv, Dispatching
<1>11. ASSUME NEW t \in Slots, handle'[t] # Free
       PROVE  /\ handle[t] # Free /\ handle'[t] = handle[t]
              /\ result'[handle[t]] = result[handle[t]]
  <2>1. t # k /\ handle'[t] = handle[t]
    BY <1>1, <1>3, <1>11
  <2>2. handle[t] \in Reqs /\ handle[t] # handle[k]
    BY <1>3, <1>11, <2>1 DEF IInv, HandleInv
  <2> QED
    BY <1>5, <1>11, <2>1, <2>2
<1>12. HandleInv'
  BY <1>1, <1>2, <1>11 DEF IInv, HandleInv, Cached
<1>13. PushInv'
  BY <1>1, <1>11, PushStays DEF Unread, Cached
<1> QED
  BY <1>6, <1>7, <1>8, <1>9, <1>10, <1>12, <1>13 DEF IInv

LEMMA CloseDoneStep == ASSUME IInv, CloseDone PROVE IInv'
<1>1. /\ hpc = "closing" /\ k = Depth /\ closed' /\ hpc' = "idle"
      /\ closed' \in BOOLEAN
      /\ UNCHANGED <<op, req, k, issued, program, cur, handle, place, bin,
                     bout, queue, failed, mem, result, lost>>
  BY DEF CloseDone, ring, device
<1>2. Commands' = Commands /\ Monolithic' = Monolithic /\ Faults' = Faults
  BY <1>1 DEF Commands, Monolithic, Faults
<1>3. \A s \in Slots : s < Depth
  BY KindProps DEF IInv, Slots
<1>4. TypeOK'
  BY <1>1 DEF IInv, TypeOK
<1>5. /\ ControlInv' /\ NothingYet' /\ CloseInv' /\ ResultOwnIfPushed'
      /\ LastInv' /\ CallInv' /\ StageInv'
  BY <1>1, <1>2, <1>3
  DEF IInv, ControlInv, NothingYet, CloseInv, ResultOwnIfPushed, Unpushed,
      Final, LastInv,
      CallInv, StageInv, Calling, Preparing, Dispatching, Timing
<1>6. OwnedInv'
  BY <1>1 DEF IInv, OwnedInv, Abandoned, Unread, Cached, Timing
<1>7. HandleInv'
  BY <1>1, <1>2 DEF IInv, HandleInv, Cached, Calling, Preparing,
     Dispatching, Timing
<1>8. PushInv'
  BY <1>1, PushStays DEF Unread, Cached
<1> QED
  BY <1>4, <1>5, <1>6, <1>7, <1>8 DEF IInv

-----------------------------------------------------------------------------
(* The theorems.                                                           *)

LEMMA InitInv == Init => IInv
<1> SUFFICES ASSUME Init
             PROVE  IInv
  OBVIOUS
<1>1. /\ Depth \in Nat \ {0} /\ MaxReqs \in Nat /\ 0 \in Slots
  BY RingAssumption DEF RingAssumption, Slots
<1>2. Nothing \in Content
  BY DEF Nothing, Content
<1>3. queue = <<>> /\ Len(queue) = 0 /\ queue \in Seq(Command)
  BY DEF Init
<1>4. TypeOK
  BY <1>1, <1>2, <1>3 DEF Init, TypeOK
<1>5. /\ ControlInv /\ NothingYet /\ OwnedInv /\ LastInv /\ HandleInv
      /\ CallInv /\ StageInv /\ PushInv /\ CloseInv
      /\ ResultOwnIfPushed
  BY <1>1, <1>3
  DEF Init, ControlInv, NothingYet, OwnedInv, LastInv, HandleInv, CallInv,
      StageInv, PushInv, CloseInv, ResultOwnIfPushed, Calling, Preparing,
      Dispatching, Timing
<1> QED
  BY <1>4, <1>5 DEF IInv

LEMMA StutterInv == ASSUME IInv, UNCHANGED vars PROVE IInv'
<1>1. UNCHANGED <<hpc, op, req, k, issued, program, cur, handle, place, bin,
                  bout, queue, failed, mem, result, lost, closed>>
  BY DEF vars, ring, device
<1>2. Commands' = Commands /\ Monolithic' = Monolithic /\ Faults' = Faults
  BY <1>1 DEF Commands, Monolithic, Faults
<1>3. /\ TypeOK' /\ ControlInv' /\ NothingYet' /\ CloseInv'
      /\ ResultOwnIfPushed' /\ CallInv' /\ StageInv' /\ PushInv'
  BY <1>1, <1>2
  DEF IInv, TypeOK, ControlInv, NothingYet, CloseInv, ResultOwnIfPushed,
      Unpushed,
      Final, CallInv, StageInv, PushInv, Fed, Pushed, Unread, Cached
<1>4. OwnedInv' /\ HandleInv' /\ LastInv'
  BY <1>1, <1>2 DEF IInv, OwnedInv, Abandoned, Unread, Cached, HandleInv,
     LastInv, BenchCmd, Cmd, Pong
<1> QED
  BY <1>3, <1>4 DEF IInv

LEMMA NextInv ==
  ASSUME WaitsChecked, IInv, [Next]_vars
  PROVE  IInv'
<1>1. CASE Execute \/ GiveUp
  BY <1>1, DeviceStep
<1>2. CASE \E r \in Reqs : HandleWait(r)
  BY <1>2, HandleWaitStep
<1>3. CASE \E o \in {"run", "async", "maps"} : Call(o)
  BY <1>3, CallStep
<1>4. CASE Recycle
  BY <1>4, RecycleStep
<1>5. CASE RecycleRaises \/ WaitRaises \/ RoundRaises
  BY <1>5, RaiseStep
<1>6. CASE Fill \/ Dispatch
  BY <1>6, FillStep, DispatchStep
<1>7. CASE Waited \/ Read
  BY <1>7, WaitedStep, ReadStep
<1>8. CASE StartBenchmark \/ Round
  BY <1>8, StartBenchmarkStep, RoundStep
<1>9. CASE RoundWait \/ RoundDrain
  BY <1>9, RoundWaitStep, RoundDrainStep
<1>10. CASE Close \/ CloseSlot \/ CloseDone
  BY <1>10, CloseStep, CloseSlotStep, CloseDoneStep
<1>11. CASE Ended \/ UNCHANGED vars
  BY <1>11, StutterInv DEF Ended
<1> QED
  BY <1>1, <1>2, <1>3, <1>4, <1>5, <1>6, <1>7, <1>8, <1>9, <1>10, <1>11
  DEF Next

\* The inductive invariant: what the BOs hold and whose the commands are.
THEOREM RingInvariant == WaitsChecked => (Spec => []IInv)
<1> SUFFICES ASSUME WaitsChecked
             PROVE  Spec => []IInv
  OBVIOUS
<1>1. IInv /\ [Next]_vars => IInv'
  BY NextInv
<1> QED
  BY <1>1, InitInv, PTL DEF Spec

\* Every variable keeps its type.
THEOREM RingTypes == WaitsChecked => (Spec => []TypeOK)
<1> SUFFICES ASSUME WaitsChecked
             PROVE  Spec => []TypeOK
  OBVIOUS
<1>1. IInv => TypeOK
  BY DEF IInv
<1> QED
  BY <1>1, RingInvariant, PTL

\* run and RunHandle.wait raise or return what the device computed from that
\* request's input, however late commands end and whatever the ring was reused
\* for, in a program whose waits are looked at: unless the first of two
\* dispatches failed, whose state the code discards.
THEOREM ResultsOwn == WaitsChecked => (Spec => []ResultOwnIfPushed)
<1> SUFFICES ASSUME WaitsChecked
             PROVE  Spec => []ResultOwnIfPushed
  OBVIOUS
<1>1. IInv => ResultOwnIfPushed
  BY DEF IInv
<1> QED
  BY <1>1, RingInvariant, PTL

\* A closed session has nothing on the device, unless a method raised or a
\* wait of close was swallowed.
LEMMA DrainedInv == IInv => CloseDrained
<1> SUFFICES ASSUME IInv, closed, lost = {},
                    \A r \in Reqs : result[r] # Raised
             PROVE  queue = <<>>
  BY DEF CloseDrained
<1>1. hpc = "idle" /\ \A s \in Slots : handle[s] = Free
  BY DEF IInv, ControlInv, CloseInv
<1>2. queue \in Seq(Command) /\ issued \in 0 .. MaxReqs /\ MaxReqs \in Nat
  BY KindProps DEF IInv, TypeOK
<1>3. CASE queue # <<>>
  <2>1. 1 \in 1 .. Len(queue)
    BY <1>2, <1>3, EmptySeq
  <2>2. queue[1].slot \in Slots
    BY <2>1, QueueProps DEF IInv
  <2>3. queue[1].of \in 1 .. issued /\ Abandoned(queue[1].of)
    BY <1>1, <2>1, <2>2 DEF IInv, OwnedInv, Unread, Timing
  <2> QED
    BY <1>2, <2>3 DEF Abandoned, Reqs
<1> QED
  BY <1>3

THEOREM ClosedDrained == WaitsChecked => (Spec => []CloseDrained)
<1> SUFFICES ASSUME WaitsChecked
             PROVE  Spec => []CloseDrained
  OBVIOUS
<1> QED
  BY DrainedInv, RingInvariant, PTL

\* No step writes an input BO under a command that may read it, unless that
\* command's request was given up.
LEMMA StableStep ==
  ASSUME IInv, [Next]_vars, NEW s \in Slots, bin'[s] # bin[s],
         NEW i \in 1 .. Len(queue), queue[i].slot = s
  PROVE  result[queue[i].of] = Raised
<1>1. CASE Fill
  <2>1. /\ hpc = "fill" /\ bin' = [bin EXCEPT ![cur] = Wrote(req, 0)]
        /\ bin \in [Slots -> Content]
    BY <1>1 DEF Fill, Wrote, IInv, TypeOK
  <2>2. s = cur
    BY <2>1
  <2>3. handle[s] = Free /\ lost = {}
    BY <2>1, <2>2 DEF IInv, CallInv, ControlInv
  <2> QED
    BY <2>1, <2>3 DEF IInv, OwnedInv, Abandoned, Unread, Timing
<1>2. CASE Round
  <2>1. /\ hpc = "round" /\ bin' = [bin EXCEPT ![Pong(k)] = Wrote(req, 0)]
        /\ bin \in [Slots -> Content]
    BY <1>2 DEF Round, Wrote, IInv, TypeOK
  <2>2. bin[s] # Wrote(req, 0)
    BY <2>1
  <2>3. ~ Unread(s) /\ lost = {}
    BY <2>1 DEF IInv, HandleInv, ControlInv, Unread, Timing
  <2> QED
    BY <2>1, <2>2, <2>3 DEF IInv, OwnedInv, Abandoned
<1>3. CASE ~ Fill /\ ~ Round
  <2>1. bin' = bin
    BY <1>3
    DEF Next, Execute, GiveUp, HandleWait, Call, Recycle, RecycleRaises,
        Dispatch, Waited, WaitRaises, Read, StartBenchmark, RoundWait,
        RoundDrain, RoundRaises, Close, CloseSlot, CloseDone, Ended, vars
  <2> QED
    BY <2>1
<1> QED
  BY <1>1, <1>2, <1>3

THEOREM InputsStable == WaitsChecked => (Spec => InputStable)
<1> SUFFICES ASSUME WaitsChecked
             PROVE  Spec => InputStable
  OBVIOUS
<1>1. IInv /\ [Next]_vars =>
        [\A s \in Slots : bin'[s] # bin[s] =>
           \A i \in 1 .. Len(queue) :
             queue[i].slot = s => result[queue[i].of] = Raised]_vars
  BY StableStep
<1> QED
  BY <1>1, RingInvariant, PTL DEF Spec, InputStable
=============================================================================
