---------------------------- MODULE SessionRing ----------------------------
(***************************************************************************)
(* The ring of input/output BOs of runtime/session.py: InferenceSession's  *)
(* run, run_async, benchmark and close, and RunHandle.  One host thread    *)
(* (the class has no locks) works against a device that executes the       *)
(* commands of its hardware context in order, and that may be slower than  *)
(* a wait or fail a command.                                               *)
(*                                                                         *)
(* A BO's content is what it was computed from: the request whose input    *)
(* was read, and the last command of that request that wrote it.           *)
(***************************************************************************)
EXTENDS Integers, SequencesExt

CONSTANTS
  Depth,      \* ring_depth
  Stages,     \* commands of a request of a monolithic session
  MaxReqs,    \* bound on the requests of any program
  Programs    \* what the program does with its session, and with what luck

\* monolithic: enable_monolithic.  methods: what it calls, "run", "async" (of
\* a two-dispatch session) and "maps" (of a monolithic one: run with timestamps
\* or feature maps).  benchmark: when it calls benchmark, "idle" being with no
\* handle unread.  faults: waits may time out and commands fail.  requests:
\* bound on its requests.
Program ==
  [monolithic : BOOLEAN, methods : SUBSET {"run", "async", "maps"},
   benchmark : {"never", "idle", "anytime"}, faults : BOOLEAN,
   requests : 0 .. MaxReqs]

ASSUME RingAssumption ==
  /\ Depth \in Nat \ {0} /\ Stages \in Nat \ {0} /\ MaxReqs \in Nat
  /\ Programs \subseteq Program
  /\ \A p \in Programs :
       (IF p.monolithic THEN "async" ELSE "maps") \notin p.methods

Slots == 0 .. Depth - 1
Reqs  == 1 .. MaxReqs
Free  == -1          \* no handle in a slot

VARIABLES
  program,   \* the one of Programs that runs
  hpc,       \* the host thread
  op,        \* the method it is in
  req, k,    \* its request and the command it is at
  issued,    \* requests made
  cur,       \* _current_slot
  handle,    \* per slot: in_flight_run, a request
  place,     \* per request: the slot it used
  bin, bout, \* the BOs
  queue,     \* commands the device has, oldest first
  failed,    \* commands the device gave up
  mem,       \* what the MemTile stage holds between two commands
  result,    \* per request: nothing yet, raised, or what was returned
  lost,      \* requests whose handle close() took the run from
  closed

Monolithic == program.monolithic
Faults     == program.faults
Benchmark  == program.benchmark
Commands   == IF Monolithic THEN Stages ELSE 2   \* of one request

ring == <<program, cur, handle, place>>
device == <<queue, failed, mem>>
vars == <<hpc, op, req, k, issued, ring, bin, bout, device, result, lost,
          closed>>

Nothing == [of |-> -1, cmd |-> 0]
Raised  == [of |-> -1, cmd |-> 1]
Final(r) == [of |-> r, cmd |-> Commands]
Cmd(r, c, s) == [of |-> r, cmd |-> c, slot |-> s]

Init ==
  /\ program \in Programs
  /\ hpc = "idle" /\ op = "run" /\ req = 1 /\ k = 0 /\ issued = 0
  /\ cur = 0 /\ handle = [s \in Slots |-> Free]
  /\ place = [r \in Reqs |-> 0]
  /\ bin = [s \in Slots |-> Nothing] /\ bout = [s \in Slots |-> Nothing]
  /\ queue = <<>> /\ failed = {} /\ mem = Nothing
  /\ result = [r \in Reqs |-> Nothing]
  /\ lost = {} /\ closed = FALSE

-----------------------------------------------------------------------------
(* The device.                                                             *)

\* The first monolithic stage reads the input BO, a later one what the one
\* before it left in the MemTile. A dispatch of the two-dispatch path drains
\* what the ping-pong stage holds and pushes its own input into it: the second
\* drains what the first pushed.
Execute ==
  /\ queue # <<>>
  /\ LET c == Head(queue)
         input == bin[c.slot].of
         drained == IF Monolithic /\ c.cmd = 1 THEN input ELSE mem.of
         pushed == IF Monolithic THEN drained ELSE input
     IN  /\ bout' = [bout EXCEPT ![c.slot] = [of |-> drained, cmd |-> c.cmd]]
         /\ mem' = [of |-> pushed, cmd |-> c.cmd]
  /\ queue' = Tail(queue)
  /\ UNCHANGED <<hpc, op, req, k, issued, ring, bin, failed, result, lost,
                 closed>>

GiveUp ==
  /\ Faults /\ queue # <<>>
  /\ failed' = failed \cup {Head(queue)}
  /\ queue' = Tail(queue)
  /\ UNCHANGED <<hpc, op, req, k, issued, ring, bin, bout, mem, result, lost,
                 closed>>

\* run.wait: completed, or another state (an error, or a timeout).
Completed(c) == ~Contains(queue, c) /\ c \notin failed
OtherState(c) == c \in failed \/ (Faults /\ Contains(queue, c))

-----------------------------------------------------------------------------
(* RunHandle.wait, called by the program or to recycle a slot.             *)

LastCmd(r) == Cmd(r, Commands, place[r])
Cached(r) == result[r] \notin {Nothing, Raised}
\* Reads the slot's output BO once; the result is kept.
Fetch(r) ==
  result' = IF Cached(r) THEN result
            ELSE [result EXCEPT ![r] = bout[place[r]]]

\* The program waits for an asynchronous request.
HandleWait(r) ==
  /\ hpc = "idle" /\ ~closed
  /\ \E s \in Slots : handle[s] = r
  /\ ~Cached(r) /\ Completed(LastCmd(r))
  /\ Fetch(r)
  /\ UNCHANGED <<hpc, op, req, k, issued, ring, bin, bout, device, lost,
                 closed>>

-----------------------------------------------------------------------------
(* run and run_async.                                                      *)

\* A request; each NPU partition of a partitioned graph is one of its own, and
\* the CPU partitions between them touch nothing here.
Call(o) ==
  /\ hpc = "idle" /\ ~closed /\ issued < program.requests
  /\ o \in program.methods
  /\ op' = o /\ hpc' = "recycle" /\ k' = 1
  /\ issued' = issued + 1 /\ req' = issued + 1
  /\ UNCHANGED <<ring, bin, bout, device, result, lost,
                 closed>>

\* Fault: the handle in the slot is dropped without waiting for it.
RecycleDropped ==
  /\ hpc = "recycle"
  /\ handle' = [handle EXCEPT ![cur] = Free]
  /\ hpc' = "fill"
  /\ UNCHANGED <<op, req, k, issued, program, cur, place, bin, bout, device,
                 result, lost, closed>>
\* The slot's previous asynchronous request must have completed.
Recycle ==
  /\ hpc = "recycle"
  /\ \/ handle[cur] = Free /\ UNCHANGED result
     \/ /\ handle[cur] # Free
        /\ Cached(handle[cur]) \/ Completed(LastCmd(handle[cur]))
        /\ Fetch(handle[cur])
  /\ handle' = [handle EXCEPT ![cur] = Free]
  /\ hpc' = "fill"
  /\ UNCHANGED <<op, req, k, issued, program, cur, place, bin, bout, device,
                 lost, closed>>

RecycleRaises ==
  /\ hpc = "recycle" /\ handle[cur] # Free
  /\ ~Cached(handle[cur]) /\ OtherState(LastCmd(handle[cur]))
  /\ result' = [result EXCEPT ![req] = Raised]
  /\ hpc' = "idle"
  /\ UNCHANGED <<op, req, k, issued, ring, bin, bout, device, lost, closed>>

\* The input BO is written and synchronised.
Fill ==
  /\ hpc = "fill"
  /\ bin' = [bin EXCEPT ![cur] = [of |-> req, cmd |-> 0]]
  /\ place' = [place EXCEPT ![req] = cur]
  /\ hpc' = "dispatch"
  /\ UNCHANGED <<op, req, k, issued, program, cur, handle, bout, device,
                 result, lost, closed>>

\* The last command of run_async is not waited for: its handle stays.
Dispatch ==
  /\ hpc = "dispatch"
  /\ queue' = Append(queue, Cmd(req, k, cur))
  /\ IF op = "async" /\ k = Commands
     THEN /\ handle' = [handle EXCEPT ![cur] = req]
          /\ cur' = (cur + 1) % Depth
          /\ hpc' = "idle"
     ELSE hpc' = "wait" /\ UNCHANGED <<cur, handle>>
  /\ UNCHANGED <<op, req, k, issued, program, place, bin, bout, failed, mem,
                 result, lost,
                 closed>>

\* Fault: the stage loop never looks at it.
UncheckedStages == Monolithic \/ k < Commands
\* Whether the state that wait returns is looked at: only for the second of
\* the two dispatches, and in the stage loop that keeps timestamps.
Unchecked == IF Monolithic THEN op = "run" ELSE k < Commands

Waited ==
  /\ hpc = "wait"
  /\ LET c == Cmd(req, k, cur)
     IN  Completed(c) \/ (Unchecked /\ OtherState(c))
  /\ IF k < Commands THEN k' = k + 1 /\ hpc' = "dispatch"
                     ELSE hpc' = "read" /\ UNCHANGED k
  /\ UNCHANGED <<op, req, issued, ring, bin, bout, device, result, lost,
                 closed>>

\* RuntimeError: the ring does not advance.
WaitRaises ==
  /\ hpc = "wait" /\ ~Unchecked /\ OtherState(Cmd(req, k, cur))
  /\ result' = [result EXCEPT ![req] = Raised]
  /\ hpc' = "idle"
  /\ UNCHANGED <<op, req, k, issued, ring, bin, bout, device, lost, closed>>

Read ==
  /\ hpc = "read"
  /\ result' = [result EXCEPT ![req] = bout[cur]]
  /\ cur' = (cur + 1) % Depth
  /\ hpc' = "idle"
  /\ UNCHANGED <<op, req, k, issued, program, handle, place, bin, bout,
                 device, lost, closed>>

-----------------------------------------------------------------------------
(* benchmark: profile_pipelined_hardware_execution over the ping and pong  *)
(* BOs of the ring, one command ahead of the wait.  The warm-up and the    *)
(* timed rounds are two pipelines; the warm-up's last wait goes unlooked   *)
(* at.                                                                     *)

Warm   == 2
Rounds == Warm + 3
Opens(n) == n \in {1, Warm + 1}
Closes(n) == n \in {Warm, Rounds}
\* Rounds alternate over two sets, from the first again in each pipeline.
Pong(n) == (IF n <= Warm THEN n - 1 ELSE n - Warm - 1)
             % (IF Depth > 1 THEN 2 ELSE 1)

StartBenchmark ==
  /\ hpc = "idle" /\ ~closed /\ ~Monolithic
  /\ \/ Benchmark = "anytime"
     \/ Benchmark = "idle" /\ \A s \in Slots :
          handle[s] # Free => Cached(handle[s])
  /\ issued < program.requests /\ issued' = issued + 1 /\ req' = issued + 1
  /\ k' = 1 /\ op' = "bench" /\ hpc' = "round"
  /\ UNCHANGED <<ring, bin, bout, device, result, lost,
                 closed>>

BenchCmd(n) == Cmd(req, n, Pong(n))

Round ==
  /\ hpc = "round"
  /\ bin' = [bin EXCEPT ![Pong(k)] = [of |-> req, cmd |-> 0]]
  /\ queue' = Append(queue, BenchCmd(k))
  /\ IF Opens(k) THEN k' = k + 1 /\ UNCHANGED hpc
                 ELSE hpc' = "roundwait" /\ UNCHANGED k
  /\ UNCHANGED <<op, req, issued, ring, bout, failed, mem, result, lost,
                 closed>>

\* The wait for the round before.
RoundWait ==
  /\ hpc = "roundwait" /\ Completed(BenchCmd(k - 1))
  /\ IF Closes(k) THEN hpc' = "rounddrain" /\ UNCHANGED k
                ELSE hpc' = "round" /\ k' = k + 1
  /\ UNCHANGED <<op, req, issued, ring, bin, bout, device, result, lost,
                 closed>>

\* The wait for a pipeline's last round.
RoundDrain ==
  /\ hpc = "rounddrain"
  /\ Completed(BenchCmd(k)) \/ (k = Warm /\ OtherState(BenchCmd(k)))
  /\ IF k = Warm THEN hpc' = "round" /\ k' = k + 1
                 ELSE hpc' = "idle" /\ UNCHANGED k
  /\ UNCHANGED <<op, req, issued, ring, bin, bout, device, result, lost,
                 closed>>

RoundRaises ==
  /\ \/ hpc = "roundwait" /\ OtherState(BenchCmd(k - 1))
     \/ hpc = "rounddrain" /\ k # Warm /\ OtherState(BenchCmd(k))
  /\ result' = [result EXCEPT ![req] = Raised]
  /\ hpc' = "idle"
  /\ UNCHANGED <<op, req, k, issued, ring, bin, bout, device, lost, closed>>

-----------------------------------------------------------------------------
(* close.                                                                  *)

Close ==
  /\ hpc = "idle" /\ ~closed
  /\ hpc' = "closing" /\ k' = 0
  /\ UNCHANGED <<op, req, issued, ring, bin, bout, device, result, lost,
                 closed>>

\* Fault: the handles are dropped, not waited for.
CloseSlotDropped ==
  /\ hpc = "closing" /\ k < Depth
  /\ handle' = [handle EXCEPT ![k] = Free]
  /\ k' = k + 1
  /\ UNCHANGED <<hpc, op, req, issued, program, cur, place, bin, bout,
                 device, result, lost,
                 closed>>
\* Waits for the slot's request; what the wait raises is swallowed, and the
\* handle loses its run.
CloseSlot ==
  /\ hpc = "closing" /\ k < Depth
  /\ LET r == handle[k]
     IN  \/ r # Free /\ (Cached(r) \/ Completed(LastCmd(r))) /\ Fetch(r)
            /\ UNCHANGED lost
         \/ r # Free /\ ~Cached(r) /\ OtherState(LastCmd(r))
            /\ lost' = lost \cup {r} /\ UNCHANGED result
         \/ r = Free /\ UNCHANGED <<result, lost>>
  /\ handle' = [handle EXCEPT ![k] = Free]
  /\ k' = k + 1
  /\ UNCHANGED <<hpc, op, req, issued, program, cur, place, bin, bout,
                 device, closed>>

CloseDone ==
  /\ hpc = "closing" /\ k = Depth
  /\ closed' = TRUE /\ hpc' = "idle"
  /\ UNCHANGED <<op, req, k, issued, ring, bin, bout, device, result, lost>>

-----------------------------------------------------------------------------
Ended == closed /\ queue = <<>> /\ UNCHANGED vars

Next ==
  \/ Execute \/ GiveUp
  \/ \E r \in Reqs : HandleWait(r)
  \/ \E o \in {"run", "async", "maps"} : Call(o)
  \/ Recycle \/ RecycleRaises \/ Fill \/ Dispatch
  \/ Waited \/ WaitRaises \/ Read
  \/ StartBenchmark \/ Round \/ RoundWait \/ RoundDrain \/ RoundRaises
  \/ Close \/ CloseSlot \/ CloseDone \/ Ended

Spec == Init /\ [][Next]_vars
-----------------------------------------------------------------------------
(* Properties.                                                             *)

\* run and RunHandle.wait raise, or return what the device computed from the
\* input of that very request, whatever the ring was reused for since.
ResultIsOwn ==
  \A r \in Reqs : result[r] \in {Nothing, Raised, Final(r)}

\* The first of a request's two dispatches failed. dispatch_kernel returns the
\* state and the code discards it: the second drains what an earlier request
\* pushed.
Unpushed(r) == ~Monolithic /\ Cmd(r, 1, place[r]) \in failed

\* So much of it the two-dispatch path keeps: with its input pushed, however
\* late, a request is given its own result, whatever became of those before it.
ResultOwnIfPushed ==
  \A r \in Reqs : Unpushed(r) \/ result[r] \in {Nothing, Raised, Final(r)}

\* The host writes no input BO while a command that may read it is on the
\* device, unless its request was given up with an error.
InputStable ==
  [][\A s \in Slots : bin'[s] # bin[s] =>
       \A i \in 1 .. Len(queue) :
         queue[i].slot = s =>
           result[queue[i].of] = Raised]_vars

\* "Cleanly releases PyXRT buffer handles" (close): unless a method raised or
\* a wait of close() itself was swallowed, the BOs are released after the last
\* command that uses them.
CloseDrained ==
  closed /\ lost = {} /\ (\A r \in Reqs : result[r] # Raised) => queue = <<>>
=============================================================================
