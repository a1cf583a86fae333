--------------------------- MODULE KernelSplicer ---------------------------
(***************************************************************************)
(* The chain of kernels of runtime/splice.py: KernelSplicer's run and      *)
(* close, KernelStage's priming, and DeviceBuffer's read and write, called *)
(* by any thread.  Buffer 0 is the first stage's input; buffer i is stage  *)
(* i's output and stage i+1's input, one BO.  Every lock is tried, never   *)
(* waited for.                                                             *)
(*                                                                         *)
(* A buffer's content is the upload it was computed from and the stages it *)
(* went through.                                                           *)
(***************************************************************************)
EXTENDS Integers, FiniteSets

CONSTANTS
  Stages,     \* length of the chain
  Runners,    \* threads that call run
  Hosts,      \* threads that read and write the buffers
  MaxWrites,  \* bound on the uploads
  MaxRuns,    \* bound on the runs that get past the mutex
  Faults      \* whether a wait may time out and a command may fail

None == -1   \* no thread, no buffer

ASSUME SpliceAssumption ==
  /\ Stages \in Nat \ {0} /\ MaxWrites \in Nat /\ MaxRuns \in Nat
  /\ Faults \in BOOLEAN
  /\ Runners \cap Hosts = {} /\ None \notin Runners \cup Hosts

Chain   == 1 .. Stages
Buffers == 0 .. Stages

VARIABLES
  mutex,      \* the runner inside run, or none
  rpc, i,     \* the runner's step; the stage or buffer it is at
  locked,     \* buffers it has locked
  submitted, traffic, \* what it knows at the end of the run
  runs,
  failed, closed,
  primed,     \* per stage: its init transaction is done
  ownerOpen,  \* the InferenceSession the stages are borrowed from is open
  lock,       \* per buffer: its access lock
  hpc,        \* per host thread: the buffer it reads or writes, or none
  buf,        \* BO contents
  writes,
  cmd,        \* per stage: its command on the device
  expect,     \* history: the upload a run was started on
  faulted     \* history: a wait came back without completion

host == <<hpc, writes>>
chain == <<failed, closed, primed, ownerOpen>>
vars == <<mutex, rpc, i, locked, submitted, traffic, runs, chain, lock, host,
          buf, cmd, expect, faulted>>

Upload(n) == [of |-> n, stages |-> 0]
Result(n) == [of |-> n, stages |-> Stages]

Init ==
  /\ mutex = None /\ rpc = "idle" /\ i = 0 /\ locked = {}
  /\ submitted = FALSE /\ traffic = FALSE /\ runs = 0
  /\ failed = FALSE /\ closed = FALSE /\ ownerOpen = TRUE
  /\ primed \in [Chain -> BOOLEAN]
  /\ lock = [b \in Buffers |-> None]
  /\ hpc = [h \in Hosts |-> None] /\ writes = 0
  /\ buf = [b \in Buffers |-> Upload(0)]
  /\ cmd = [s \in Chain |-> "none"]
  /\ expect = 0 /\ faulted = FALSE

-----------------------------------------------------------------------------
(* KernelSplicer.run in thread r.  A second caller is turned away by the   *)
(* mutex and changes nothing.                                              *)

Enter(r) ==
  /\ mutex = None /\ runs < MaxRuns
  /\ mutex' = r /\ rpc' = "check" /\ i' = 0 /\ locked' = {}
  /\ submitted' = FALSE
  /\ runs' = runs + 1
  /\ UNCHANGED <<traffic, chain, lock, host, buf, cmd, expect, faulted>>

\* The traffic counters are read; then a closed or failed chain is refused,
\* and one whose session was closed.
Check ==
  /\ rpc = "check"
  /\ traffic' = FALSE
  /\ rpc' = IF closed \/ failed \/ ~ownerOpen THEN "unwind" ELSE "lock"
  /\ UNCHANGED <<mutex, i, locked, submitted, runs, chain, lock, host, buf,
                 cmd, expect, faulted>>

\* One buffer after the other; one in use ends the run.
LockBuffer ==
  /\ rpc = "lock" /\ i <= Stages
  /\ IF lock[i] = None
     THEN /\ i' = i + 1
          /\ lock' = [lock EXCEPT ![i] = mutex]
          /\ locked' = locked \cup {i}
          /\ UNCHANGED rpc
     ELSE rpc' = "unwind" /\ UNCHANGED <<i, lock, locked>>
  /\ UNCHANGED <<mutex, submitted, traffic, runs, chain, host, buf, cmd,
                 expect, faulted>>

Locked ==
  /\ rpc = "lock" /\ i > Stages
  /\ expect' = buf[0].of
  /\ i' = 1 /\ rpc' = "submit"
  /\ UNCHANGED <<mutex, locked, submitted, traffic, runs, chain, lock, host,
                 buf, cmd, faulted>>

\* A stage is primed before its first execution.  Priming a stage whose
\* session was closed meanwhile raises, with submitted set already.
Submit ==
  /\ rpc = "submit"
  /\ submitted' = TRUE
  /\ IF ~primed[i] /\ ~ownerOpen
     THEN rpc' = "raise" /\ UNCHANGED cmd
     ELSE /\ cmd' = [cmd EXCEPT ![i] = IF primed[i] THEN "run" ELSE "prime"]
          /\ rpc' = IF primed[i] THEN "wait" ELSE "primewait"
  /\ UNCHANGED <<mutex, i, locked, traffic, runs, chain, lock, host, buf,
                 expect, faulted>>

\* Fault: the init transaction stands for the stage's own.
PrimedSkips ==
  /\ rpc = "primewait" /\ cmd[i] = "none"
  /\ primed' = [primed EXCEPT ![i] = TRUE]
  /\ rpc' = "wait"
  /\ UNCHANGED <<mutex, i, locked, submitted, traffic, runs, failed, closed,
                 ownerOpen, lock, host, buf, cmd, expect, faulted>>
Primed ==
  /\ rpc = "primewait" /\ cmd[i] = "none"
  /\ primed' = [primed EXCEPT ![i] = TRUE]
  /\ rpc' = "submit"
  /\ UNCHANGED <<mutex, i, locked, submitted, traffic, runs, failed, closed,
                 ownerOpen, lock, host, buf, cmd, expect, faulted>>

\* Fault: the next stage is started without waiting for this one.
StageUnwaited ==
  /\ rpc = "wait"
  /\ IF i < Stages THEN i' = i + 1 /\ rpc' = "submit"
                   ELSE rpc' = "audit" /\ UNCHANGED i
  /\ UNCHANGED <<mutex, locked, submitted, traffic, runs, chain, lock, host,
                 buf, cmd, expect, faulted>>
StageDone ==
  /\ rpc = "wait" /\ cmd[i] = "none"
  /\ IF i < Stages THEN i' = i + 1 /\ rpc' = "submit"
                   ELSE rpc' = "audit" /\ UNCHANGED i
  /\ UNCHANGED <<mutex, locked, submitted, traffic, runs, chain, lock, host,
                 buf, cmd, expect, faulted>>

\* The wait returns another state: the command failed, or is still there.
StageNotDone ==
  /\ rpc \in {"wait", "primewait"}
  /\ cmd[i] = "failed" \/ (Faults /\ cmd[i] # "none")
  /\ rpc' = "raise" /\ faulted' = TRUE
  /\ UNCHANGED <<mutex, i, locked, submitted, traffic, runs, chain, lock, host,
                 buf, cmd, expect>>

\* The counters again: any host traffic since they were read is an error.
Audit ==
  /\ rpc = "audit"
  /\ rpc' = IF traffic THEN "raise" ELSE "unwind"
  /\ UNCHANGED <<mutex, i, locked, submitted, traffic, runs, chain, lock, host,
                 buf, cmd, expect, faulted>>

\* except: what was submitted poisons the chain, and the run is kept.
Raise ==
  /\ rpc = "raise"
  /\ failed' = (failed \/ submitted)
  /\ rpc' = "unwind"
  /\ UNCHANGED <<mutex, i, locked, submitted, traffic, runs, closed, primed,
                 ownerOpen, lock, host, buf, cmd, expect, faulted>>

\* Faults: the locks of every buffer are released, or those of a failed run.
UnwindAll ==
  /\ rpc = "unwind"
  /\ lock' = IF failed THEN lock ELSE [b \in Buffers |-> None]
  /\ locked' = IF failed THEN locked ELSE {}
  /\ mutex' = None /\ rpc' = "idle"
  /\ UNCHANGED <<i, submitted, traffic, runs, chain, host, buf, cmd, expect,
                 faulted>>
UnwindFailed ==
  /\ rpc = "unwind"
  /\ lock' = [b \in Buffers |-> IF b \in locked THEN None ELSE lock[b]]
  /\ locked' = {}
  /\ mutex' = None /\ rpc' = "idle"
  /\ UNCHANGED <<i, submitted, traffic, runs, chain, host, buf, cmd, expect,
                 faulted>>
\* finally: a failed chain keeps its buffers locked for good.
Unwind ==
  /\ rpc = "unwind"
  /\ lock' = IF failed THEN lock
             ELSE [b \in Buffers |-> IF b \in locked THEN None ELSE lock[b]]
  /\ locked' = IF failed THEN locked ELSE {}
  /\ mutex' = None /\ rpc' = "idle"
  /\ UNCHANGED <<i, submitted, traffic, runs, chain, host, buf, cmd, expect,
                 faulted>>

Run ==
  \/ Check \/ LockBuffer \/ Locked \/ Submit \/ Primed \/ StageDone
  \/ StageNotDone \/ Audit \/ Raise \/ Unwind

-----------------------------------------------------------------------------
(* The other threads.                                                      *)

\* DeviceBuffer.write and read, from the lock taken to the lock released:
\* both move the counters that run audits.
Touch(h, b) ==
  /\ hpc[h] = None /\ lock[b] = None
  /\ lock' = [lock EXCEPT ![b] = h]
  /\ hpc' = [hpc EXCEPT ![h] = b]
  /\ UNCHANGED <<mutex, rpc, i, locked, submitted, traffic, runs, chain,
                 writes, buf, cmd, expect, faulted>>

Written(h) ==
  /\ hpc[h] # None /\ writes < MaxWrites
  /\ buf' = [buf EXCEPT ![hpc[h]] = Upload(writes + 1)]
  /\ writes' = writes + 1 /\ traffic' = TRUE
  /\ lock' = [lock EXCEPT ![hpc[h]] = None]
  /\ hpc' = [hpc EXCEPT ![h] = None]
  /\ UNCHANGED <<mutex, rpc, i, locked, submitted, runs, chain, cmd, expect,
                 faulted>>

ReadOut(h) ==
  /\ hpc[h] # None
  /\ traffic' = TRUE
  /\ lock' = [lock EXCEPT ![hpc[h]] = None]
  /\ hpc' = [hpc EXCEPT ![h] = None]
  /\ UNCHANGED <<mutex, rpc, i, locked, submitted, runs, chain, writes, buf,
                 cmd, expect, faulted>>

\* Fault: the failed flag is not looked at.
CloseFailed ==
  /\ mutex = None /\ ~closed
  /\ closed' = TRUE
  /\ UNCHANGED <<mutex, rpc, i, locked, submitted, traffic, runs, failed,
                 primed, ownerOpen, lock, host, buf, cmd, expect, faulted>>
\* KernelSplicer.close: refused in flight and after a failure.
Close ==
  /\ mutex = None /\ ~closed /\ ~failed
  /\ closed' = TRUE
  /\ UNCHANGED <<mutex, rpc, i, locked, submitted, traffic, runs, failed,
                 primed, ownerOpen, lock, host, buf, cmd, expect, faulted>>

\* InferenceSession.close by whoever else holds the session.
CloseOwner ==
  /\ ownerOpen /\ ownerOpen' = FALSE
  /\ UNCHANGED <<mutex, rpc, i, locked, submitted, traffic, runs, failed,
                 closed, primed, lock, host, buf, cmd, expect, faulted>>

(* The device: commands of different contexts in any order.                *)

Execute(s) ==
  /\ cmd[s] \in {"run", "prime"}
  /\ buf' = IF cmd[s] = "prime" THEN buf
            ELSE [buf EXCEPT ![s] = [of |-> buf[s - 1].of,
                                     stages |-> buf[s - 1].stages + 1]]
  /\ cmd' = [cmd EXCEPT ![s] = "none"]
  /\ UNCHANGED <<mutex, rpc, i, locked, submitted, traffic, runs, chain, lock,
                 host, expect, faulted>>

Break(s) ==
  /\ Faults /\ cmd[s] \in {"run", "prime"}
  /\ cmd' = [cmd EXCEPT ![s] = "failed"]
  /\ UNCHANGED <<mutex, rpc, i, locked, submitted, traffic, runs, chain, lock,
                 host, buf, expect, faulted>>

-----------------------------------------------------------------------------

Next ==
  \/ (\E r \in Runners : Enter(r)) \/ Run
  \/ \E h \in Hosts :
       (\E b \in Buffers : Touch(h, b)) \/ Written(h) \/ ReadOut(h)
  \/ Close \/ CloseOwner
  \/ \E s \in Chain : Execute(s) \/ Break(s)

Spec == Init /\ [][Next]_vars
-----------------------------------------------------------------------------
(* Properties.                                                             *)

OnDevice(s) == cmd[s] \in {"run", "prime"}

TypeOK ==
  /\ mutex \in Runners \cup {None}
  /\ rpc \in {"idle", "check", "lock", "submit", "primewait", "wait", "audit",
              "raise", "unwind"}
  /\ i \in 0 .. Stages + 1
  /\ locked \in SUBSET Buffers
  /\ submitted \in BOOLEAN /\ traffic \in BOOLEAN /\ runs \in 0 .. MaxRuns
  /\ failed \in BOOLEAN /\ closed \in BOOLEAN /\ ownerOpen \in BOOLEAN
  /\ primed \in [Chain -> BOOLEAN]
  /\ lock \in [Buffers -> Runners \cup Hosts \cup {None}]
  /\ hpc \in [Hosts -> Buffers \cup {None}]
  /\ buf \in [Buffers -> [of : 0 .. MaxWrites, stages : Nat]]
  /\ writes \in 0 .. MaxWrites
  /\ cmd \in [Chain -> {"none", "run", "prime", "failed"}]
  /\ expect \in 0 .. MaxWrites /\ faulted \in BOOLEAN

\* "Host access is forbidden throughout a splice" (DeviceBuffer): no thread
\* reads or writes a buffer of the chain while a command of it is on the
\* device, also when the run that submitted the command has given up on it.
HostKeptOut ==
  \A s \in Chain : OnDevice(s) =>
    \A h \in Hosts : hpc[h] = None

\* "Completion-ordered chain": no stage starts before the one before it has
\* completed, and one command of the chain is on the device at a time.
OneAtATime == \A s, t \in Chain : OnDevice(s) /\ OnDevice(t) => s = t

\* A run that returns leaves the last buffer computed by every stage from
\* what was in the first buffer when the run locked it.
OutputComplete ==
  rpc = "audit" /\ ~traffic => buf[Stages] = [of |-> expect, stages |-> Stages]

\* "Failed splice resources must remain retained": once a run failed with
\* work submitted, the buffers it locked stay locked, no run submits again,
\* and the stages are not given back.
Quarantined ==
  failed => /\ ~closed
            /\ rpc \in {"idle", "check", "unwind"}
            /\ mutex = None => \A b \in Buffers : lock[b] \in Runners

\* A run that ends without poisoning the chain, for whatever reason, leaves
\* no lock behind and takes none of a reader's or writer's.
LocksReturned ==
  /\ mutex = None /\ ~failed => \A b \in Buffers : lock[b] \notin Runners
  /\ \A h \in Hosts : hpc[h] # None => lock[hpc[h]] = h

\* "Unexpected host traffic during splice": with a sound device and the
\* session open no run poisons the chain.
SoundRunsSucceed == failed => faulted \/ ~ownerOpen
=============================================================================
