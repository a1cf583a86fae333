----------------------------- MODULE SplicerInv -----------------------------
(***************************************************************************)
(* The inductive invariant behind the safety properties of KernelSplicer:  *)
(* who holds which lock at each step of a run, where a command on the      *)
(* device can come from, and what the buffers hold half-way down a chain.  *)
(***************************************************************************)
EXTENDS KernelSplicer

\* The steps between the last lock taken and the return or the exception.
Holding == {"submit", "primewait", "wait", "audit", "raise"}

\* Hosts own what they touch; runners' locks are those of the run in progress,
\* or, once it failed, of every buffer.
LockInv ==
  /\ \A h \in Hosts : hpc[h] # None => lock[hpc[h]] = h
  /\ mutex # None => \A b \in locked : lock[b] = mutex
  /\ ~failed => \A b \in Buffers : lock[b] \in Runners => b \in locked
  /\ failed => \A b \in Buffers : lock[b] \in Runners

\* What the runner has at each of its steps.
ControlInv ==
  /\ mutex = None <=> rpc = "idle"
  /\ ~failed /\ rpc \in {"idle", "check"} => locked = {}
  /\ rpc = "check" => i = 0 /\ locked = {}
  /\ rpc = "lock" =>
       ~failed /\ ~closed /\ \A b \in Buffers : b < i => b \in locked
  /\ rpc \in Holding => ~failed /\ ~closed /\ locked = Buffers /\ i \in Chain
  /\ rpc \in {"primewait", "wait", "audit", "raise"} => submitted
  /\ rpc = "audit" => i = Stages
  /\ failed => ~closed

\* A command on the device is the one being waited for, or that of a run that
\* has failed.
CommandInv ==
  /\ \A s \in Chain : OnDevice(s) =>
       failed \/ rpc = "raise" \/ (rpc \in {"primewait", "wait"} /\ s = i)
  /\ rpc = "wait" => cmd[i] # "prime"

\* The stages that are done have passed the upload on.
FlowInv ==
  /\ buf[0].stages = 0
  /\ rpc \in Holding => \A j \in Buffers :
       j < i \/ (j = i /\ (rpc = "audit" \/ (rpc = "wait" /\ cmd[i] = "none")))
         => buf[j] = [of |-> expect, stages |-> j]

IInv ==
  TypeOK /\ LockInv /\ ControlInv /\ CommandInv /\ FlowInv /\ OneAtATime
=============================================================================
