---------------------------- MODULE SplicerProof ----------------------------
(***************************************************************************)
(* Proofs about KernelSplicer: its inductive invariant, and the safety     *)
(* properties that follow from it, for chains of any length and any        *)
(* number of threads.                                                      *)
(***************************************************************************)
EXTENDS SplicerInv, TLAPS

\* Entering takes the mutex and nothing else.
LEMMA EnterStep == ASSUME IInv, NEW r \in Runners, Enter(r) PROVE IInv'
<1> USE SpliceAssumption DEF IInv, Enter, Chain, Buffers, chain, host
<1>1. TypeOK'
  <2>1. runs \in 0 .. MaxRuns /\ runs + 1 \in 0 .. MaxRuns
    BY DEF TypeOK
  <2>2. 0 \in 0 .. Stages + 1
    OBVIOUS
  <2> QED
    BY <2>1, <2>2 DEF TypeOK
<1>2. LockInv'
  BY DEF TypeOK, LockInv, ControlInv, Holding
<1>3. ControlInv'
  BY DEF TypeOK, ControlInv, Holding
<1>4. CommandInv' /\ OneAtATime'
  BY DEF TypeOK, ControlInv, CommandInv, OneAtATime, OnDevice, Holding
<1>5. FlowInv'
  BY DEF TypeOK, ControlInv, FlowInv, Holding
<1> QED
  BY <1>1, <1>2, <1>3, <1>4, <1>5

\* A chain that is poisoned or closed is left with no lock taken.
LEMMA CheckStep == ASSUME IInv, Check PROVE IInv'
<1> USE SpliceAssumption DEF IInv, Check, Chain, Buffers, chain, host
<1>1. TypeOK'
  BY DEF TypeOK
<1>2. LockInv'
  BY DEF TypeOK, LockInv, ControlInv, Holding
<1>3. ControlInv'
  BY DEF TypeOK, ControlInv, Holding
<1>4. CommandInv' /\ OneAtATime'
  BY DEF TypeOK, ControlInv, CommandInv, OneAtATime, OnDevice, Holding
<1>5. FlowInv'
  BY DEF TypeOK, ControlInv, FlowInv, Holding
<1> QED
  BY <1>1, <1>2, <1>3, <1>4, <1>5

\* A free buffer is added to those the run holds.
LEMMA LockBufferStep == ASSUME IInv, LockBuffer PROVE IInv'
<1> USE SpliceAssumption DEF IInv, LockBuffer, Chain, Buffers, chain, host
<1> USE DEF TypeOK
<1>0. i \in Buffers /\ i + 1 \in 0 .. Stages + 1 /\ mutex \in Runners
  BY DEF ControlInv
<1>1. TypeOK'
  <2>1. CASE lock[i] = None
    BY <1>0, <2>1
  <2>2. CASE lock[i] # None
    BY <2>2
  <2> QED
    BY <2>1, <2>2
<1>2. LockInv'
  <2>1. CASE lock[i] = None
    <3>1. \A b \in Buffers : lock'[b] = IF b = i THEN mutex ELSE lock[b]
      BY <1>0, <2>1
    <3>2. \A h \in Hosts : hpc[h] # None => lock[hpc[h]] # None
      BY DEF LockInv
    <3>3. \A h \in Hosts : hpc[h] # None => lock'[hpc[h]] = h
      BY <2>1, <3>1, <3>2 DEF LockInv
    <3>4. \A b \in locked' : lock'[b] = mutex
      <4>1. locked' = locked \cup {i} /\ locked \subseteq Buffers
        BY <2>1
      <4>2. \A b \in locked : lock[b] = mutex
        BY <1>0 DEF LockInv
      <4> QED
        BY <1>0, <3>1, <4>1, <4>2
    <3>5. \A b \in Buffers : lock'[b] \in Runners => b \in locked'
      BY <1>0, <2>1, <3>1 DEF LockInv, ControlInv
    <3> QED
      BY <3>3, <3>4, <3>5 DEF LockInv, ControlInv
  <2>2. CASE lock[i] # None
    BY <2>2 DEF LockInv
  <2> QED
    BY <2>1, <2>2
<1>3. ControlInv'
  <2>1. CASE lock[i] = None
    <3>1. \A b \in Buffers : b < i + 1 => b < i \/ b = i
      BY <1>0
    <3> QED
      BY <1>0, <2>1, <3>1 DEF ControlInv, Holding
  <2>2. CASE lock[i] # None
    BY <2>2 DEF ControlInv, Holding
  <2> QED
    BY <2>1, <2>2
<1>4. CommandInv' /\ OneAtATime'
  BY DEF TypeOK, ControlInv, CommandInv, OneAtATime, OnDevice, Holding
<1>5. FlowInv'
  BY DEF TypeOK, ControlInv, FlowInv, Holding
<1> QED
  BY <1>1, <1>2, <1>3, <1>4, <1>5

\* With the last buffer locked, no thread is in read or write.
LEMMA LockedStep == ASSUME IInv, Locked PROVE IInv'
<1> USE SpliceAssumption DEF IInv, Locked, Chain, Buffers, chain, host
<1>1. TypeOK'
  <2>1. 0 \in Buffers /\ 1 \in 0 .. Stages + 1
    OBVIOUS
  <2>2. buf[0].of \in 0 .. MaxWrites
    BY <2>1 DEF TypeOK
  <2> QED
    BY <2>1, <2>2 DEF TypeOK
<1>2. LockInv'
  BY DEF TypeOK, LockInv, ControlInv, Holding
<1>3. ControlInv'
  <2>1. locked = Buffers
    <3>1. \A b \in Buffers : b < i
      BY DEF TypeOK
    <3> QED
      BY <3>1 DEF TypeOK, ControlInv
  <2> QED
    BY <2>1 DEF TypeOK, ControlInv, Holding
<1>4. CommandInv' /\ OneAtATime'
  BY DEF TypeOK, ControlInv, CommandInv, OneAtATime, OnDevice, Holding
<1>5. FlowInv'
  BY DEF TypeOK, ControlInv, FlowInv, Holding
<1> QED
  BY <1>1, <1>2, <1>3, <1>4, <1>5

\* The one submitted command is that of the stage the run is at.
LEMMA SubmitStep == ASSUME IInv, Submit PROVE IInv'
<1> USE SpliceAssumption DEF IInv, Submit, Chain, Buffers, chain, host
<1>1. TypeOK'
  BY DEF TypeOK
<1>2. LockInv'
  BY DEF TypeOK, LockInv, ControlInv, Holding
<1>3. ControlInv'
  BY DEF TypeOK, ControlInv, Holding
<1>4. CommandInv' /\ OneAtATime'
  <2>1. \A s \in Chain : cmd[s] \notin {"run", "prime"}
    BY DEF ControlInv, CommandInv, OnDevice, Holding
  <2>2. i \in Chain
    BY DEF ControlInv, Holding
  <2>3. CASE ~primed[i] /\ ~ownerOpen
    BY <2>1, <2>3 DEF CommandInv, OneAtATime, OnDevice
  <2>4. CASE ~(~primed[i] /\ ~ownerOpen)
    <3>1. \A s \in Chain : s # i => cmd'[s] = cmd[s]
      BY <2>4 DEF TypeOK
    <3>2. cmd'[i] = IF primed[i] THEN "run" ELSE "prime"
      BY <2>2, <2>4 DEF TypeOK
    <3>3. rpc' = IF primed[i] THEN "wait" ELSE "primewait"
      BY <2>4
    <3> QED
      BY <2>1, <3>1, <3>2, <3>3 DEF CommandInv, OneAtATime, OnDevice
  <2> QED
    BY <2>3, <2>4
<1>5. FlowInv'
  BY DEF TypeOK, ControlInv, FlowInv, Holding
<1> QED
  BY <1>1, <1>2, <1>3, <1>4, <1>5

\* Priming done, the stage's own command may follow.
LEMMA PrimedStep == ASSUME IInv, Primed PROVE IInv'
<1> USE SpliceAssumption DEF IInv, Primed, Chain, Buffers, chain, host
<1>1. TypeOK'
  BY DEF TypeOK
<1>2. LockInv'
  BY DEF TypeOK, LockInv, ControlInv, Holding
<1>3. ControlInv'
  BY DEF TypeOK, ControlInv, Holding
<1>4. CommandInv' /\ OneAtATime'
  BY DEF TypeOK, ControlInv, CommandInv, OneAtATime, OnDevice, Holding
<1>5. FlowInv'
  BY DEF TypeOK, ControlInv, FlowInv, Holding
<1> QED
  BY <1>1, <1>2, <1>3, <1>4, <1>5

\* A finished stage has passed the upload on to its buffer.
LEMMA StageDoneStep == ASSUME IInv, StageDone PROVE IInv'
<1> USE SpliceAssumption DEF IInv, StageDone, Chain, Buffers, chain, host
<1>1. TypeOK'
  <2>1. CASE i < Stages
    <3>1. i + 1 \in 0 .. Stages + 1
      BY <2>1 DEF TypeOK
    <3> QED
      BY <2>1, <3>1 DEF TypeOK
  <2>2. CASE ~(i < Stages)
    BY <2>2 DEF TypeOK
  <2> QED
    BY <2>1, <2>2
<1>2. LockInv'
  BY DEF TypeOK, LockInv, ControlInv, Holding
<1>3. ControlInv'
  BY DEF TypeOK, ControlInv, Holding
<1>4. CommandInv' /\ OneAtATime'
  BY DEF TypeOK, ControlInv, CommandInv, OneAtATime, OnDevice, Holding
<1>5. FlowInv'
  BY DEF TypeOK, ControlInv, FlowInv, Holding
<1> QED
  BY <1>1, <1>2, <1>3, <1>4, <1>5

\* A stage that is late or failed: the run is about to poison the chain.
LEMMA StageNotDoneStep == ASSUME IInv, StageNotDone PROVE IInv'
<1> USE SpliceAssumption DEF IInv, StageNotDone, Chain, Buffers, chain, host
<1>1. TypeOK'
  BY DEF TypeOK
<1>2. LockInv'
  BY DEF TypeOK, LockInv, ControlInv, Holding
<1>3. ControlInv'
  BY DEF TypeOK, ControlInv, Holding
<1>4. CommandInv' /\ OneAtATime'
  BY DEF TypeOK, ControlInv, CommandInv, OneAtATime, OnDevice, Holding
<1>5. FlowInv'
  BY DEF TypeOK, ControlInv, FlowInv, Holding
<1> QED
  BY <1>1, <1>2, <1>3, <1>4, <1>5

\* Only a run that has no command out comes to its end.
LEMMA AuditStep == ASSUME IInv, Audit PROVE IInv'
<1> USE SpliceAssumption DEF IInv, Audit, Chain, Buffers, chain, host
<1>1. TypeOK'
  BY DEF TypeOK
<1>2. LockInv'
  BY DEF TypeOK, LockInv, ControlInv, Holding
<1>3. ControlInv'
  BY DEF TypeOK, ControlInv, Holding
<1>4. CommandInv' /\ OneAtATime'
  BY DEF TypeOK, ControlInv, CommandInv, OneAtATime, OnDevice, Holding
<1>5. FlowInv'
  BY DEF TypeOK, ControlInv, FlowInv, Holding
<1> QED
  BY <1>1, <1>2, <1>3, <1>4, <1>5

\* A failed chain has every buffer locked for good.
LEMMA RaiseStep == ASSUME IInv, Raise PROVE IInv'
<1> USE SpliceAssumption DEF IInv, Raise, Chain, Buffers, chain, host
<1>1. TypeOK'
  BY DEF TypeOK
<1>2. LockInv'
  BY DEF TypeOK, LockInv, ControlInv, Holding
<1>3. ControlInv'
  BY DEF TypeOK, ControlInv, Holding
<1>4. CommandInv' /\ OneAtATime'
  BY DEF TypeOK, ControlInv, CommandInv, OneAtATime, OnDevice, Holding
<1>5. FlowInv'
  BY DEF TypeOK, ControlInv, FlowInv, Holding
<1> QED
  BY <1>1, <1>2, <1>3, <1>4, <1>5

\* A run that ends well gives back exactly the locks it took.
LEMMA UnwindStep == ASSUME IInv, Unwind PROVE IInv'
<1> USE SpliceAssumption DEF IInv, Unwind, Chain, Buffers, chain, host
<1>1. TypeOK'
  BY DEF TypeOK
<1>2. LockInv'
  BY DEF TypeOK, LockInv, ControlInv, Holding
<1>3. ControlInv'
  BY DEF TypeOK, ControlInv, Holding
<1>4. CommandInv' /\ OneAtATime'
  BY DEF TypeOK, ControlInv, CommandInv, OneAtATime, OnDevice, Holding
<1>5. FlowInv'
  BY DEF TypeOK, ControlInv, FlowInv, Holding
<1> QED
  BY <1>1, <1>2, <1>3, <1>4, <1>5

\* A thread in read or write owns the buffer's lock, and no run does.
LEMMA TouchStep ==
  ASSUME IInv, NEW h \in Hosts, NEW b \in Buffers, Touch(h, b)
  PROVE IInv'
<1> USE SpliceAssumption DEF IInv, Touch, Chain, Buffers, chain, host
<1>1. TypeOK'
  BY DEF TypeOK
<1>2. LockInv'
  BY DEF TypeOK, LockInv, ControlInv, Holding
<1>3. ControlInv'
  BY DEF TypeOK, ControlInv, Holding
<1>4. CommandInv' /\ OneAtATime'
  BY DEF TypeOK, ControlInv, CommandInv, OneAtATime, OnDevice, Holding
<1>5. FlowInv'
  BY DEF TypeOK, ControlInv, FlowInv, Holding
<1> QED
  BY <1>1, <1>2, <1>3, <1>4, <1>5

\* A write goes to a buffer that no run holds.
LEMMA WrittenStep == ASSUME IInv, NEW h \in Hosts, Written(h) PROVE IInv'
<1> USE SpliceAssumption DEF IInv, Written, Chain, Buffers, chain, host
<1> DEFINE b == hpc[h]
<1>0. /\ b \in Buffers /\ writes + 1 \in 0 .. MaxWrites
      /\ Upload(writes + 1) \in [of : 0 .. MaxWrites, stages : Nat]
      /\ buf'[b] = Upload(writes + 1)
      /\ \A c \in Buffers : c # b => buf'[c] = buf[c]
  BY DEF TypeOK, Upload
<1>1. TypeOK'
  BY <1>0 DEF TypeOK
<1>2. LockInv'
  BY DEF TypeOK, LockInv, ControlInv, Holding
<1>3. ControlInv'
  BY DEF TypeOK, ControlInv, Holding
<1>4. CommandInv' /\ OneAtATime'
  BY DEF TypeOK, ControlInv, CommandInv, OneAtATime, OnDevice, Holding
<1>5. FlowInv'
  <2>1. rpc \notin Holding
    <3>1. lock[b] = h
      BY DEF LockInv
    <3>2. rpc \in Holding => mutex # None /\ lock[b] = mutex
      BY <1>0 DEF LockInv, ControlInv, Holding
    <3> QED
      BY <3>1, <3>2 DEF TypeOK
  <2>2. buf'[0].stages = 0
    BY <1>0 DEF FlowInv, Upload
  <2> QED
    BY <2>1, <2>2 DEF FlowInv
<1> QED
  BY <1>1, <1>2, <1>3, <1>4, <1>5

\* A read changes nothing but its own lock.
LEMMA ReadOutStep == ASSUME IInv, NEW h \in Hosts, ReadOut(h) PROVE IInv'
<1> USE SpliceAssumption DEF IInv, ReadOut, Chain, Buffers, chain, host
<1>1. TypeOK'
  BY DEF TypeOK
<1>2. LockInv'
  BY DEF TypeOK, LockInv, ControlInv, Holding
<1>3. ControlInv'
  BY DEF TypeOK, ControlInv, Holding
<1>4. CommandInv' /\ OneAtATime'
  BY DEF TypeOK, ControlInv, CommandInv, OneAtATime, OnDevice, Holding
<1>5. FlowInv'
  BY DEF TypeOK, ControlInv, FlowInv, Holding
<1> QED
  BY <1>1, <1>2, <1>3, <1>4, <1>5

\* Closing needs a chain that is idle and sound.
LEMMA CloseStep == ASSUME IInv, Close PROVE IInv'
<1> USE SpliceAssumption DEF IInv, Close, Chain, Buffers, chain, host
<1>1. TypeOK'
  BY DEF TypeOK
<1>2. LockInv'
  BY DEF TypeOK, LockInv, ControlInv, Holding
<1>3. ControlInv'
  BY DEF TypeOK, ControlInv, Holding
<1>4. CommandInv' /\ OneAtATime'
  BY DEF TypeOK, ControlInv, CommandInv, OneAtATime, OnDevice, Holding
<1>5. FlowInv'
  BY DEF TypeOK, ControlInv, FlowInv, Holding
<1> QED
  BY <1>1, <1>2, <1>3, <1>4, <1>5

\* An owner's close is seen by the next submission only.
LEMMA CloseOwnerStep == ASSUME IInv, CloseOwner PROVE IInv'
<1> USE SpliceAssumption DEF IInv, CloseOwner, Chain, Buffers, chain, host
<1>1. TypeOK'
  BY DEF TypeOK
<1>2. LockInv'
  BY DEF TypeOK, LockInv, ControlInv, Holding
<1>3. ControlInv'
  BY DEF TypeOK, ControlInv, Holding
<1>4. CommandInv' /\ OneAtATime'
  BY DEF TypeOK, ControlInv, CommandInv, OneAtATime, OnDevice, Holding
<1>5. FlowInv'
  BY DEF TypeOK, ControlInv, FlowInv, Holding
<1> QED
  BY <1>1, <1>2, <1>3, <1>4, <1>5

\* A command executes in the stage the run waits for, or after a failure.
LEMMA ExecuteStep == ASSUME IInv, NEW s \in Chain, Execute(s) PROVE IInv'
<1> USE SpliceAssumption DEF IInv, Execute, Chain, Buffers, chain, host
<1> DEFINE out == [of |-> buf[s - 1].of, stages |-> buf[s - 1].stages + 1]
<1>0. /\ s \in Buffers /\ s - 1 \in Buffers /\ s # 0
      /\ out \in [of : 0 .. MaxWrites, stages : Nat]
      /\ cmd[s] # "prime" => buf'[s] = out
      /\ \A c \in Buffers : c # s => buf'[c] = buf[c]
      /\ cmd[s] = "prime" => buf' = buf
  BY DEF TypeOK
<1>1. TypeOK'
  <2>1. buf' \in [Buffers -> [of : 0 .. MaxWrites, stages : Nat]]
    BY <1>0 DEF TypeOK
  <2> QED
    BY <2>1 DEF TypeOK
<1>2. LockInv'
  BY DEF TypeOK, LockInv, ControlInv, Holding
<1>3. ControlInv'
  BY DEF TypeOK, ControlInv, Holding
<1>4. CommandInv' /\ OneAtATime'
  BY DEF TypeOK, ControlInv, CommandInv, OneAtATime, OnDevice, Holding
<1>5. FlowInv'
  <2>1. buf'[0].stages = 0
    BY <1>0 DEF FlowInv
  <2>2. ASSUME rpc \in Holding, NEW j \in Buffers,
               \/ j < i
               \/ j = i /\ (rpc = "audit" \/ (rpc = "wait" /\ cmd'[i] = "none"))
        PROVE  buf'[j] = [of |-> expect, stages |-> j]
    <3>1. (s = i /\ rpc \in {"primewait", "wait"}) \/ rpc = "raise"
      BY <2>2 DEF CommandInv, OnDevice, ControlInv, Holding
    <3>2. CASE j # s
      BY <1>0, <2>2, <3>1, <3>2 DEF FlowInv, TypeOK
    <3>3. CASE j = s
      BY <1>0, <2>2, <3>1, <3>3 DEF FlowInv, CommandInv, TypeOK
    <3> QED
      BY <3>2, <3>3
  <2> QED
    BY <2>1, <2>2 DEF FlowInv, Holding
<1> QED
  BY <1>1, <1>2, <1>3, <1>4, <1>5

\* A command that ends in error computes nothing.
LEMMA BreakStep == ASSUME IInv, NEW s \in Chain, Break(s) PROVE IInv'
<1> USE SpliceAssumption DEF IInv, Break, Chain, Buffers, chain, host
<1>1. TypeOK'
  BY DEF TypeOK
<1>2. LockInv'
  BY DEF TypeOK, LockInv, ControlInv, Holding
<1>3. ControlInv'
  BY DEF TypeOK, ControlInv, Holding
<1>4. CommandInv' /\ OneAtATime'
  BY DEF TypeOK, ControlInv, CommandInv, OneAtATime, OnDevice, Holding
<1>5. FlowInv'
  BY DEF TypeOK, ControlInv, FlowInv, Holding
<1> QED
  BY <1>1, <1>2, <1>3, <1>4, <1>5

\* At the start every buffer is unlocked and no command on the device.
LEMMA InitInv == Init => IInv
<1> SUFFICES ASSUME Init PROVE IInv
  OBVIOUS
<1> USE SpliceAssumption DEF Init, Chain, Buffers, Upload
<1>1. TypeOK
  <2>1. buf \in [Buffers -> [of : 0 .. MaxWrites, stages : Nat]]
    OBVIOUS
  <2>2. lock \in [Buffers -> Runners \cup Hosts \cup {None}]
    OBVIOUS
  <2>3. hpc \in [Hosts -> Buffers \cup {None}]
    OBVIOUS
  <2>4. /\ i \in 0 .. Stages + 1 /\ runs \in 0 .. MaxRuns
        /\ writes \in 0 .. MaxWrites /\ expect \in 0 .. MaxWrites
    OBVIOUS
  <2>5. cmd \in [Chain -> {"none", "run", "prime", "failed"}]
    OBVIOUS
  <2> QED
    BY <2>1, <2>2, <2>3, <2>4, <2>5 DEF TypeOK
<1>2. LockInv
  BY DEF LockInv
<1>3. ControlInv /\ CommandInv /\ FlowInv /\ OneAtATime
  BY DEF ControlInv, CommandInv, FlowInv, OneAtATime, OnDevice, Holding
<1> QED
  BY <1>1, <1>2, <1>3 DEF IInv

\* No step of any thread, or of the device, breaks the invariant.
LEMMA NextInv == IInv /\ [Next]_vars => IInv'
<1> SUFFICES ASSUME IInv, [Next]_vars PROVE IInv'
  OBVIOUS
<1>1. CASE Run
  BY <1>1, CheckStep, LockBufferStep, LockedStep, SubmitStep, PrimedStep,
     StageDoneStep, StageNotDoneStep, AuditStep, RaiseStep, UnwindStep DEF Run
<1>2. ASSUME NEW r \in Runners, Enter(r) PROVE IInv'
  BY <1>2, EnterStep
<1>3. ASSUME NEW h \in Hosts, NEW b \in Buffers, Touch(h, b) PROVE IInv'
  BY <1>3, TouchStep
<1>4. ASSUME NEW h \in Hosts, Written(h) \/ ReadOut(h) PROVE IInv'
  BY <1>4, WrittenStep, ReadOutStep
<1>5. CASE Close \/ CloseOwner
  BY <1>5, CloseStep, CloseOwnerStep
<1>6. ASSUME NEW s \in Chain, Execute(s) \/ Break(s) PROVE IInv'
  BY <1>6, ExecuteStep, BreakStep
<1>7. CASE UNCHANGED vars
  BY <1>7 DEF vars, chain, host, IInv, TypeOK, LockInv, ControlInv, CommandInv,
     FlowInv, OneAtATime, OnDevice
<1> QED
  BY <1>1, <1>2, <1>3, <1>4, <1>5, <1>6, <1>7 DEF Next

-----------------------------------------------------------------------------
\* The invariant holds throughout, whatever the threads and the device do.
THEOREM Invariance == Spec => []IInv
  BY InitInv, NextInv, PTL DEF Spec

\* Every variable keeps its type.
THEOREM TypeCorrect == Spec => []TypeOK
<1>1. IInv => TypeOK
  BY DEF IInv
<1> QED
  BY <1>1, Invariance, PTL

\* DeviceBuffer's "host access is forbidden throughout a splice": no thread is
\* in read or write while a command of the chain is on the device.
THEOREM HostsKeptOut == Spec => []HostKeptOut
<1>1. IInv => HostKeptOut
  <2> SUFFICES ASSUME IInv, NEW s \in Chain, OnDevice(s),
                      NEW h \in Hosts, hpc[h] # None
               PROVE  FALSE
    BY DEF HostKeptOut
  <2>1. hpc[h] \in Buffers /\ lock[hpc[h]] = h
    BY DEF IInv, TypeOK, LockInv
  <2>2. failed \/ rpc \in {"primewait", "wait", "raise"}
    BY DEF IInv, CommandInv
  <2>3. lock[hpc[h]] \in Runners
    <3>1. CASE failed
      BY <2>1, <3>1 DEF IInv, LockInv
    <3>2. CASE rpc \in {"primewait", "wait", "raise"}
      BY <2>1, <3>2 DEF IInv, LockInv, ControlInv, TypeOK, Holding
    <3> QED
      BY <2>2, <3>1, <3>2
  <2> QED
    BY <2>1, <2>3, SpliceAssumption
<1> QED
  BY <1>1, Invariance, PTL

\* run's "completion-ordered chain": one command of it is on the device.
THEOREM StagesOrdered == Spec => []OneAtATime
<1>1. IInv => OneAtATime
  BY DEF IInv
<1> QED
  BY <1>1, Invariance, PTL

\* A run that gets to its audit has passed the upload through every stage.
THEOREM ChainComplete == Spec => []OutputComplete
<1>1. IInv => OutputComplete
  <2> SUFFICES ASSUME IInv, rpc = "audit"
               PROVE  buf[Stages] = [of |-> expect, stages |-> Stages]
    BY DEF OutputComplete
  <2>1. Stages \in Buffers /\ i = Stages
    BY SpliceAssumption DEF IInv, ControlInv, Buffers
  <2> QED
    BY <2>1 DEF IInv, FlowInv, Holding
<1> QED
  BY <1>1, Invariance, PTL

\* A failed chain keeps every buffer locked, and is neither run nor closed.
THEOREM FailureQuarantined == Spec => []Quarantined
<1>1. IInv => Quarantined
  BY DEF IInv, TypeOK, LockInv, ControlInv, Quarantined, Holding
<1> QED
  BY <1>1, Invariance, PTL

\* A chain that is not poisoned holds no lock between runs.
THEOREM LocksGivenBack == Spec => []LocksReturned
<1>1. IInv => LocksReturned
  BY DEF IInv, LockInv, ControlInv, LocksReturned
<1> QED
  BY <1>1, Invariance, PTL
=============================================================================
