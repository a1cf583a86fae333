--------------------------- MODULE PacketSession ---------------------------
(***************************************************************************)
(* PacketSession of kernels/transformer_bf16/persistent.py: a process-wide *)
(* lease of the NPU, a least-recently-used cache of kernel contexts, and in *)
(* each context a cache of streams, the buffers of one compiled image.      *)
(* execute() is the sequence Find, Load, Bind, Write, Run of its call; each *)
(* may raise.  An input buffer keeps what was written to it, so that only   *)
(* the pages that differ from the last verified readback are written.       *)
(*                                                                         *)
(* A second thread of the process may hold a session of its own: the rival. *)
(***************************************************************************)
EXTENDS Integers, Sequences, FiniteSets, SequencesExt

CONSTANTS
  None,         \* Python's None
  Program(_),   \* the kernel program of an image folder; shared by key
  MaxContexts,  \* contexts of a session (1 or 2 in the code)
  MaxStreams    \* streams of a context (32 in the code)

ASSUME SessionAssumption ==
  MaxContexts \in Nat \ {0} /\ MaxStreams \in Nat \ {0}

Pages == {"inputs", "prefix"}
Content(i, p) == [page \in Pages |-> IF page = "inputs" THEN i ELSE p]
Junk == Content(None, None)

VARIABLES
  lease,   \* _LEASE: None, "own" or "rival"
  active,  \* self.active
  images,  \* self.images, least recently used first: key and streams
  hw,      \* contexts open on the device: <<owner, key>>
  pc,      \* "out", "ready", a phase of execute(), "exit", "witness"
  call     \* execute's arguments, and what they are for

transport == <<lease, active, images, hw>>

Key(f) == Program(f)
\* An element of an ordered dictionary is taken out and put at its end.
Refresh(s, i) == Append(RemoveAt(s, i), s[i])
Drop(s, bound) == IF Len(s) >= bound THEN Tail(s) ELSE s

Context == images[Len(images)]
Stream  == Context.streams[Len(Context.streams)]
WithStreams(streams) == [images EXCEPT ![Len(images)].streams = streams]
WithStream(stream) ==
  WithStreams([Context.streams EXCEPT ![Len(Context.streams)] = stream])

-----------------------------------------------------------------------------
\* Fault: the lease is released whether it is held or not.
CloseAlways ==
  /\ active' = FALSE /\ images' = <<>> /\ lease' = None
  /\ hw' = {c \in hw : c[1] # "own"}

\* close() of the session that is open, and of one that is not.
Close ==
  IF active
  THEN /\ active' = FALSE /\ images' = <<>> /\ lease' = None
       /\ hw' = {c \in hw : c[1] # "own"}
  ELSE UNCHANGED transport

\* The driver's witness: no context is open on the device.
Idle == hw = {}

\* __enter__.  A session whose __enter__ failed is not entered again.
Enter == /\ lease = None /\ ~ active /\ Idle
         /\ lease' = "own" /\ active' = TRUE /\ images' = <<>>
         /\ UNCHANGED hw

\* Validation and admission of the image precede everything.
Refuse ==
  /\ pc = "find" /\ pc' = "exit"
  /\ UNCHANGED <<transport, call>>

\* Fault: the cache may hold one context more.
RoomOver == images
\* A context that is not cached takes the place of the oldest.
Room == Drop(images, MaxContexts)

Hits == {i \in 1 .. Len(images) : images[i].key = Key(call.folder)}

FindHit ==
  /\ pc = "find" /\ pc' = "bind"
  /\ \E i \in Hits : images' = Refresh(images, i)
  /\ UNCHANGED <<lease, active, hw, call>>

FindMiss ==
  /\ pc = "find" /\ Hits = {} /\ pc' = "load"
  /\ images' = Room
  /\ hw' = {c \in hw : c[1] = "own" =>
                         \E i \in 1 .. Len(images') : images'[i].key = c[2]}
  /\ UNCHANGED <<lease, active, call>>

Load ==
  /\ pc = "load" /\ pc' = "bind"
  /\ images' = Append(images, [key |-> Key(call.folder), streams |-> <<>>])
  /\ hw' = hw \cup {<<"own", Key(call.folder)>>}
  /\ UNCHANGED <<lease, active, call>>

\* Loading fails: its context is released, the session stays open.
LoadFails ==
  /\ pc = "load" /\ pc' = "exit"
  /\ UNCHANGED <<transport, call>>

Streams == {i \in 1 .. Len(Context.streams) :
              Context.streams[i].folder = call.folder}

Bind ==
  /\ pc = "bind" /\ pc' = "write"
  /\ images' = WithStreams(
       IF Streams # {}
       THEN Refresh(Context.streams, CHOOSE i \in Streams : TRUE)
       ELSE Append(Drop(Context.streams, MaxStreams),
                   [folder |-> call.folder, dev |-> Junk, snap |-> None]))
  /\ UNCHANGED <<lease, active, hw, call>>

\* Allocating the buffers fails, or anything after it: the session closes.
Fails ==
  /\ pc \in {"write", "run"} \/ (pc = "bind" /\ Streams = {})
  /\ pc' = "exit" /\ Close
  /\ UNCHANGED call

\* Pages that differ from the snapshot, or all of them.
Uploaded(stream) ==
  IF call.reuse /\ stream.snap # None
  THEN [p \in Pages |-> IF call.packets[p] # stream.snap[p]
                        THEN call.packets[p] ELSE stream.dev[p]]
  ELSE call.packets

Write ==
  /\ pc = "write" /\ pc' = "run"
  /\ images' = WithStream([Stream EXCEPT !.dev = Uploaded(Stream)])
  /\ UNCHANGED <<lease, active, hw, call>>

\* What the kernel leaves in its input buffer.
Left(dev) == {dev} \cup {[dev EXCEPT ![p] = None] : p \in Pages}

\* The whole buffer is read back and must be as it was written.
Run(next) ==
  /\ pc = "run" /\ pc' = next
  /\ \E d \in Left(Stream.dev) :
       /\ d = call.packets
       /\ images' = WithStream([Stream EXCEPT !.dev = d, !.snap = d])
  /\ UNCHANGED <<lease, active, hw>>

Exit ==
  /\ pc = "exit" /\ pc' = "witness" /\ Close
  /\ UNCHANGED call
\* The witness behind the session raises if any context is open.
Witness ==
  /\ pc = "witness" /\ pc' = "out"
  /\ UNCHANGED <<transport, call>>

RivalEnter ==
  /\ lease = None /\ Idle /\ lease' = "rival"
  /\ UNCHANGED <<active, images, hw, pc, call>>
RivalLoad ==
  /\ lease = "rival" /\ hw' = hw \cup {<<"rival", "any">>}
  /\ UNCHANGED <<lease, active, images, pc, call>>
RivalExit ==
  /\ lease = "rival" /\ lease' = None
  /\ hw' = {c \in hw : c[1] # "rival"}
  /\ UNCHANGED <<active, images, pc, call>>

Execute == \/ Refuse \/ FindHit \/ FindMiss \/ Load \/ LoadFails \/ Bind
           \/ Fails \/ Write \/ Exit \/ Witness

Rival == RivalEnter \/ RivalLoad \/ RivalExit
=============================================================================
