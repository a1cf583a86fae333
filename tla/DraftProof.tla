----------------------------- MODULE DraftProof -----------------------------
(***************************************************************************)
(* Proofs about DraftSteps and the PacketSession it uses: what the NPU is   *)
(* given is what a fresh build would send, and contexts are open only for   *)
(* the session that has the lease, for any numbers of contexts, streams,    *)
(* prompts, tokens, positions and capacities.                              *)
(***************************************************************************)
EXTENDS DraftInv, SeqLemmas, FiniteSetTheorems

-----------------------------------------------------------------------------
(* Packets and sequences.                                                  *)

\* Packets are what their two pages hold.
LEMMA ContentProps ==
  ASSUME NEW i \in Values, NEW p \in Values
  PROVE  /\ Content(i, p) \in Packets
         /\ Content(i, p)["inputs"] = i /\ Content(i, p)["prefix"] = p
BY DEF Content, Packets, Pages

LEMMA PatchProps ==
  ASSUME NEW a \in Packets, NEW i \in Values
  PROVE  [a EXCEPT !["inputs"] = i] = Content(i, a["prefix"])
BY DEF Content, Packets, Pages

\* Only the pages that differ are written: the buffer is then the packets.
LEMMA UploadedProps ==
  ASSUME NEW s \in StreamRecs, s.snap = None \/ s.dev = s.snap,
         call.packets \in Packets
  PROVE  Uploaded(s) = call.packets
BY DEF Uploaded, Packets, Pages, StreamRecs

LEMMA NewStreamProps ==
  ASSUME NEW f \in Folders
  PROVE  [folder |-> f, dev |-> Junk, snap |-> None] \in StreamRecs
BY ContentProps DEF StreamRecs, Junk, Values

\* Refreshing moves one element to the end and keeps the others.
LEMMA RefreshProps ==
  ASSUME NEW S, NEW s \in Seq(S), NEW i \in 1 .. Len(s)
  PROVE  /\ Refresh(s, i) \in Seq(S) /\ Len(Refresh(s, i)) = Len(s)
         /\ Refresh(s, i)[Len(s)] = s[i]
         /\ \A j \in 1 .. Len(s) - 1 :
              Refresh(s, i)[j] = IF j < i THEN s[j] ELSE s[j + 1]
<1> DEFINE r == RemoveAt(s, i)
<1>1. /\ r \in Seq(S) /\ Len(r) = Len(s) - 1
      /\ \A j \in 1 .. Len(s) - 1 : r[j] = IF j < i THEN s[j] ELSE s[j + 1]
  BY RemoveAtProps
<1>2. Refresh(s, i) = Append(r, s[i])
  BY DEF Refresh
<1> HIDE DEF r
<1> QED
  BY <1>1, <1>2

\* The oldest element goes if there is no room.
LEMMA DropProps ==
  ASSUME NEW S, NEW s \in Seq(S), NEW b \in Nat \ {0}
  PROVE  /\ Drop(s, b) \in Seq(S) /\ Len(Drop(s, b)) <= Len(s)
         /\ Len(s) <= b => Len(Drop(s, b)) < b
         /\ \A j \in 1 .. Len(Drop(s, b)) :
              \E k \in 1 .. Len(s) : Drop(s, b)[j] = s[k]
<1>1. CASE Len(s) >= b
  <2>1. Tail(s) \in Seq(S) /\ Len(Tail(s)) = Len(s) - 1
        /\ \A j \in 1 .. Len(s) - 1 : Tail(s)[j] = s[j + 1]
    BY <1>1
  <2>2. \A j \in 1 .. Len(s) - 1 : j + 1 \in 1 .. Len(s)
    OBVIOUS
  <2> QED
    BY <1>1, <2>1, <2>2 DEF Drop
<1>2. CASE ~ (Len(s) >= b)
  BY <1>2 DEF Drop
<1> QED
  BY <1>1, <1>2

\* The newest context with other streams.
LEMMA WithStreamsProps ==
  ASSUME TypeOK, images # <<>>, NEW q \in Seq(StreamRecs)
  PROVE  /\ Context \in ContextRecs /\ Context.streams \in Seq(StreamRecs)
         /\ WithStreams(q) \in Seq(ContextRecs)
         /\ Len(WithStreams(q)) = Len(images)
         /\ \A i \in 1 .. Len(images) : WithStreams(q)[i].key = images[i].key
         /\ \A i \in 1 .. Len(images) - 1 : WithStreams(q)[i] = images[i]
         /\ WithStreams(q)[Len(images)].streams = q
<1>1. images \in Seq(ContextRecs) /\ Len(images) \in 1 .. Len(images)
  BY DEF TypeOK
<1>2. Context \in ContextRecs
  BY <1>1 DEF Context
<1>3. [Context EXCEPT !.streams = q] \in ContextRecs
      /\ [Context EXCEPT !.streams = q].streams = q
      /\ [Context EXCEPT !.streams = q].key = Context.key
  BY <1>2 DEF ContextRecs
<1>4. WithStreams(q) = [images EXCEPT ![Len(images)]
                          = [Context EXCEPT !.streams = q]]
  BY <1>1 DEF WithStreams, Context
<1>5. Context.streams \in Seq(StreamRecs)
  BY <1>2 DEF ContextRecs
<1> QED
  BY <1>1, <1>2, <1>3, <1>4, <1>5 DEF Context

\* The newest stream replaced.
LEMMA WithStreamProps ==
  ASSUME TypeOK, images # <<>>, Context.streams # <<>>, NEW s \in StreamRecs
  PROVE  LET q == [Context.streams EXCEPT ![Len(Context.streams)] = s]
         IN  /\ q \in Seq(StreamRecs) /\ Len(q) = Len(Context.streams)
             /\ q[Len(q)] = s
             /\ \A j \in 1 .. Len(q) - 1 : q[j] = Context.streams[j]
             /\ WithStream(s) = WithStreams(q)
<1>1. Context.streams \in Seq(StreamRecs)
  <2>1. <<>> \in Seq(StreamRecs)
    OBVIOUS
  <2> QED
    BY <2>1, WithStreamsProps
<1> QED
  BY <1>1 DEF WithStream

LEMMA StreamType ==
  ASSUME TypeOK, images # <<>>, Context.streams # <<>>
  PROVE  Stream \in StreamRecs
<1>1. Context.streams \in Seq(StreamRecs)
  <2>1. <<>> \in Seq(StreamRecs)
    OBVIOUS
  <2> QED
    BY <2>1, WithStreamsProps
<1> QED
  BY <1>1 DEF Stream

-----------------------------------------------------------------------------
(* Initial states, and the steps that leave the drafter alone.             *)

LEMMA InitInv == ASSUME Init PROVE IInv
<1> USE SessionAssumption, DraftAssumption, NoneAssumption DEF Init
<1>1. TypeOK
  <2>1. kv \in Nat /\ mode \in {"plain", "cached", "bound"}
    BY Zenon
  <2>2. images \in Seq(ContextRecs) /\ hw \subseteq {}
    OBVIOUS
  <2>3. templates \in [Slots -> Arena \cup {None}]
    OBVIOUS
  <2> QED
    BY <2>1, <2>2, <2>3 DEF TypeOK
<1>2. LeaseInv /\ RoomInv /\ CacheInv /\ SnapshotTrue /\ CallInv
  BY DEF LeaseInv, RoomInv, CacheInv, SnapshotTrue, CallInv, Phases
<1>3. ArenaInv /\ PrefixInv
  BY DEF ArenaInv, PrefixInv, Phases
<1> QED
  BY <1>1, <1>2, <1>3 DEF IInv

\* The sets of the types change only with the capacity, which never does.
LEMMA SetsSame ==
  ASSUME kv' = kv
  PROVE  /\ Slots' = Slots /\ Folders' = Folders /\ Keys' = Keys
         /\ StreamRecs' = StreamRecs /\ ContextRecs' = ContextRecs
         /\ Calls' = Calls
<1>1. /\ \A n : Slot(n)' = Slot(n)
      /\ \A n : Folder(n)' = Folder(n)
  BY DEF Slot, Folder, Capacity
<1>2. Slots' = Slots /\ Folders' = Folders
  BY <1>1 DEF Slots, Folders
<1> QED
  BY <1>2 DEF Keys, StreamRecs, ContextRecs, Calls

\* What a step leaves true when it does not touch the drafter.
LEMMA DrafterSame ==
  ASSUME IInv, UNCHANGED <<config, draft, state, token>>,
         pc' \in Phases => pc \in Phases /\ UNCHANGED call,
         pc' # "ready" \/ pc = "ready"
  PROVE  CallInv' /\ ArenaInv' /\ PrefixInv'
<1> USE DEF IInv, config, draft
<1>0. Slots' = Slots /\ Calls' = Calls
  BY SetsSame
<1>1. PrefixTrue' = PrefixTrue
  BY <1>0 DEF PrefixTrue
<1>2. CallInv'
  BY <1>0 DEF CallInv, Fresh, FreshBody, FreshHead, Content
<1>3. ArenaInv'
  BY <1>0 DEF ArenaInv
<1>4. PrefixInv'
  BY <1>1 DEF PrefixInv, Phases
<1> QED
  BY <1>2, <1>3, <1>4

\* The types of the drafter's variables.
DraftTypes ==
  /\ kv \in Nat /\ mode \in {"plain", "cached", "bound"}
  /\ compare \in BOOLEAN
  /\ templates \in [Slots -> Arena \cup {None}]
  /\ current \in Slots \cup {0}
  /\ bound \in Packets \cup {None} /\ patches \in States \cup {None}
  /\ bodyPosition \in 1 .. Positions \cup {None}
  /\ state \in States \cup {None} /\ token \in Tokens \cup {None}

SessionTypes ==
  /\ lease \in {None, "own", "rival"} /\ active \in BOOLEAN
  /\ images \in Seq(ContextRecs)
  /\ hw \subseteq {"own", "rival"} \X (Keys \cup {"any"})
  /\ pc \in Phases \cup {"out", "ready", "exit", "witness"}

SessionInv == SessionTypes /\ LeaseInv /\ RoomInv /\ CacheInv /\ SnapshotTrue
DrafterInv == DraftTypes /\ CallInv /\ ArenaInv /\ PrefixInv

LEMMA Parts == IInv <=> SessionInv /\ DrafterInv
BY DEF IInv, SessionInv, DrafterInv, TypeOK, SessionTypes, DraftTypes

\* The transport's variables and the drafter's stay as they are.
LEMMA SessionSame ==
  ASSUME IInv, kv' = kv, UNCHANGED transport, pc # "run",
         pc' \in {"out", "ready", "exit", "witness", "find"},
         pc' \in Phases \cup {"ready"} => active
  PROVE  SessionInv'
<1> USE DEF IInv, transport
<1>0. Keys' = Keys /\ ContextRecs' = ContextRecs
  BY SetsSame
<1>1. SessionTypes'
  BY <1>0 DEF TypeOK, SessionTypes, Phases
<1>2. LeaseInv' /\ RoomInv' /\ CacheInv'
  BY DEF LeaseInv, RoomInv, CacheInv, Phases
<1>3. SnapshotTrue'
  BY DEF SnapshotTrue
<1> QED
  BY <1>1, <1>2, <1>3 DEF SessionInv

-----------------------------------------------------------------------------
(* The steps of the session.                                               *)

\* Closing gives everything back, once.
LEMMA CloseStep ==
  ASSUME IInv, Close, kv' = kv, pc' \in {"exit", "witness"}
  PROVE  SessionInv'
<1> USE SessionAssumption DEF IInv
<1>0. Keys' = Keys /\ ContextRecs' = ContextRecs
  BY SetsSame
<1>1. CASE active
  <2>1. images' = <<>> /\ hw' = {} /\ lease' = None /\ active' = FALSE
    BY <1>1 DEF Close, LeaseInv
  <2>2. SessionTypes'
    <3>1. images' \in Seq(ContextRecs')
      BY <2>1
    <3>2. hw' \subseteq {"own", "rival"} \X (Keys' \cup {"any"})
      BY <2>1
    <3> QED
      BY <2>1, <3>1, <3>2 DEF SessionTypes
  <2>3. LeaseInv' /\ RoomInv' /\ CacheInv' /\ SnapshotTrue'
    BY <2>1, NoneAssumption
    DEF LeaseInv, RoomInv, CacheInv, SnapshotTrue, Phases
  <2> QED
    BY <2>2, <2>3 DEF SessionInv
<1>2. CASE ~ active
  <2>1. images = <<>> /\ UNCHANGED transport
    BY <1>2 DEF Close, LeaseInv
  <2>2. SessionTypes'
    BY <1>0, <2>1 DEF TypeOK, SessionTypes, transport
  <2>3. LeaseInv' /\ RoomInv' /\ CacheInv' /\ SnapshotTrue'
    BY <2>1
    DEF LeaseInv, RoomInv, CacheInv, SnapshotTrue, Phases, transport
  <2> QED
    BY <2>2, <2>3 DEF SessionInv
<1> QED
  BY <1>1, <1>2

LEMMA EnterStep ==
  ASSUME IInv, Enter, kv' = kv, pc' = "ready"
  PROVE  SessionInv'
<1> USE SessionAssumption DEF IInv, Enter, Idle
<1>0. Keys' = Keys /\ ContextRecs' = ContextRecs
  BY SetsSame
<1>1. SessionTypes'
  BY <1>0 DEF TypeOK, SessionTypes
<1>2. LeaseInv' /\ RoomInv' /\ CacheInv' /\ SnapshotTrue'
  BY DEF LeaseInv, RoomInv, CacheInv, SnapshotTrue, Phases
<1> QED
  BY <1>1, <1>2 DEF SessionInv

\* Refreshing a context keeps the set of keys, and every stream.
LEMMA FindHitStep == ASSUME IInv, FindHit, kv' = kv PROVE SessionInv'
<1> USE SessionAssumption DEF IInv, FindHit
<1>0. Keys' = Keys /\ ContextRecs' = ContextRecs
  BY SetsSame
<1>1. PICK i \in 1 .. Len(images) : images' = Refresh(images, i)
  BY DEF Hits
<1>2. images \in Seq(ContextRecs)
  BY DEF TypeOK
<1>3. /\ images' \in Seq(ContextRecs) /\ Len(images') = Len(images)
      /\ images'[Len(images)] = images[i]
      /\ \A j \in 1 .. Len(images) - 1 :
           images'[j] = IF j < i THEN images[j] ELSE images[j + 1]
  BY <1>1, <1>2, RefreshProps
<1>4. \A j \in 1 .. Len(images') :
        \E k \in 1 .. Len(images) : images'[j] = images[k]
  <2> SUFFICES ASSUME NEW j \in 1 .. Len(images')
               PROVE  \E k \in 1 .. Len(images) : images'[j] = images[k]
    OBVIOUS
  <2>1. CASE j = Len(images)
    BY <1>2, <1>3, <2>1
  <2>2. CASE j < i
    BY <1>2, <1>3, <2>2
  <2>3. CASE ~ (j < i) /\ j # Len(images)
    <3>1. j + 1 \in 1 .. Len(images)
      BY <1>2, <1>3, <2>3
    <3> QED
      BY <1>2, <1>3, <2>3, <3>1
  <2> QED
    BY <2>1, <2>2, <2>3
<1>5. \A k \in 1 .. Len(images) :
        \E j \in 1 .. Len(images') : images'[j] = images[k]
  <2> SUFFICES ASSUME NEW k \in 1 .. Len(images)
               PROVE  \E j \in 1 .. Len(images') : images'[j] = images[k]
    OBVIOUS
  <2>1. CASE k = i
    <3>1. Len(images) \in 1 .. Len(images')
      BY <1>2, <1>3
    <3> QED
      BY <1>3, <2>1, <3>1
  <2>2. CASE k < i
    BY <1>2, <1>3, <2>2
  <2>3. CASE k > i
    <3>1. k - 1 \in 1 .. Len(images) - 1 /\ ~ (k - 1 < i)
          /\ (k - 1) + 1 = k
      BY <1>2, <2>3
    <3>2. images'[k - 1] = images[(k - 1) + 1]
      BY <1>3, <3>1
    <3>3. images'[k - 1] = images[k] /\ k - 1 \in 1 .. Len(images')
      BY <1>2, <1>3, <3>1, <3>2
    <3> QED
      BY <3>3
  <2>4. i \in Int /\ k \in Int
    OBVIOUS
  <2>5. k = i \/ k < i \/ k > i
    BY <2>4
  <2> QED
    BY <2>1, <2>2, <2>3, <2>5
<1>6. SessionTypes'
  BY <1>0, <1>3 DEF TypeOK, SessionTypes, Phases
<1>7. LeaseInv' /\ RoomInv'
  <2>1. active /\ active' /\ lease = "own" /\ lease' = lease
    BY DEF LeaseInv, Phases
  <2>2. ASSUME NEW c \in hw', c[1] = "own"
        PROVE  \E j \in 1 .. Len(images') : images'[j].key = c[2]
    <3>1. PICK k \in 1 .. Len(images) : images[k].key = c[2]
      BY <2>2 DEF LeaseInv
    <3>2. PICK j \in 1 .. Len(images') : images'[j] = images[k]
      BY <1>5
    <3> QED
      BY <3>1, <3>2
  <2>3. \A c \in hw' : c[1] = lease'
    BY <2>1 DEF LeaseInv
  <2> QED
    BY <1>3, <2>1, <2>2, <2>3 DEF LeaseInv, RoomInv
<1>8. CacheInv'
  BY <1>1, <1>2, <1>3 DEF CacheInv
<1>9. SnapshotTrue'
  BY <1>4 DEF SnapshotTrue
<1> QED
  BY <1>6, <1>7, <1>8, <1>9 DEF SessionInv

\* A context is closed before another is loaded, so that there is room.
LEMMA FindMissStep == ASSUME IInv, FindMiss, kv' = kv PROVE SessionInv'
<1> USE SessionAssumption DEF IInv, FindMiss
<1>0. Keys' = Keys /\ ContextRecs' = ContextRecs
  BY SetsSame
<1>1. /\ images' \in Seq(ContextRecs) /\ Len(images') < MaxContexts
      /\ \A j \in 1 .. Len(images') :
           \E k \in 1 .. Len(images) : images'[j] = images[k]
  BY DropProps DEF Room, TypeOK, RoomInv
<1>2. hw' \subseteq hw
  OBVIOUS
<1>3. SessionTypes'
  BY <1>0, <1>1, <1>2 DEF TypeOK, SessionTypes, Phases
<1>4. LeaseInv' /\ RoomInv' /\ CacheInv'
  BY <1>1, <1>2 DEF LeaseInv, RoomInv, CacheInv, Phases
<1>5. SnapshotTrue'
  BY <1>1 DEF SnapshotTrue
<1> QED
  BY <1>3, <1>4, <1>5 DEF SessionInv

LEMMA LoadStep == ASSUME IInv, Load, kv' = kv PROVE SessionInv'
<1> USE SessionAssumption DEF IInv, Load
<1> DEFINE new == [key |-> Key(call.folder), streams |-> <<>>]
<1>0. Keys' = Keys /\ ContextRecs' = ContextRecs
  BY SetsSame
<1>1. call.folder \in Folders
  BY DEF CallInv, Phases, Calls
<1>2. new \in ContextRecs /\ Key(call.folder) \in Keys
  BY <1>1 DEF ContextRecs, Keys
<1>3. images \in Seq(ContextRecs)
  BY DEF TypeOK
<1>4. /\ images' \in Seq(ContextRecs) /\ Len(images') = Len(images) + 1
      /\ images'[Len(images) + 1] = new
      /\ \A j \in 1 .. Len(images) : images'[j] = images[j]
  BY <1>2, <1>3
<1>5. /\ Len(images) + 1 \in 1 .. Len(images') /\ Len(images) \in Nat
      /\ \A j \in 1 .. Len(images) : j \in 1 .. Len(images')
      /\ \A j \in 1 .. Len(images') :
           j \in 1 .. Len(images) \/ j = Len(images) + 1
  BY <1>3, <1>4
<1>6. SessionTypes'
  BY <1>0, <1>2, <1>4 DEF TypeOK, SessionTypes, Phases
<1>7. LeaseInv'
  <2>1. active /\ active' /\ lease = "own" /\ lease' = lease
    BY DEF LeaseInv, Phases
  <2>2. \A c \in hw' : c[1] = lease'
    BY <2>1 DEF LeaseInv
  <2>3. ASSUME NEW c \in hw', c[1] = "own"
        PROVE  \E i \in 1 .. Len(images') : images'[i].key = c[2]
    <3>1. CASE c \in hw
      <4>1. PICK i \in 1 .. Len(images) : images[i].key = c[2]
        BY <2>3, <3>1 DEF LeaseInv
      <4> QED
        BY <4>1, <1>4, <1>5
    <3>2. CASE c = <<"own", Key(call.folder)>>
      <4>1. images'[Len(images) + 1].key = c[2]
        BY <1>4, <3>2
      <4> QED
        BY <4>1, <1>5
    <3> QED
      BY <3>1, <3>2
  <2> QED
    BY <2>1, <2>2, <2>3 DEF LeaseInv
<1>8. RoomInv' /\ CacheInv'
  <2>1. images' # <<>>
    BY <1>4, <1>5
  <2> QED
    BY <1>3, <1>4, <2>1 DEF RoomInv, CacheInv
<1>9. SnapshotTrue'
  BY <1>4, <1>5 DEF SnapshotTrue
<1> QED
  BY <1>6, <1>7, <1>8, <1>9 DEF SessionInv

\* Steps that only replace the streams of the newest context.
LEMMA StreamsStep ==
  ASSUME IInv, images # <<>>, active, kv' = kv,
         UNCHANGED <<lease, active, hw>>,
         NEW q \in Seq(StreamRecs), images' = WithStreams(q),
         pc' \in {"write", "run", "find", "ready"}
  PROVE  /\ SessionTypes' /\ LeaseInv' /\ RoomInv'
         /\ images' # <<>> /\ Context.streams' = q
         /\ SnapshotTrue' <=> \A j \in 1 .. Len(q) :
              \/ q[j].snap = None \/ q[j].dev = q[j].snap
              \/ pc' = "run" /\ j = Len(q)
<1> USE SessionAssumption DEF IInv
<1>0. Keys' = Keys /\ ContextRecs' = ContextRecs
  BY SetsSame
<1>1. images \in Seq(ContextRecs) /\ Len(images) \in 1 .. Len(images)
  BY DEF TypeOK
<1>2. /\ images' \in Seq(ContextRecs) /\ Len(images') = Len(images)
      /\ \A i \in 1 .. Len(images) : images'[i].key = images[i].key
      /\ \A i \in 1 .. Len(images) - 1 : images'[i] = images[i]
      /\ images'[Len(images)].streams = q
  BY WithStreamsProps
<1>3. images' # <<>> /\ Context.streams' = q
  BY <1>1, <1>2 DEF Context
<1>4. SessionTypes'
  BY <1>0, <1>2 DEF TypeOK, SessionTypes, Phases
<1>5. LeaseInv'
  <2>1. active' /\ lease = "own" /\ lease' = lease
    BY DEF LeaseInv
  <2>2. \A c \in hw' : c[1] = lease'
    BY DEF LeaseInv
  <2>3. ASSUME NEW c \in hw', c[1] = "own"
        PROVE  \E i \in 1 .. Len(images') : images'[i].key = c[2]
    <3>1. PICK i \in 1 .. Len(images) : images[i].key = c[2]
      BY <2>3 DEF LeaseInv
    <3> QED
      BY <1>2, <3>1
  <2> QED
    BY <2>1, <2>2, <2>3 DEF LeaseInv
<1>6. RoomInv'
  BY <1>2 DEF RoomInv
<1>7. ASSUME NEW i \in 1 .. Len(images) - 1,
             NEW j \in 1 .. Len(images[i].streams)
      PROVE  images[i].streams[j].snap = None
             \/ images[i].streams[j].dev = images[i].streams[j].snap
  <2>1. i \in 1 .. Len(images) /\ i # Len(images)
    BY <1>1
  <2> QED
    BY <2>1 DEF SnapshotTrue
<1>8. ASSUME \A j \in 1 .. Len(q) :
               \/ q[j].snap = None \/ q[j].dev = q[j].snap
               \/ pc' = "run" /\ j = Len(q)
      PROVE  SnapshotTrue'
  <2> SUFFICES ASSUME NEW i \in 1 .. Len(images'),
                      NEW j \in 1 .. Len(images'[i].streams)
               PROVE  LET s == images'[i].streams[j]
                      IN  s.snap = None \/ s.dev = s.snap
                          \/ (pc' = "run" /\ i = Len(images')
                              /\ j = Len(images'[i].streams))
    BY DEF SnapshotTrue
  <2>1. CASE i = Len(images)
    BY <1>2, <1>8, <2>1
  <2>2. CASE i # Len(images)
    <3>1. i \in 1 .. Len(images) - 1 /\ images'[i] = images[i]
      BY <1>1, <1>2, <2>2
    <3> QED
      BY <3>1, <1>7
  <2> QED
    BY <2>1, <2>2
<1>9. ASSUME SnapshotTrue'
      PROVE  \A j \in 1 .. Len(q) :
               \/ q[j].snap = None \/ q[j].dev = q[j].snap
               \/ pc' = "run" /\ j = Len(q)
  <2>1. Len(images) \in 1 .. Len(images')
    BY <1>1, <1>2
  <2> QED
    BY <1>2, <1>9, <2>1 DEF SnapshotTrue
<1> QED
  BY <1>3, <1>4, <1>5, <1>6, <1>8, <1>9

\* In a context that was reached, every stream's snapshot is its buffer's.
LEMMA StreamsTrue ==
  ASSUME IInv, images # <<>>, pc # "run"
  PROVE  \A j \in 1 .. Len(Context.streams) :
           LET s == Context.streams[j] IN s.snap = None \/ s.dev = s.snap
<1>1. images \in Seq(ContextRecs) /\ Len(images) \in 1 .. Len(images)
  BY DEF IInv, TypeOK
<1> QED
  BY <1>1 DEF IInv, SnapshotTrue, Context

\* Binding leaves the call's stream newest.
LEMMA BindStep == ASSUME IInv, Bind, kv' = kv PROVE SessionInv'
<1> USE SessionAssumption DEF IInv, Bind
<1> DEFINE old == Context.streams
           new == [folder |-> call.folder, dev |-> Junk, snap |-> None]
<1>1. images # <<>> /\ active
  BY DEF CacheInv, LeaseInv, Phases
<1>2. old \in Seq(StreamRecs)
  <2>1. <<>> \in Seq(StreamRecs)
    OBVIOUS
  <2> QED
    BY <1>1, <2>1, WithStreamsProps
<1>3. new \in StreamRecs /\ new.folder = call.folder /\ new.snap = None
  BY NewStreamProps DEF CallInv, Phases, Calls
<1>4. \A j \in 1 .. Len(old) : old[j].snap = None \/ old[j].dev = old[j].snap
  BY <1>1, StreamsTrue
<1>5. PICK q \in Seq(StreamRecs) :
        /\ images' = WithStreams(q)
        /\ q # <<>> /\ q[Len(q)].folder = call.folder
        /\ \A j \in 1 .. Len(q) : q[j].snap = None \/ q[j].dev = q[j].snap
  <2>1. CASE Streams # {}
    <3>1. PICK i \in Streams : images' = WithStreams(Refresh(old, i))
      BY <2>1
    <3>2. i \in 1 .. Len(old) /\ old[i].folder = call.folder
      BY DEF Streams
    <3> DEFINE q == Refresh(old, i)
    <3>3. /\ q \in Seq(StreamRecs) /\ Len(q) = Len(old)
          /\ q[Len(old)] = old[i]
          /\ \A j \in 1 .. Len(old) - 1 :
               q[j] = IF j < i THEN old[j] ELSE old[j + 1]
      BY <1>2, <3>2, RefreshProps
    <3> HIDE DEF q, old
    <3>4. q # <<>> /\ q[Len(q)].folder = call.folder
      BY <1>2, <3>2, <3>3
    <3>5. ASSUME NEW j \in 1 .. Len(q)
          PROVE  q[j].snap = None \/ q[j].dev = q[j].snap
      <4>1. CASE j = Len(old)
        BY <1>4, <3>2, <3>3, <4>1
      <4>2. CASE j # Len(old)
        <5>1. j \in 1 .. Len(old) - 1 /\ j + 1 \in 1 .. Len(old)
              /\ j \in 1 .. Len(old)
          BY <1>2, <3>3, <4>2
        <5>2. q[j] = old[j] \/ q[j] = old[j + 1]
          BY <3>3, <5>1
        <5> QED
          BY <1>4, <5>1, <5>2
      <4> QED
        BY <4>1, <4>2
    <3>6. images' = WithStreams(q)
      BY <3>1 DEF q, old
    <3> QED
      BY <3>3, <3>4, <3>5, <3>6
  <2>2. CASE Streams = {}
    <3> DEFINE d == Drop(old, MaxStreams)
               q == Append(d, new)
    <3>1. /\ d \in Seq(StreamRecs)
          /\ \A j \in 1 .. Len(d) : \E k \in 1 .. Len(old) : d[j] = old[k]
      BY <1>2, DropProps
    <3>2. images' = WithStreams(q)
      BY <2>2
    <3> HIDE DEF d, old, new
    <3>3. /\ q \in Seq(StreamRecs) /\ Len(q) = Len(d) + 1
          /\ q[Len(d) + 1] = new
          /\ \A j \in 1 .. Len(d) : q[j] = d[j]
      BY <1>3, <3>1
    <3> HIDE DEF q
    <3>4. q # <<>> /\ q[Len(q)].folder = call.folder
      BY <1>3, <3>1, <3>3
    <3>5. ASSUME NEW j \in 1 .. Len(q)
          PROVE  q[j].snap = None \/ q[j].dev = q[j].snap
      <4>1. CASE j = Len(d) + 1
        BY <1>3, <3>3, <4>1
      <4>2. CASE j # Len(d) + 1
        <5>1. j \in 1 .. Len(d)
          BY <3>1, <3>3, <4>2
        <5>2. PICK k \in 1 .. Len(old) : d[j] = old[k]
          BY <3>1, <5>1
        <5>3. q[j] = old[k]
          BY <3>3, <5>1, <5>2
        <5> QED
          BY <1>4, <5>3
      <4> QED
        BY <4>1, <4>2
    <3> QED
      BY <3>2, <3>3, <3>4, <3>5
  <2> QED
    BY <2>1, <2>2
<1>6. /\ SessionTypes' /\ LeaseInv' /\ RoomInv' /\ SnapshotTrue'
      /\ images' # <<>> /\ Context.streams' = q
  BY <1>1, <1>5, StreamsStep
<1>7. CacheInv'
  BY <1>5, <1>6 DEF CacheInv, Stream
<1> QED
  BY <1>6, <1>7 DEF SessionInv

\* Replacing the newest stream changes no other.
LEMMA LastStream ==
  ASSUME IInv, images # <<>>, Context.streams # <<>>, NEW s \in StreamRecs
  PROVE  \E q \in Seq(StreamRecs) :
           /\ q # <<>> /\ q[Len(q)] = s
           /\ WithStream(s) = WithStreams(q)
           /\ \A j \in 1 .. Len(q) - 1 :
                q[j].snap = None \/ q[j].dev = q[j].snap
<1> DEFINE q == [Context.streams EXCEPT ![Len(Context.streams)] = s]
<1>1. images \in Seq(ContextRecs) /\ Len(images) \in 1 .. Len(images)
  BY DEF IInv, TypeOK
<1>2. Context.streams \in Seq(StreamRecs)
  <2>1. <<>> \in Seq(StreamRecs)
    OBVIOUS
  <2> QED
    BY <2>1, WithStreamsProps DEF IInv
<1>3. /\ q \in Seq(StreamRecs) /\ Len(q) = Len(Context.streams)
      /\ q[Len(q)] = s /\ WithStream(s) = WithStreams(q)
      /\ \A j \in 1 .. Len(q) - 1 : q[j] = Context.streams[j]
  BY WithStreamProps DEF IInv
<1>4. ASSUME NEW j \in 1 .. Len(q) - 1
      PROVE  q[j].snap = None \/ q[j].dev = q[j].snap
  <2>1. j \in 1 .. Len(Context.streams) /\ j # Len(Context.streams)
        /\ q[j] = Context.streams[j]
    BY <1>2, <1>3
  <2>2. Context.streams = images[Len(images)].streams
    BY DEF Context
  <2> QED
    BY <1>1, <2>1, <2>2 DEF IInv, SnapshotTrue
<1> QED
  BY <1>2, <1>3, <1>4

\* What is written makes the buffer the packets, whatever was reused.
LEMMA WriteStep == ASSUME IInv, Write, kv' = kv PROVE SessionInv'
<1> USE SessionAssumption DEF IInv, Write
<1> DEFINE s == [Stream EXCEPT !.dev = Uploaded(Stream)]
<1>1. /\ images # <<>> /\ active /\ Context.streams # <<>>
      /\ Stream.folder = call.folder
  BY DEF CacheInv, LeaseInv, Phases
<1>2. Stream \in StreamRecs
  BY <1>1, StreamType
<1>3. Stream.snap = None \/ Stream.dev = Stream.snap
  <2>1. Len(Context.streams) \in 1 .. Len(Context.streams)
    <3>1. <<>> \in Seq(StreamRecs)
      OBVIOUS
    <3>2. Context.streams \in Seq(StreamRecs)
      BY <1>1, <3>1, WithStreamsProps
    <3> QED
      BY <1>1, <3>2
  <2> QED
    BY <1>1, <2>1, StreamsTrue DEF Stream
<1>4. call.packets \in Packets
  BY DEF CallInv, Phases, Calls
<1>5. Uploaded(Stream) = call.packets
  BY <1>2, <1>3, <1>4, UploadedProps
<1>6. s \in StreamRecs /\ s.dev = call.packets /\ s.folder = call.folder
  BY <1>1, <1>2, <1>4, <1>5 DEF StreamRecs
<1> HIDE DEF s
<1>7. PICK q \in Seq(StreamRecs) :
        /\ q # <<>> /\ q[Len(q)] = s
        /\ WithStream(s) = WithStreams(q)
        /\ \A j \in 1 .. Len(q) - 1 :
             q[j].snap = None \/ q[j].dev = q[j].snap
  BY <1>1, <1>6, LastStream
<1>8. images' = WithStreams(q)
  BY <1>7 DEF s
<1>9. /\ SessionTypes' /\ LeaseInv' /\ RoomInv'
      /\ images' # <<>> /\ Context.streams' = q
      /\ SnapshotTrue' <=> \A j \in 1 .. Len(q) :
           \/ q[j].snap = None \/ q[j].dev = q[j].snap
           \/ pc' = "run" /\ j = Len(q)
  BY <1>1, <1>7, <1>8, StreamsStep
<1>10. SnapshotTrue'
  <2>1. \A j \in 1 .. Len(q) : j \in 1 .. Len(q) - 1 \/ j = Len(q)
    BY <1>7
  <2> QED
    BY <1>7, <1>9, <2>1
<1>11. CacheInv'
  BY <1>6, <1>7, <1>9 DEF CacheInv, Stream
<1> QED
  BY <1>9, <1>10, <1>11 DEF SessionInv

\* A dispatch keeps what it read back, if that is what was written.
LEMMA RunStep ==
  ASSUME IInv, Run(pc'), kv' = kv, pc' \in {"find", "ready"}
  PROVE  SessionInv'
<1> USE SessionAssumption DEF IInv, Run
<1>1. /\ images # <<>> /\ active /\ Context.streams # <<>>
  BY DEF CacheInv, LeaseInv, Phases
<1>2. Stream \in StreamRecs
  BY <1>1, StreamType
<1>3. call.packets \in Packets
  BY DEF CallInv, Phases, Calls
<1> DEFINE s == [Stream EXCEPT !.dev = call.packets, !.snap = call.packets]
<1>4. images' = WithStream(s)
  OBVIOUS
<1>5. s \in StreamRecs /\ s.dev = s.snap
  BY <1>2, <1>3 DEF StreamRecs
<1> HIDE DEF s
<1>7. PICK q \in Seq(StreamRecs) :
        /\ q # <<>> /\ q[Len(q)] = s
        /\ WithStream(s) = WithStreams(q)
        /\ \A j \in 1 .. Len(q) - 1 :
             q[j].snap = None \/ q[j].dev = q[j].snap
  BY <1>1, <1>5, LastStream
<1>8. images' = WithStreams(q)
  BY <1>4, <1>7
<1>9. /\ SessionTypes' /\ LeaseInv' /\ RoomInv'
      /\ images' # <<>> /\ Context.streams' = q
      /\ SnapshotTrue' <=> \A j \in 1 .. Len(q) :
           \/ q[j].snap = None \/ q[j].dev = q[j].snap
           \/ pc' = "run" /\ j = Len(q)
  BY <1>1, <1>7, <1>8, StreamsStep
<1>10. SnapshotTrue'
  <2>1. \A j \in 1 .. Len(q) : j \in 1 .. Len(q) - 1 \/ j = Len(q)
    BY <1>7
  <2> QED
    BY <1>5, <1>7, <1>9, <2>1
<1>11. CacheInv'
  BY <1>9 DEF CacheInv
<1> QED
  BY <1>9, <1>10, <1>11 DEF SessionInv

\* The rival takes the lease only when the session does not have it.
LEMMA RivalStep == ASSUME IInv, Rival, kv' = kv PROVE SessionInv'
<1> USE SessionAssumption, NoneAssumption DEF IInv
<1>0. Keys' = Keys /\ ContextRecs' = ContextRecs
  BY SetsSame
<1>1. UNCHANGED <<active, images, pc, call>>
  BY DEF Rival, RivalEnter, RivalLoad, RivalExit
<1>2. SnapshotTrue'
  BY <1>1 DEF SnapshotTrue
<1>3. CacheInv' /\ RoomInv'
  BY <1>1 DEF CacheInv, RoomInv, Context, Stream
<1>4. CASE RivalEnter
  <2>1. SessionTypes' /\ LeaseInv'
    BY <1>0, <1>1, <1>4
    DEF TypeOK, SessionTypes, LeaseInv, RivalEnter, Idle
  <2> QED
    BY <1>2, <1>3, <2>1 DEF SessionInv
<1>5. CASE RivalLoad
  <2>1. SessionTypes' /\ LeaseInv'
    BY <1>0, <1>1, <1>5 DEF TypeOK, SessionTypes, LeaseInv, RivalLoad
  <2> QED
    BY <1>2, <1>3, <2>1 DEF SessionInv
<1>6. CASE RivalExit
  <2>1. hw' = {} /\ lease' = None
    BY <1>6 DEF RivalExit, LeaseInv
  <2>2. ~ active
    BY <1>6 DEF RivalExit, LeaseInv
  <2>3. SessionTypes'
    <3>1. hw' \subseteq {"own", "rival"} \X (Keys' \cup {"any"})
      BY <2>1
    <3> QED
      BY <1>0, <1>1, <2>1, <3>1 DEF TypeOK, SessionTypes
  <2>4. LeaseInv'
    BY <1>1, <2>1, <2>2 DEF LeaseInv
  <2> QED
    BY <1>2, <1>3, <2>3, <2>4 DEF SessionInv
<1> QED
  BY <1>4, <1>5, <1>6 DEF Rival

-----------------------------------------------------------------------------
(* The steps of the drafter.                                               *)

LEMMA SlotProps ==
  ASSUME NEW n \in 1 .. Positions
  PROVE  Slot(n) \in Slots /\ Folder(n) \in Folders
BY DEF Slots, Folders

LEMMA StateProps ==
  ASSUME state \in States
  PROVE  state[2] \in 1 .. Positions /\ state[2] \in Nat /\ state # None
         /\ state[2] # None /\ state \in Values
BY DraftAssumption, NoneAssumption DEF States, Values

LEMMA FreshProps ==
  ASSUME state \in States, token \in Tokens
  PROVE  /\ FreshBody \in Packets /\ FreshBody = Content(token, state)
         /\ FreshHead \in Packets
<1>1. token \in Values /\ state \in Values /\ <<token, state>> \in Values
  BY DEF Values
<1> QED
  BY <1>1, ContentProps DEF FreshBody, FreshHead

\* The types of the drafter's variables do not depend on the step.
LEMMA DraftTypesSame ==
  ASSUME DraftTypes, UNCHANGED <<config, draft, state, token>>
  PROVE  DraftTypes'
<1>1. Slots' = Slots
  BY SetsSame DEF config
<1> QED
  BY <1>1 DEF DraftTypes, config, draft

\* An arena sends a fresh body, and keeps what it is filed under.
LEMMA SendProps ==
  ASSUME IInv, kv' = kv, state \in States, NEW slot \in Slots,
         NEW t \in Tokens, NEW prefix \in States \cup {None},
         templates[slot] # None, SendArena(slot, prefix, t),
         prefix # None => prefix = state,
         prefix = None => templates[slot].base["prefix"] = state
  PROVE  /\ Patched(templates[slot], prefix, t) = Content(t, state)
         /\ templates' \in [Slots -> Arena \cup {None}]
         /\ templates'[slot] # None
         /\ templates'[slot].base = templates[slot].base
         /\ ArenaInv'
<1> DEFINE a == templates[slot]
           k == Kept(a, prefix, t)
<1> USE NoneAssumption
<1>1. a \in Arena /\ a.base \in Packets
  BY DEF IInv, TypeOK, Arena
<1>2. t \in Values /\ state \in Values /\ Content(t, state) \in Packets
      /\ Content(t, state)["prefix"] = state
  <2>1. t \in Values /\ state \in Values
    BY DEF Values
  <2> QED
    BY <2>1, ContentProps
<1>3. a.key # None => a.cached \in Packets /\ a.cached["prefix"] = a.key
  BY DEF IInv, ArenaInv
<1>4. Patched(a, prefix, t) = Content(t, state)
  <2>1. CASE prefix = None
    <3>1. [a.base EXCEPT !["inputs"] = t] = Content(t, a.base["prefix"])
      BY <1>1, <1>2, PatchProps
    <3> QED
      BY <2>1, <3>1 DEF Patched
  <2>2. CASE prefix # None /\ mode = "cached" /\ a.key = prefix
    <3>1. a.cached \in Packets /\ a.cached["prefix"] = state
      BY <1>3, <2>2
    <3>2. [a.cached EXCEPT !["inputs"] = t] = Content(t, a.cached["prefix"])
      BY <1>2, <3>1, PatchProps
    <3> QED
      BY <2>2, <3>1, <3>2 DEF Patched
  <2>3. CASE prefix # None /\ ~ (mode = "cached" /\ a.key = prefix)
    BY <2>3 DEF Patched
  <2> QED
    BY <2>1, <2>2, <2>3
<1>5. /\ k \in Arena /\ k.base = a.base
      /\ k.key # None => k.cached \in Packets /\ k.cached["prefix"] = k.key
  <2>1. CASE Misses(a, prefix)
    <3>1. prefix = state
      BY <2>1 DEF Misses
    <3>2. k = [a EXCEPT !.cached = Content(t, state), !.key = state]
      BY <2>1, <3>1 DEF Kept
    <3> QED
      BY <1>1, <1>2, <3>2 DEF Arena
  <2>2. CASE ~ Misses(a, prefix)
    BY <1>1, <1>3, <2>2 DEF Kept
  <2> QED
    BY <2>1, <2>2
<1>6. templates' = [templates EXCEPT ![slot] = k]
  BY DEF SendArena
<1>7. templates \in [Slots -> Arena \cup {None}]
  BY DEF IInv, TypeOK
<1> HIDE DEF k
<1>8. /\ templates' \in [Slots -> Arena \cup {None}]
      /\ templates'[slot] = k
      /\ \A c \in Slots : c # slot => templates'[c] = templates[c]
  BY <1>5, <1>6, <1>7
<1>9. ArenaInv'
  <2>1. Slots' = Slots
    BY SetsSame
  <2>2. ASSUME NEW c \in Slots, templates'[c] # None,
               templates'[c].key # None
        PROVE  /\ templates'[c].cached \in Packets
               /\ templates'[c].cached["prefix"] = templates'[c].key
    <3>1. CASE c = slot
      BY <1>5, <1>8, <2>2, <3>1
    <3>2. CASE c # slot
      BY <1>8, <2>2, <3>2 DEF IInv, ArenaInv
    <3> QED
      BY <3>1, <3>2
  <2> QED
    BY <2>1, <2>2 DEF ArenaInv
<1> QED
  BY <1>4, <1>5, <1>8, <1>9

\* The two halves of the invariant after a step.
LEMMA PartsNext == ASSUME SessionInv', DrafterInv' PROVE IInv'
BY DEF IInv, SessionInv, DrafterInv, TypeOK, SessionTypes, DraftTypes

LEMMA RequestStep == ASSUME IInv, Request PROVE IInv'
<1>0. /\ kv' = kv /\ Slots' = Slots /\ pc' = "ready" /\ Enter
      /\ UNCHANGED <<call, config, templates, current, bound, token>>
      /\ bodyPosition' = None /\ patches' = None
  BY SetsSame DEF Request, InvalidatePrefix, config
<1>1. SessionInv'
  BY <1>0, EnterStep
<1>2. state' \in States
  BY DEF Request, States
<1>3. DraftTypes'
  BY <1>0, <1>2 DEF IInv, TypeOK, DraftTypes, config
<1>4. CallInv' /\ ArenaInv'
  BY <1>0 DEF IInv, CallInv, ArenaInv, Phases
<1>5. state'[2] # None
  BY <1>2, DraftAssumption, NoneAssumption DEF States
<1>6. PrefixInv'
  BY <1>0, <1>2, <1>5 DEF PrefixInv, Phases
<1> QED
  BY <1>1, <1>3, <1>4, <1>6, PartsNext DEF DrafterInv

\* More accepted positions: the position is behind, so nothing is promised.
LEMMA AdvanceStep == ASSUME IInv, Advance PROVE IInv'
<1>0. /\ kv' = kv /\ Slots' = Slots /\ pc' = "ready" /\ pc = "ready"
      /\ UNCHANGED <<transport, call, config, draft, token>>
  BY SetsSame DEF Advance, config
<1>1. SessionInv'
  BY <1>0, SessionSame DEF IInv, LeaseInv
<1>2. state \in States
  BY <1>0 DEF IInv, PrefixInv
<1>3. PICK n \in state[2] + 1 .. Positions : state' = <<state[1], n>>
  BY DEF Advance
<1>4. /\ state' \in States /\ state'[2] = n /\ n \in Nat
      /\ state[2] \in Nat /\ state[2] < n
  BY <1>2, <1>3, DraftAssumption DEF States
<1>5. DraftTypes'
  BY <1>0, <1>4 DEF IInv, TypeOK, DraftTypes, config, draft
<1>6. CallInv' /\ ArenaInv'
  BY <1>0 DEF IInv, CallInv, ArenaInv, Phases, draft
<1>7. PrefixInv'
  <2>1. bodyPosition' # None =>
          bodyPosition' \in Nat /\ bodyPosition' <= state[2]
    BY <1>0, DraftAssumption DEF IInv, TypeOK, PrefixInv, draft
  <2>2. n # None
    BY <1>4, NoneAssumption
  <2>3. /\ bodyPosition' # None => bodyPosition' <= n
        /\ bodyPosition' # n
    BY <1>4, <2>1, <2>2
  <2> QED
    BY <1>0, <1>4, <2>3 DEF PrefixInv, Phases
<1> QED
  BY <1>1, <1>5, <1>6, <1>7, PartsNext DEF DrafterInv

LEMMA LeaveStep == ASSUME IInv, Leave PROVE IInv'
<1>0. /\ kv' = kv /\ pc' = "exit" /\ pc = "ready"
      /\ UNCHANGED <<transport, call, config, draft, state, token>>
  BY DEF Leave, config
<1>1. SessionInv'
  BY <1>0, SessionSame DEF Phases
<1>2. DraftTypes'
  BY <1>0, DraftTypesSame DEF IInv, TypeOK, DraftTypes
<1>3. CallInv' /\ ArenaInv' /\ PrefixInv'
  BY <1>0, DrafterSame DEF Phases
<1> QED
  BY <1>1, <1>2, <1>3, PartsNext DEF DrafterInv

\* A step's call is about to look for its context.
LEMMA CallStep ==
  ASSUME IInv, pc = "ready", pc' = "find", kv' = kv, UNCHANGED transport
  PROVE  SessionInv'
BY SessionSame DEF IInv, LeaseInv

\* A call of a fresh body, whatever it was patched from.
LEMMA BodyCall ==
  ASSUME kv' = kv, state \in States, UNCHANGED state, NEW t \in Tokens,
         token' = t, NEW packets, packets = Content(t, state),
         NEW miss \in BOOLEAN, miss => bound' = None,
         CallBody(packets, miss)
  PROVE  CallInv' /\ pc' = "find"
<1>1. t \in Values /\ state \in Values
  BY DEF Values
<1>2. packets \in Packets
  BY <1>1, ContentProps
<1>3. Folder(state[2]) \in Folders
  BY StateProps, SlotProps
<1>4. Calls' = Calls
  BY SetsSame
<1>5. call' \in Calls /\ call'.packets = packets /\ call'.of = "body"
      /\ call'.miss = miss
  BY <1>2, <1>3 DEF CallBody, Calls
<1>6. Fresh(call.of)' = Content(t, state)
  BY <1>5 DEF Fresh, FreshBody, Content
<1> QED
  BY <1>4, <1>5, <1>6 DEF CallInv, CallBody

LEMMA BuildStep ==
  ASSUME IInv, NEW t \in Tokens, StepBuild(t) PROVE IInv'
<1>0. /\ kv' = kv /\ Slots' = Slots /\ pc = "ready" /\ pc' = "find"
      /\ UNCHANGED <<transport, config, state>>
      /\ token' = t /\ current' = Slot(state[2])
      /\ bound' = None /\ patches' = None /\ bodyPosition' = state[2]
      /\ CallBody(Content(t, state), FALSE)
  BY SetsSame DEF StepBuild, CallBody, config
<1> DEFINE new == [base |-> Content(t, state), cached |-> None, key |-> None]
<1>1. state \in States
  BY <1>0 DEF IInv, PrefixInv
<1>2. state[2] \in 1 .. Positions /\ current' \in Slots
  BY <1>0, <1>1, StateProps, SlotProps
<1>3. t \in Values /\ state \in Values
  BY <1>1 DEF Values
<1>4. /\ Content(t, state) \in Packets
      /\ Content(t, state)["prefix"] = state
  BY <1>3, ContentProps
<1>5. new \in Arena /\ new.key = None /\ new # None
      /\ new.base["prefix"] = state
  BY <1>4, NoneAssumption DEF Arena
<1>6. templates \in [Slots -> Arena \cup {None}]
      /\ templates' = [templates EXCEPT ![current'] = new]
  BY DEF IInv, TypeOK, StepBuild
<1> HIDE DEF new
<1>7. /\ templates' \in [Slots -> Arena \cup {None}]
      /\ templates'[current'] = new
      /\ \A c \in Slots : c # current' => templates'[c] = templates[c]
  BY <1>2, <1>5, <1>6
<1>8. SessionInv'
  BY <1>0, CallStep
<1>9. DraftTypes'
  BY <1>0, <1>1, <1>2, <1>7 DEF IInv, TypeOK, DraftTypes, config
<1>10. CallInv'
  BY <1>0, <1>1, BodyCall
<1>11. ArenaInv'
  <2>1. ASSUME NEW c \in Slots, templates'[c] # None,
               templates'[c].key # None
        PROVE  /\ templates'[c].cached \in Packets
               /\ templates'[c].cached["prefix"] = templates'[c].key
    <3>1. c # current'
      BY <1>5, <1>7, <2>1
    <3> QED
      BY <1>7, <2>1, <3>1 DEF IInv, ArenaInv
  <2> QED
    BY <1>0, <2>1 DEF ArenaInv
<1>12. PrefixInv'
  <2>1. PrefixTrue'
    BY <1>0, <1>2, <1>5, <1>7 DEF PrefixTrue
  <2>2. state[2] <= state[2]
    BY <1>2
  <2> QED
    BY <1>0, <1>1, <2>1, <2>2 DEF PrefixInv, Phases
<1> QED
  BY <1>8, <1>9, <1>10, <1>11, <1>12, PartsNext DEF DrafterInv

\* The changed prefix is patched in, or found in the cache under its name.
LEMMA PrefixStep ==
  ASSUME IInv, NEW t \in Tokens, StepPrefix(t) PROVE IInv'
<1>0. /\ kv' = kv /\ Slots' = Slots /\ pc = "ready" /\ pc' = "find"
      /\ UNCHANGED <<transport, config, state, bodyPosition>>
      /\ token' = t /\ current' = Slot(state[2])
      /\ bound' = None /\ patches' = state
      /\ SendArena(current', state, t)
  BY SetsSame DEF StepPrefix, SendArena, CallBody, config
<1>1. state \in States
  BY <1>0 DEF IInv, PrefixInv
<1>2. state[2] \in 1 .. Positions /\ current' \in Slots /\ state # None
  BY <1>0, <1>1, StateProps, SlotProps
<1>3. templates[current'] # None
  BY <1>0 DEF StepPrefix, NeedsTemplate
<1>4. /\ Patched(templates[current'], state, t) = Content(t, state)
      /\ templates' \in [Slots -> Arena \cup {None}]
      /\ templates'[current'] # None
      /\ ArenaInv'
  BY <1>0, <1>1, <1>2, <1>3, SendProps
<1>5. SessionInv'
  BY <1>0, CallStep
<1>6. DraftTypes'
  BY <1>0, <1>1, <1>2, <1>4 DEF IInv, TypeOK, DraftTypes, config
<1>7. CallInv'
  <2> DEFINE miss == Misses(templates[current'], state)
  <2>1. miss \in BOOLEAN
    BY DEF Misses
  <2>2. CallBody(Patched(templates[current'], state, t), miss)
    BY <1>0 DEF SendArena
  <2> HIDE DEF miss
  <2> QED
    BY <1>0, <1>1, <1>4, <2>1, <2>2, BodyCall
<1>8. PrefixInv'
  <2>1. PrefixTrue'
    BY <1>0, <1>2, <1>4 DEF PrefixTrue
  <2> QED
    BY <1>0, <1>1, <2>1 DEF IInv, PrefixInv, Phases
<1> QED
  BY <1>4, <1>5, <1>6, <1>7, <1>8, PartsNext DEF DrafterInv

\* A chain replaces the token in what its last step used.
LEMMA ChainStep ==
  ASSUME IInv, NEW t \in Tokens, StepChain(t) PROVE IInv'
<1>0. /\ kv' = kv /\ Slots' = Slots /\ pc = "ready" /\ pc' = "find"
      /\ UNCHANGED <<transport, config, state, current, bodyPosition,
                     patches>>
      /\ token' = t /\ bodyPosition = state[2]
  BY SetsSame DEF StepChain, SendArena, CallBody, config
<1>1. state \in States /\ PrefixTrue
  BY <1>0 DEF IInv, PrefixInv
<1>2. SessionInv'
  BY <1>0, CallStep
<1>3. state # None /\ None \notin Packets
  BY <1>1, StateProps, NoneAssumption
<1>4. CASE bound = None
  <2>1. bound' = None /\ SendArena(current, patches, t)
    BY <1>4 DEF StepChain
  <2>2. /\ current \in Slots /\ templates[current] # None
        /\ patches = None => templates[current].base["prefix"] = state
        /\ patches # None => patches = state
    BY <1>1, <1>4 DEF PrefixTrue
  <2>3. patches \in States \cup {None}
    BY DEF IInv, TypeOK
  <2>4. /\ Patched(templates[current], patches, t) = Content(t, state)
        /\ templates' \in [Slots -> Arena \cup {None}]
        /\ templates'[current] # None
        /\ templates'[current].base = templates[current].base
        /\ ArenaInv'
    BY <1>0, <1>1, <2>1, <2>2, <2>3, SendProps
  <2>5. DraftTypes'
    BY <1>0, <2>1, <2>4 DEF IInv, TypeOK, DraftTypes, config
  <2>6. CallInv'
    <3> DEFINE miss == Misses(templates[current], patches)
    <3>1. miss \in BOOLEAN
      BY DEF Misses
    <3>2. CallBody(Patched(templates[current], patches, t), miss)
      BY <2>1 DEF SendArena
    <3> HIDE DEF miss
    <3> QED
      BY <1>0, <1>1, <2>1, <2>4, <3>1, <3>2, BodyCall
  <2>7. PrefixTrue'
    BY <1>0, <2>1, <2>2, <2>4 DEF PrefixTrue
  <2>8. PrefixInv'
    BY <1>0, <1>1, <2>7 DEF IInv, PrefixInv, Phases
  <2> QED
    BY <1>2, <2>4, <2>5, <2>6, <2>8, PartsNext DEF DrafterInv
<1>5. CASE bound # None
  <2>1. /\ bound' = [bound EXCEPT !["inputs"] = t] /\ templates' = templates
        /\ CallBody(bound', FALSE)
    BY <1>5 DEF StepChain
  <2>2. bound \in Packets /\ bound["prefix"] = state
    BY <1>1, <1>5 DEF IInv, TypeOK, PrefixTrue
  <2>3. t \in Values /\ state \in Values
    BY <1>1 DEF Values
  <2>4. bound' = Content(t, state)
    BY <2>1, <2>2, <2>3, PatchProps
  <2>5. bound' \in Packets /\ bound'["prefix"] = state
    BY <2>3, <2>4, ContentProps
  <2>6. DraftTypes'
    BY <1>0, <2>1, <2>5 DEF IInv, TypeOK, DraftTypes, config
  <2>7. CallInv'
    BY <1>0, <1>1, <2>1, <2>4, BodyCall
  <2>8. ArenaInv'
    BY <1>0, <2>1 DEF IInv, ArenaInv
  <2>9. PrefixTrue'
    BY <1>0, <1>1, <1>3, <2>5 DEF PrefixTrue
  <2>10. PrefixInv'
    BY <1>0, <1>1, <2>9 DEF IInv, PrefixInv, Phases
  <2> QED
    BY <1>2, <2>6, <2>7, <2>8, <2>10, PartsNext DEF DrafterInv
<1> QED
  BY <1>4, <1>5

\* A call that is not of a body sends a program built for it.
LEMMA HeadCalls ==
  ASSUME kv' = kv, state \in States, token \in Tokens,
         UNCHANGED <<state, token>>,
         call' \in {HeadCall, Control("head control", <<"head control", 0>>,
                                      FreshHead),
                    Control("body control", <<"control", state[2]>>,
                            FreshBody)}
  PROVE  CallInv'
<1>1. /\ FreshBody \in Packets /\ FreshHead \in Packets
      /\ FreshBody' = FreshBody /\ FreshHead' = FreshHead
  BY FreshProps DEF FreshBody, FreshHead, Content
<1>2. /\ <<"head", 0>> \in Folders /\ <<"head control", 0>> \in Folders
      /\ <<"control", state[2]>> \in Folders
  BY StateProps DEF Folders
<1>3. CASE call' = HeadCall
  <2>1. call' \in Calls /\ ~ call'.miss
        /\ call'.packets = FreshHead /\ call'.of = "head"
    BY <1>1, <1>2, <1>3 DEF HeadCall, Calls
  <2> QED
    BY <1>1, <2>1, SetsSame DEF CallInv, Fresh
<1>4. ASSUME NEW of \in {"body control", "head control"},
             NEW folder \in Folders, NEW packets \in Packets,
             call' = Control(of, folder, packets),
             packets = IF of = "body control" THEN FreshBody ELSE FreshHead
      PROVE  CallInv'
  <2>1. call' \in Calls /\ ~ call'.miss
        /\ call'.packets = packets /\ call'.of = of
    BY <1>4 DEF Control, Calls
  <2> QED
    BY <1>1, <1>4, <2>1, SetsSame DEF CallInv, Fresh
<1> QED
  BY <1>1, <1>2, <1>3, <1>4

LEMMA AfterBodyStep == ASSUME IInv, AfterBody PROVE IInv'
<1>0. /\ kv' = kv /\ Slots' = Slots /\ pc = "run" /\ pc' = "find"
      /\ Run(pc') /\ bodyPosition' = state[2]
      /\ UNCHANGED <<config, templates, current, bound, patches, state,
                     token>>
  BY SetsSame DEF AfterBody, Run, config
<1>1. state \in States /\ token \in Tokens /\ PrefixTrue
  BY <1>0 DEF IInv, PrefixInv, CallInv, Phases
<1>2. SessionInv'
  BY <1>0, RunStep
<1>3. state[2] \in 1 .. Positions /\ state[2] <= state[2]
  BY <1>1, StateProps
<1>4. DraftTypes'
  BY <1>0, <1>1, <1>3 DEF IInv, TypeOK, DraftTypes, config
<1>5. CallInv'
  BY <1>0, <1>1, HeadCalls DEF AfterBody
<1>6. ArenaInv' /\ PrefixTrue'
  BY <1>0, <1>1 DEF IInv, ArenaInv, PrefixTrue
<1>7. PrefixInv'
  BY <1>0, <1>1, <1>3, <1>6 DEF PrefixInv, Phases
<1> QED
  BY <1>2, <1>4, <1>5, <1>6, <1>7, PartsNext DEF DrafterInv

LEMMA HeadControlStep == ASSUME IInv, HeadControl PROVE IInv'
<1>0. /\ kv' = kv /\ Slots' = Slots /\ pc = "run" /\ pc' = "find"
      /\ Run(pc') /\ UNCHANGED <<config, draft, state, token>>
  BY SetsSame DEF HeadControl, Run, config
<1>1. state \in States /\ token \in Tokens /\ PrefixTrue
  BY <1>0 DEF IInv, PrefixInv, CallInv, Phases
<1>2. SessionInv'
  BY <1>0, RunStep
<1>3. DraftTypes'
  BY <1>0, DraftTypesSame DEF IInv, TypeOK, DraftTypes
<1>4. CallInv'
  BY <1>0, <1>1, HeadCalls DEF HeadControl
<1>5. ArenaInv' /\ PrefixTrue'
  BY <1>0, <1>1 DEF IInv, ArenaInv, PrefixTrue, draft
<1>6. PrefixInv'
  BY <1>0, <1>1, <1>5 DEF IInv, PrefixInv, Phases, draft
<1> QED
  BY <1>2, <1>3, <1>4, <1>5, <1>6, PartsNext DEF DrafterInv

\* The prefix that was materialized is bound to the chain.
LEMMA AfterHeadStep == ASSUME IInv, AfterHead PROVE IInv'
<1>0. /\ kv' = kv /\ Slots' = Slots /\ pc = "run" /\ pc' = "ready"
      /\ Run(pc')
      /\ UNCHANGED <<config, templates, current, bodyPosition, state, token>>
  BY SetsSame DEF AfterHead, Run, config
<1>1. state \in States /\ token \in Tokens /\ PrefixTrue
  BY <1>0 DEF IInv, PrefixInv, CallInv, Phases
<1>2. SessionInv'
  BY <1>0, RunStep
<1>3. token \in Values /\ state \in Values /\ None \notin Packets
  BY <1>1, NoneAssumption DEF Values
<1>4. ASSUME patches # None, bound' = Content(token, patches)
      PROVE  bound' \in Packets /\ bound'["prefix"] = state
  BY <1>1, <1>3, <1>4, ContentProps DEF PrefixTrue
<1>5. \/ UNCHANGED <<bound, patches>>
      \/ /\ bound' \in Packets /\ bound'["prefix"] = state
         /\ patches' = None
  BY <1>4 DEF AfterHead
<1>6. DraftTypes'
  BY <1>0, <1>1, <1>5 DEF IInv, TypeOK, DraftTypes, config
<1>7. CallInv' /\ ArenaInv'
  BY <1>0 DEF IInv, CallInv, ArenaInv, Phases
<1>8. PrefixTrue'
  BY <1>0, <1>1, <1>3, <1>5 DEF PrefixTrue
<1>9. PrefixInv'
  BY <1>0, <1>1, <1>8 DEF IInv, PrefixInv, Phases
<1> QED
  BY <1>2, <1>6, <1>7, <1>9, PartsNext DEF DrafterInv

-----------------------------------------------------------------------------
(* The steps of a call.                                                    *)

LEMMA ExecuteStep == ASSUME IInv, Execute, kv' = kv PROVE SessionInv'
<1>1. ASSUME Refuse \/ LoadFails PROVE SessionInv'
  BY <1>1, SessionSame DEF Refuse, LoadFails, Phases
<1>2. ASSUME Witness PROVE SessionInv'
  BY <1>2, SessionSame DEF Witness, Phases
<1>3. ASSUME Fails \/ Exit PROVE SessionInv'
  BY <1>3, CloseStep DEF Fails, Exit
<1> QED
  BY <1>1, <1>2, <1>3, FindHitStep, FindMissStep, LoadStep, BindStep,
     WriteStep DEF Execute

\* A template whose patched copy could not be sent loses it.
LEMMA TransportStep == ASSUME IInv, Transport PROVE IInv'
<1>0. /\ kv' = kv /\ Slots' = Slots /\ Calls' = Calls /\ Execute /\ Forget
      /\ UNCHANGED <<config, current, bound, bodyPosition, patches, state,
                     token>>
  BY SetsSame DEF Transport, config
<1>1. /\ UNCHANGED call
      /\ pc' \in Phases \/ pc' = "exit" => pc \in Phases
      /\ pc' # "ready"
  BY <1>0 DEF Execute, Refuse, FindHit, FindMiss, Load, LoadFails, Bind,
     Fails, Write, Exit, Witness, Phases
<1>2. SessionInv'
  BY <1>0, ExecuteStep
<1>3. CASE templates' = templates
  <2>1. UNCHANGED <<config, draft, state, token>>
    BY <1>0, <1>3 DEF draft
  <2>2. DraftTypes'
    BY <2>1, DraftTypesSame DEF IInv, TypeOK, DraftTypes
  <2>3. CallInv' /\ ArenaInv' /\ PrefixInv'
    BY <1>1, <2>1, DrafterSame
  <2> QED
    BY <1>2, <2>2, <2>3, PartsNext DEF DrafterInv
<1>4. CASE pc' = "exit" /\ call.of = "body" /\ call.miss
  <2>1. bound = None /\ current \in Slots /\ templates[current] # None
    BY <1>1, <1>4 DEF IInv, CallInv, PrefixInv, PrefixTrue
  <2> DEFINE a == templates[current]
             k == [a EXCEPT !.cached = None, !.key = None]
  <2>2. a \in Arena
    BY <2>1 DEF IInv, TypeOK
  <2>3. k \in Arena /\ k.key = None
    BY <2>2 DEF Arena
  <2>4. templates' = [templates EXCEPT ![current] = k]
    BY <1>0, <1>4, <2>1 DEF Forget, IInv, TypeOK
  <2>5. templates \in [Slots -> Arena \cup {None}]
    BY DEF IInv, TypeOK
  <2> HIDE DEF k
  <2>6. /\ templates' \in [Slots -> Arena \cup {None}]
        /\ templates'[current] = k
        /\ \A c \in Slots : c # current => templates'[c] = templates[c]
    BY <2>1, <2>3, <2>4, <2>5
  <2>7. DraftTypes'
    BY <1>0, <2>6 DEF IInv, TypeOK, DraftTypes, config
  <2>8. CallInv' /\ PrefixInv'
    BY <1>0, <1>4 DEF IInv, CallInv, PrefixInv, Phases
  <2>9. ArenaInv'
    <3>1. ASSUME NEW c \in Slots, templates'[c] # None,
                 templates'[c].key # None
          PROVE  /\ templates'[c].cached \in Packets
                 /\ templates'[c].cached["prefix"] = templates'[c].key
      <4>1. c # current
        BY <2>3, <2>6, <3>1
      <4> QED
        BY <2>6, <3>1, <4>1 DEF IInv, ArenaInv
    <3> QED
      BY <1>0, <3>1 DEF ArenaInv
  <2> QED
    BY <1>2, <2>7, <2>8, <2>9, PartsNext DEF DrafterInv
<1> QED
  BY <1>0, <1>3, <1>4 DEF Forget

LEMMA RivalsStep == ASSUME IInv, RivalSteps PROVE IInv'
<1>0. /\ kv' = kv /\ Rival /\ UNCHANGED <<config, draft, state, token>>
      /\ UNCHANGED <<pc, call>>
  BY DEF RivalSteps, config, Rival, RivalEnter, RivalLoad, RivalExit
<1>1. SessionInv'
  BY <1>0, RivalStep
<1>2. DraftTypes'
  BY <1>0, DraftTypesSame DEF IInv, TypeOK, DraftTypes
<1>3. CallInv' /\ ArenaInv' /\ PrefixInv'
  BY <1>0, DrafterSame
<1> QED
  BY <1>1, <1>2, <1>3, PartsNext DEF DrafterInv

LEMMA StutterStep == ASSUME IInv, UNCHANGED vars PROVE IInv'
<1> USE DEF vars
<1>1. kv' = kv /\ UNCHANGED <<transport, pc, call>>
  BY DEF config
<1>2. Keys' = Keys /\ ContextRecs' = ContextRecs
  BY <1>1, SetsSame
<1>3. SessionTypes'
  BY <1>1, <1>2 DEF IInv, TypeOK, SessionTypes, transport
<1>4. LeaseInv' /\ RoomInv' /\ CacheInv' /\ SnapshotTrue'
  BY <1>1 DEF IInv, LeaseInv, RoomInv, CacheInv, SnapshotTrue, Context,
     Stream, transport
<1>5. DraftTypes'
  BY DraftTypesSame DEF IInv, TypeOK, DraftTypes
<1>6. CallInv' /\ ArenaInv' /\ PrefixInv'
  BY <1>1, DrafterSame
<1> QED
  BY <1>3, <1>4, <1>5, <1>6, PartsNext DEF DrafterInv, SessionInv

\* Every step keeps the invariant.
LEMMA NextInv == ASSUME IInv, [Next]_vars PROVE IInv'
BY RequestStep, AdvanceStep, LeaveStep, BuildStep, PrefixStep, ChainStep,
   TransportStep, AfterBodyStep, HeadControlStep, AfterHeadStep, RivalsStep,
   StutterStep DEF Next

-----------------------------------------------------------------------------
\* The invariant: leases and contexts, rooms, streams and snapshots, calls,
\* templates and prefixes, whatever the constants are.
THEOREM Invariance == Spec => []IInv
<1>1. Init => IInv
  BY InitInv
<1>2. IInv /\ [Next]_vars => IInv'
  BY NextInv
<1> QED
  BY <1>1, <1>2, PTL DEF Spec

\* Type correctness of the drafter and its session.
THEOREM TypeCorrect == Spec => []TypeOK
<1>1. IInv => TypeOK
  BY DEF IInv
<1> QED
  BY <1>1, Invariance, PTL

\* No template, patch, binding, cache, snapshot or buffer that was kept is
\* ever dispatched stale: the device has what a fresh build would send.
THEOREM FreshDispatches == Spec => []DispatchFresh
<1>1. IInv => DispatchFresh
  BY DEF IInv, CacheInv, CallInv, DispatchFresh, Phases
<1> QED
  BY <1>1, Invariance, PTL

\* Contexts are open only for the session that has the process's lease.
THEOREM ContextsHeld == Spec => []ContextsOfHolder
<1>1. IInv => ContextsOfHolder
  BY DEF IInv, LeaseInv, ContextsOfHolder
<1> QED
  BY <1>1, Invariance, PTL

\* The session's contexts are no more than it may cache, also while one is
\* replaced: each is that of a cached program.
THEOREM ContextsBounded == Spec => []ContextBound
<1>1. IInv => ContextBound
  <2> SUFFICES ASSUME IInv PROVE ContextBound
    OBVIOUS
  <2> DEFINE n == Len(images)
             f == [i \in 1 .. n |-> <<"own", images[i].key>>]
             own == {f[i] : i \in 1 .. n}
             open == {c \in hw : c[1] = "own"}
  <2>1. n \in Nat /\ n <= MaxContexts
    BY DEF IInv, TypeOK, RoomInv
  <2>2. IsFiniteSet(1 .. n) /\ Cardinality(1 .. n) = n
    <3>1. 1 \in Int /\ n \in Int
      BY <2>1
    <3> HIDE DEF n
    <3>2. /\ IsFiniteSet(1 .. n)
          /\ Cardinality(1 .. n) = IF 1 > n THEN 0 ELSE n - 1 + 1
      BY <3>1, FS_Interval
    <3> QED
      BY <2>1, <3>2
  <2>3. f \in Surjection(1 .. n, own)
    BY DEF Surjection
  <2>4. IsFiniteSet(own) /\ Cardinality(own) <= n
    <3> HIDE DEF own, f, n
    <3> QED
      BY <2>2, <2>3, FS_Surjection
  <2>5. open \subseteq own
    <3> SUFFICES ASSUME NEW c \in open PROVE c \in own
      OBVIOUS
    <3>1. PICK i \in 1 .. n : images[i].key = c[2]
      BY DEF IInv, LeaseInv
    <3>2. c \in {"own", "rival"} \X (Keys \cup {"any"}) /\ c[1] = "own"
      BY DEF IInv, TypeOK
    <3>3. c = f[i]
      BY <3>1, <3>2
    <3> QED
      BY <3>3
  <2>6. IsFiniteSet(open) /\ Cardinality(open) <= Cardinality(own)
    BY <2>4, <2>5, FS_Subset
  <2>7. Cardinality(own) \in Nat /\ Cardinality(open) \in Nat
    BY <2>4, <2>6, FS_CardinalityType
  <2> HIDE DEF own, n, f
  <2>8. MaxContexts \in Nat
    BY SessionAssumption
  <2>9. Cardinality(open) <= MaxContexts
    BY <2>1, <2>4, <2>6, <2>7, <2>8
  <2> QED
    BY <2>9 DEF ContextBound
<1> QED
  BY <1>1, Invariance, PTL
=============================================================================
