------------------------------ MODULE DraftInv ------------------------------
(***************************************************************************)
(* The inductive invariant of DraftSteps, in named parts.                  *)
(***************************************************************************)
EXTENDS DraftSteps

Folders == {Folder(n) : n \in 1 .. Positions}
           \cup {<<"control", n>> : n \in 1 .. Positions}
           \cup {<<"head", 0>>, <<"head control", 0>>}
Keys    == {Key(f) : f \in Folders}

StreamRecs  == [folder : Folders, dev : Packets,
                snap : Packets \cup {None}]
ContextRecs == [key : Keys, streams : Seq(StreamRecs)]
Calls == [of : {"body", "body control", "head", "head control"},
          folder : Folders, packets : Packets, reuse : BOOLEAN,
          miss : BOOLEAN]

Phases == {"find", "load", "bind", "write", "run"}

\* Every variable keeps its type.
TypeOK ==
  /\ lease \in {None, "own", "rival"} /\ active \in BOOLEAN
  /\ images \in Seq(ContextRecs)
  /\ hw \subseteq {"own", "rival"} \X (Keys \cup {"any"})
  /\ pc \in Phases \cup {"out", "ready", "exit", "witness"}
  /\ kv \in Nat /\ mode \in {"plain", "cached", "bound"}
  /\ compare \in BOOLEAN
  /\ templates \in [Slots -> Arena \cup {None}]
  /\ current \in Slots \cup {0}
  /\ bound \in Packets \cup {None} /\ patches \in States \cup {None}
  /\ bodyPosition \in 1 .. Positions \cup {None}
  /\ state \in States \cup {None} /\ token \in Tokens \cup {None}

\* The lease is held exactly while the session is open, whose contexts are
\* those it has cached; only the holder's contexts are open.
LeaseInv ==
  /\ active <=> lease = "own"
  /\ ~ active => images = <<>>
  /\ \A c \in hw : c[1] = lease
  /\ \A c \in hw : c[1] = "own" =>
       \E i \in 1 .. Len(images) : images[i].key = c[2]
  /\ pc \in Phases \cup {"ready"} => active

\* The cache has room when a context is loaded.
RoomInv ==
  /\ Len(images) <= MaxContexts
  /\ pc = "load" => Len(images) < MaxContexts

\* Between binding and dispatch the newest stream of the newest context is
\* the call's, and its buffer holds the call's packets once written.
CacheInv ==
  /\ pc \in {"bind", "write", "run"} => images # <<>>
  /\ pc \in {"write", "run"} => /\ Context.streams # <<>>
                                /\ Stream.folder = call.folder
  /\ pc = "run" => Stream.dev = call.packets

\* A snapshot is what its buffer holds, outside of a dispatch.
SnapshotTrue ==
  \A i \in 1 .. Len(images) : \A j \in 1 .. Len(images[i].streams) :
    LET s == images[i].streams[j]
    IN  s.snap = None \/ s.dev = s.snap
        \/ (pc = "run" /\ i = Len(images) /\ j = Len(images[i].streams))

\* A call sends what a program built for the step would; only an arena's is
\* noted as a miss.
CallInv ==
  pc \in Phases => /\ call \in Calls /\ token \in Tokens
                   /\ call.packets = Fresh(call.of)
                   /\ call.miss => bound = None

\* A template's patched copy holds the prefix it is filed under.
ArenaInv ==
  \A c \in Slots :
    templates[c] # None /\ templates[c].key # None =>
      /\ templates[c].cached \in Packets
      /\ templates[c].cached["prefix"] = templates[c].key

\* The next step of a chain finds the accepted prefix in the bound buffer, in
\* the patches or in the template's base, whichever it will use.
PrefixTrue ==
  /\ bound # None => bound["prefix"] = state
  /\ patches # None => patches = state
  /\ bound = None =>
       /\ current \in Slots /\ templates[current] # None
       /\ patches = None => templates[current].base["prefix"] = state

\* ... unless the position says that the prefix has changed since.
PrefixInv ==
  /\ pc \in Phases \cup {"ready"} =>
       /\ state \in States
       /\ bodyPosition # None => bodyPosition <= state[2]
  /\ pc \in Phases => PrefixTrue
  /\ pc = "ready" /\ bodyPosition = state[2] => PrefixTrue

IInv == /\ TypeOK /\ LeaseInv /\ RoomInv /\ CacheInv /\ SnapshotTrue
        /\ CallInv /\ ArenaInv /\ PrefixInv
=============================================================================
