----------------------------- MODULE DraftSteps -----------------------------
(***************************************************************************)
(* The drafter of npu/gemma4/draft.py: each step sends a body program and   *)
(* a head program to the NPU through a PacketSession.  Programs are not     *)
(* rebuilt: a template is kept for each KV capacity (kv_capacity; one       *)
(* template for the current length without it) and its named data patched,  *)
(* the token at every step, keys, values and lengths when the accepted      *)
(* prefix has changed.  gemma4_prefix_candidate.py adds two ways to avoid   *)
(* patching the prefix again in a chain of drafts: a cache of one patched   *)
(* template keyed by content, and a patched buffer bound to the chain.      *)
(*                                                                         *)
(* A program's data has two pages, that of the inputs and that of the       *)
(* prefix; the prefix is the prompt and the number of accepted positions.   *)
(***************************************************************************)
EXTENDS PacketSession

CONSTANTS
  Tokens, Prompts,
  Positions,   \* bound of the accepted positions
  Modes,       \* "plain", "cached" (CachedPrefixArena), "bound" (PrefixBinder)
  Capacities   \* kv_capacity; 0 for none

ASSUME DraftAssumption ==
  /\ Positions \in Nat \ {0} /\ Capacities \subseteq Nat
  /\ Modes \subseteq {"plain", "cached", "bound"}

States  == Prompts \X (1 .. Positions)
\* What a page may hold, None for what nobody knows.
Values  == Tokens \cup States \cup (Tokens \X States) \cup {None}
Packets == [Pages -> Values]
Arena   == [base : Packets, cached : Packets \cup {None},
            key : States \cup {None}]

\* None is none of the values that are compared with it.
ASSUME NoneAssumption ==
  /\ None \notin Nat /\ None \notin {"own", "rival"}
  /\ None \notin States /\ None \notin Packets /\ None \notin Arena

VARIABLES
  mode, kv, compare, \* how the drafter was made; compare_prepared
  templates,     \* body_templates: slots to arenas
  current,       \* slot of body_template
  bound,         \* the buffer bound to the chain: body_template if not None
  bodyPosition,  \* body_position, or None
  patches,       \* body_state_patches: a prefix, or None
  state,         \* SharedState: the accepted prefix
  token          \* the step's token

config == <<mode, kv, compare>>
draft  == <<templates, current, bound, bodyPosition, patches>>
vars   == <<transport, pc, call, config, draft, state, token>>

Capacity(n) == ((n + kv - 1) \div kv) * kv
Slot(n)     == IF kv = 0 THEN 0 ELSE Capacity(n)
Slots       == {Slot(n) : n \in 1 .. Positions}
Folder(n)   == <<"body", IF kv = 0 THEN n ELSE Capacity(n)>>

Init ==
  /\ lease = None /\ active = FALSE /\ images = <<>> /\ hw = {}
  /\ pc = "out" /\ call = None
  /\ kv \in Capacities /\ mode \in IF kv = 0 THEN {"plain"} ELSE Modes
  /\ compare \in BOOLEAN
  /\ templates = [c \in Slots |-> None] /\ current = 0 /\ bound = None
  /\ bodyPosition = None /\ patches = None /\ state = None /\ token = None

-----------------------------------------------------------------------------
\* What a program built now for the step would send.
FreshBody == Content(token, state)
FreshHead == Content(<<token, state>>, <<token, state>>)
Fresh(of) == IF of \in {"body", "body control"} THEN FreshBody ELSE FreshHead

\* Fault: the prefix is only invalidated when the position changes.
InvalidateNothing == UNCHANGED <<bodyPosition, patches>>
InvalidatePrefix == bodyPosition' = None /\ patches' = None

\* A request: a new prompt, and a session of its own.
Request ==
  /\ pc = "out" /\ Enter /\ pc' = "ready" /\ InvalidatePrefix
  /\ \E p \in Prompts, n \in 1 .. Positions : state' = <<p, n>>
  /\ UNCHANGED <<call, config, templates, current, bound, token>>

\* A verification accepted more positions.
Advance ==
  /\ pc = "ready"
  /\ \E n \in state[2] + 1 .. Positions : state' = <<state[1], n>>
  /\ UNCHANGED <<transport, pc, call, config, draft, token>>

Leave ==
  /\ pc = "ready" /\ pc' = "exit"
  /\ UNCHANGED <<transport, call, config, draft, state, token>>

\* The call of execute() for the body; miss: a patched template is kept.
CallBody(packets, miss) ==
  /\ pc' = "find"
  /\ call' = [of |-> "body", folder |-> Folder(state[2]), packets |-> packets,
              reuse |-> TRUE, miss |-> miss]

NeedsTemplate(n) == IF kv = 0 THEN bodyPosition # n
                    ELSE templates[Slot(n)] = None

\* An arena sends its base with the patches applied; CachedPrefixArena sends
\* the patched template it has kept when the patches are the same ...
Misses(a, prefix) == mode = "cached" /\ prefix # None /\ a.key # prefix
Patched(a, prefix, t) ==
  IF prefix = None THEN [a.base EXCEPT !["inputs"] = t]
  ELSE IF mode = "cached" /\ a.key = prefix
       THEN [a.cached EXCEPT !["inputs"] = t]
       ELSE Content(t, prefix)
\* ... and keeps it when they are not.
Kept(a, prefix, t) ==
  IF Misses(a, prefix)
  THEN [a EXCEPT !.cached = Content(t, prefix), !.key = prefix]
  ELSE a

SendArena(slot, prefix, t) ==
  LET a == templates[slot]
  IN  /\ templates' = [templates EXCEPT ![slot] = Kept(a, prefix, t)]
      /\ CallBody(Patched(a, prefix, t), Misses(a, prefix))

\* A template is built with the step's own data.
StepBuild(t) ==
  /\ pc = "ready" /\ NeedsTemplate(state[2])
  /\ token' = t /\ current' = Slot(state[2])
  /\ templates' = [templates EXCEPT ![current'] =
       [base |-> Content(t, state), cached |-> None, key |-> None]]
  /\ bound' = None /\ patches' = None /\ bodyPosition' = state[2]
  /\ CallBody(Content(t, state), FALSE)
  /\ UNCHANGED <<transport, config, state>>

\* The prefix has changed: its patches go with those of the token.
StepPrefix(t) ==
  /\ pc = "ready" /\ ~ NeedsTemplate(state[2]) /\ kv # 0
  /\ bodyPosition # state[2]
  /\ token' = t /\ patches' = state
  /\ current' = Slot(state[2]) /\ bound' = None
  /\ SendArena(current', state, t)
  /\ UNCHANGED <<transport, config, bodyPosition, state>>

\* A chain of drafts replaces the token only.
StepChain(t) ==
  /\ pc = "ready" /\ ~ NeedsTemplate(state[2]) /\ bodyPosition = state[2]
  /\ token' = t
  /\ IF bound = None
     THEN SendArena(current, patches, t) /\ UNCHANGED bound
     ELSE /\ bound' = [bound EXCEPT !["inputs"] = t]
          /\ CallBody(bound', FALSE) /\ UNCHANGED templates
  /\ UNCHANGED <<transport, config, current, bodyPosition, patches, state>>

Control(of, folder, packets) ==
  [of |-> of, folder |-> folder, packets |-> packets, reuse |-> FALSE,
   miss |-> FALSE]
HeadCall ==
  [of |-> "head", folder |-> <<"head", 0>>, packets |-> FreshHead,
   reuse |-> TRUE, miss |-> FALSE]

\* The body has run; before the head a control, built from nothing, if the
\* two are to be compared.
AfterBody ==
  /\ Run("find") /\ call.of \in {"body", "body control"}
  /\ bodyPosition' = state[2]
  /\ call' = IF call.of = "body" /\ compare
             THEN Control("body control", <<"control", state[2]>>, FreshBody)
             ELSE HeadCall
  /\ UNCHANGED <<config, templates, current, bound, patches, state, token>>

HeadControl ==
  /\ Run("find") /\ call.of = "head" /\ compare
  /\ call' = Control("head control", <<"head control", 0>>, FreshHead)
  /\ UNCHANGED <<config, draft, state, token>>

\* The step ends: PrefixCachedDraft binds the prefix it has materialized.
AfterHead ==
  /\ Run("ready") /\ call.of = IF compare THEN "head control" ELSE "head"
  /\ IF mode = "bound" /\ patches # None
     THEN bound' = Content(token, patches) /\ patches' = None
     ELSE UNCHANGED <<bound, patches>>
  /\ call' = None
  /\ UNCHANGED <<config, templates, current, bodyPosition, state, token>>

\* A patched template is not kept if it could not be sent.
Forget ==
  IF pc' = "exit" /\ call.of = "body" /\ call.miss
  THEN templates' = [templates EXCEPT ![current].cached = None,
                                      ![current].key = None]
  ELSE UNCHANGED templates

Transport ==
  /\ Execute /\ Forget
  /\ UNCHANGED <<config, current, bound, bodyPosition, patches, state, token>>

RivalSteps == Rival /\ UNCHANGED <<config, draft, state, token>>

Next ==
  \/ Request \/ Advance \/ Leave
  \/ \E t \in Tokens : StepBuild(t) \/ StepPrefix(t) \/ StepChain(t)
  \/ Transport \/ AfterBody \/ HeadControl \/ AfterHead \/ RivalSteps

Spec == Init /\ [][Next]_vars

-----------------------------------------------------------------------------
\* What is on the device when a program is dispatched is what a program built
\* from nothing for the current prefix and token would have sent, whatever
\* was kept: templates, patches, bindings, caches, snapshots and buffers.
DispatchFresh ==
  pc = "run" => Stream.dev = Fresh(call.of) /\ Stream.folder = call.folder

\* Contexts are open on the device only for the session that has the lease,
\* so that whoever takes it finds the device idle.
ContextsOfHolder == \A c \in hw : c[1] = lease

\* Never more contexts than the session may cache, not while one is replaced.
ContextBound == Cardinality({c \in hw : c[1] = "own"}) <= MaxContexts
=============================================================================
