# ignite-xdna: a TLA+ verification project

ignite-xdna compiles neural networks for the AMD XDNA NPU and runs them: a
compiler (`src/src/ignite_xdna/compiler`), a host runtime
(`src/src/ignite_xdna/runtime`), kernels, a Gemma 4 assistant
(`src/npu/gemma4`), a GPU helper process (`src/tools/ggml_gpu_target`), and a
large record of experiments. What is hard to test in it is concurrent: in the
host runtime several processes and threads share one device whose commands
cannot be recalled, may come late or never, and work on buffers the host reuses;
the compiler writes an instruction stream that runs beside the channels and
cores it starts, and may block on them. This project models both, checks them
with TLC and proves the central results with TLAPS. Paths below are relative to the directory that holds the
repository's copy, as in `PROJECT.json`.

## 1. Inventory

### The broker (`src/src/ignite_xdna/runtime/broker.py`)

One process owns the NPU. Clients dial in over a named pipe and put their
inputs and outputs in a shared-memory arena of `depth` slots.

| part | state | operations |
|---|---|---|
| `Broker` (device thread) | queue, streams by hash, contexts in LRU order with two BO sets each, health and closing flags, `current`/`run_len` of the streak, the call running and the call prepared | `submit`, `_pick`, `_prepare`/`_context`, `_start`, `_wait`, `_finish`, `close` |
| `BrokerClient` | next ticket, calls in flight, results read but not asked for, arena | `submit`, `wait`, `stats`, `close`; killed at any point |
| `_serve_client` (reader and sender thread a client) | the mapped arena, this client's unfinished calls, the reply queue | read a message, submit, answer in submission order, unwind at EOF or `bye` |
| `serve` (accept thread, main thread) | listener backlog, the stop event | accept, answer `hello`, answer `shutdown`, signals, exit |
| `XrtBackend` | the driver's | its failures are the faults of `Broker` |

Interaction: a client's `submit` writes the arena and sends a message; the
reader hands the call to `Broker.submit` and the sender waits on the call's
event; the device thread copies arena -> BO -> device -> BO -> arena and sets the
event. Hard: the pipelining (a call is copied in while another runs), eviction
under it, timeouts after which the device still owns memory, clients that die
with calls queued, pipes that fill in both directions, a device thread and an
accept thread that one exception ends.
Correct means: two live calls never share a BO set, no live context is evicted,
one client's calls keep their order, nobody starves behind a streak, every
accepted call is answered once, after a timeout the device is left alone, `close`
and `shutdown` get through, results are the caller's own.

### `InferenceSession` (`src/src/ignite_xdna/runtime/session.py`, `ring_scheduler.py`)

A ring of `ring_depth` input/output BOs, a slot index, one handle a slot, used
by `run`, `run_async` + `RunHandle.wait`/`is_done`, `benchmark` and `close`.
Single-threaded, but against a device that is asynchronous: a slot is reused
after waits that timed out, handles are recycled unread, three code paths wait
without looking at the state, a request's input reaches its second dispatch only
through what the first left in the MemTile, and `benchmark` uses the same BOs.
Correct means: what a request returns was computed from that request's input by
its own last command; inputs are not overwritten under a running command; `close` releases
BOs only when the device is done with them.

### `KernelSplicer` (`src/src/ignite_xdna/runtime/splice.py`)

A chain of stages from different hardware contexts sharing BOs, with access
locks per `DeviceBuffer` that are tried and never waited for, counters that
audit host traffic, and quarantine after a failure. `run`, `close`,
`DeviceBuffer.read`/`write` may be called by any thread. Correct means: no host
access during a splice, also after a run that gave up; stages execute in order;
a failed run leaves everything locked and a clean one leaves nothing locked.

### The assistant (`src/npu/gemma4/runtime.py`, `client.py`, `activity.py`) and its GPU worker (`src/tools/ggml_gpu_target`)

`PersistentAssistant` is one Python generator a request, suspended at each
yield, with a lock that admits one request at a time; the worker process that
has the target model outlives requests, as does a helper process that keeps the
GPU's clock up in windows while the NPU drafts. The worker keeps the target's
memory, the drafter a copy of its keys and values. Operations: `generate`,
`cancel`, `close`; the worker's verify, rollback and prefill. Hard: the two copies
of the accepted rows, drafts that agree behind the point where the generation
ends, a worker that dies or is killed by the timer of a reply, a consumer that
stops pulling, cancellation from another thread. Correct means: the tokens given
are those the target would have chosen one at a time, the NPU and the window are
given back on every path, a consumer that goes on sees the end.

### The drafter and its packet session (`src/npu/gemma4/draft.py`, `src/kernels/transformer_bf16/persistent.py`, `prefix_cache.py`, `prefix_binding.py`, `state.py`)

`Draft.step` sends two programs a token. Six things are kept to avoid building
or sending them anew: a template for each KV capacity, the patches of the
accepted prefix, the position they are for, a materialized template keyed by
content, a buffer bound to a chain of drafts, and in the session the contexts,
streams and the snapshot of what each input buffer holds. Operations: a request,
a step, the acceptance of a prefix, the session's enter, execute and exit; a
second thread's session competes for the process's lease. Hard: staleness, in
combination, and failures between any two steps of a dispatch. Correct means:
what runs is what a program built from nothing would have sent.

### The engine's instruction stream (`src/src/ignite_xdna/compiler/engine_sequence.py`, `layer_overlap.py`, `stream_share.py`)

`SequenceEmitter` turns the column programs of a layer (weight tasks, fills,
drains) into operations: start a DMA task with a buffer descriptor, wait for a
token of a channel, free descriptors. State at compile time: live tasks with
their holds, the cadence of tokens, the tracker of workspace conflicts. At run
time the command processor executes the stream in order while channels and cores
work. `stream_share.py` rewrites a frame's programs so that every fourth
activation rides the weight channel. Hard: an await that blocks the operations
that would end it, tokens that do not say whose they are, descriptors freed
while in use, an old conflict hidden by a new one, two kinds of data on one
channel. Correct means: the frame ends, touches the workspace in the order of
its layers, and leaves no token and no position behind for the next one.

### Not modelled yet, or not to be modelled

`PROJECT.json` lists every component with its reason. Next in line: the
graph/engine/composed sessions, the C API's ring, address generation,
partitioning. Left out for good: numerics (kernels, quantization, emulators,
decoders), text and container generation, experiment scripts, the driver.

## 2. Plan

1. **Broker core** (done): `CallService` (abstract) <- `Broker`; `BrokerInv`,
   `BrokerProof`.
2. **Broker edges** (done): `BrokerLink` composes a client, its two threads, the
   pipes and the arena with `CallService`, with `LinkInv` and `LinkProof`;
   `BrokerServe` composes the accept and main threads with the dialling processes.
3. **Session ring** (done): `SessionRing`, `SessionInv`, `SessionProof`.
4. **Splicer** (run/close done): `KernelSplicer`, `SplicerInv`, `SplicerProof`; construction
   and splicing released stages again are to come.
5. **Packet session and drafter** (done): `PacketSession`, `DraftSteps`,
   `DraftInv`, `DraftProof`.
6. **Assistant and GPU target protocol** (done but for the agent's turn loop):
   `Greedy` (abstract) <- `Assistant`, which composes `TargetWorker`;
   `AssistantInv`, `AssistantProof`.
7. **Engine stream and stream sharing** (done but for three build modes):
   `EngineSequence` <- `StreamShare`; `EngineInv`, `EngineProof`.
8. **Sessions above the ring**: engine/graph sessions (health flag after a failed
   dispatch, io mapping lifetime) and `ComposedSession`.
9. **Compiler algorithms** as pure functions against reference definitions:
   MemTile address generation, lock balance, partitioning.

Every safety invariant a run checks has its theorem. Theorems to come: what a
peer of `BrokerServe` has been told before the broker leaves. Runs are kept to one a
question; where one specification has several configurations (the programs of a
session, the builds of a frame) they are chosen in the initial state of one run.

## 3. Modules and the code

**`CallService`** is what the broker promises, without queue, context or thread:
a call is refused at once or queued; a client's calls start in order; one call
has the device at a time; an answer is final; once a call has not come back
nothing starts.

**`Broker`** is the device owner. `pc` is the place of the device thread in
`_loop`: `lock` (at the condition), `sleep` (in `cv.wait`), `prepare`, `wait`,
`launch`, `finish`, `exit`, `dead` (an exception left the loop), `released`
(`close` has freed the contexts). `nxt` and `running` are the loop's two local
variables. Each action is the stretch of code between two points where another
thread, or the device, can be seen: `Take` is `_pick` under the lock, `Prepare`
the whole of `_prepare` with `_context`'s lookup, eviction and opening (the
device thread alone touches contexts, and nothing outside reads them),
`PrepareFails` each point at which it can raise, with what was changed by then.
`Wait` is split by outcome, `Start` includes the check of health and the streak
count, `Finish` the copy out and the event. A BO set's content is the call that
copied into it. Only `skipped` is a history variable.

**`BrokerLink`** has one client. Its control state `cpc` says in which method it
is and which loop of `_receive_one` it is in (`MustReceive`). `toBroker` and
`toClient` are the pipe's directions, of `PipeCap` messages, `replies` the
sender's queue, `mine` the reader's list of unfinished calls, `arena` the slots.
The device thread is `CallService` itself with `CopyIn` and the copy out of
`Answer` made visible. One client is enough: connections share only the
service, and the service's promises hold for a client whatever the others do.

**`BrokerServe`** has the accept thread (`acc`), the main thread (`main`), and
peers that dial, speak, and may leave in between. What a served client does
afterwards is `BrokerLink`; that `broker.close()` returns is `CloseReturns`.

**`SessionRing`** has one host thread (`hpc`, `op`, `req`, `k`), the ring, and a
device that takes the commands of one hardware context in order. A wait may see
completion, an error, or a timeout; the two places where the code ignores the
state at the end of a request or stage are the operator `Unchecked`. The content of a BO is the request whose
input it was computed from and the command that wrote it last. `mem` is the
MemTile: with stages, what the last one left; with two dispatches, what the last
one pushed into the ping-pong stage. There every dispatch drains what is in the
stage and pushes its own input (the comments at `session.py:874` and 1303 say
so), so that the second drains what the first pushed, and what an earlier request
pushed if the first failed. `program` is the kind of session and what is called, chosen at the start; `MCSession` names the
programs.

**`KernelSplicer`** has any number of threads in `run` (a mutex lets one in;
`rpc` and `i` are that one's place) and in `read`/`write`; each lock is a
variable, and taking one a step. Commands of different stages may be executed
in any order. The trace of the host-traffic counters is the flag `traffic`: it
says whether any changed since they were read.

**`Greedy`** is what a stream promises: tokens the target would have chosen one
at a time, in order, ended at the first end-of-generation token or the limit.

**`TargetWorker`** has the worker's operations as functions from a memory to a
memory. A row of the memory is its token and whether a prefill or a verification
computed it; no more is said of its bits, which depend on the backend. The
choice after a history of tokens is a function of the tokens (`Predict`): that
llama.cpp's arithmetic, and with it a near tie, may change with the size of the
batch is left out, and so is the research worker that keeps a prefix.

**`Assistant`** is the generator. `pc` is its place: the four yields (`Suspended`)
or a stretch between two of them that another party can see (`Running`). `worker`
and `process` are the child's memory and life, `window` the helper's, `leased`
says that the request holds a packet session. `Fail` is an exception anywhere in
a running stretch, with the `except` and `finally` blocks it passes; `CloseRaises`
is the pipe that raises when it is closed on a dead process. The drafter proposes
any token.

**`PacketSession`** has the lease, the caches and the five phases of `execute()`
(`find`, `load`, `bind`, `write`, `run`), each of which may raise; its `close` is
called by the failing phase and again by `__exit__`. `hw` is what the driver has
open. The rival is another thread's session. **`DraftSteps`** composes it with
`Draft.step`: `StepBuild`, `StepPrefix` and `StepChain` are its three ways to a
body, `AfterBody`, `HeadControl` and `AfterHead` the calls that follow. A packet
is two pages, of the inputs and of the prefix, whose contents are the token and
the accepted prefix they were made from.

**`EngineSequence`** runs the emitter and the device together. The emitter's
actions are the operations in the order they are written: `Push` starts a task,
`Await` is `retire_channel` as `ensure` and `push` call it, `Serve` lowers the
holds, `AwaitBarrier` and `LeaveBarrier` end a layer or a frame; `Raise` is the
`RuntimeError` at compile time. Since an await at compile time becomes a wait at
run time, `Retire` is enabled only when the channel has put out a token not yet
taken. A queue is `live`, a set of task numbers in the order of which its tasks
were pushed, and `holds`, what each must still wait for; `tasks` is never forgotten and
is what `ConflictTracker` records. The device's actions, hardware and the cores' loop over its fifos, are the three channels of a
column and its cores, behind fifos of fixed depth. A frame is data (`setting`),
in the item orders of `engine_schedule.py`.

**`StreamShare`** rewrites a frame: `ShareColumn` is `share_layer` for a column,
`PadFrame` the padding, `ShareFrame` the choice between a layer's two schedules.
Its result is a setting of `EngineSequence`, whose cores then count activations
off two channels (`Shared`, `Direct`). `check_stream_share` is not translated for
its steps: the frame is run, and what it asserts of positions and order is
`LaidOut` (module `EngineInv`), which TLC evaluates for the frames `ShareFrame`
returns (`SharedFrames` in `MCEngine`).

Definitions that stand directly before another one under the comment *Fault* are
variants with a planted bug; no specification uses them. They show, one for
each checked property, that the property can fail.

## 4. Runs

| run | checks | bounds |
|---|---|---|
| `broker_faults` | `LiveBuffersPrivate`, `LiveContextsOpen`, `RoomForContext`, `ClientOrder`, `HeadNotStarved`, `CallsAccounted`, `ExitDrained`, `UnhealthyLeavesDeviceAlone`, `ImplementsService` | 2 clients, at most 3 calls each and 4 together, 3 xclbins, 2 contexts, streak 2, all faults |
| `broker_progress` | `AcceptedAnswered`, `CloseReturns` | 2 clients of 2 calls, 2 xclbins, 1 context |
| `link_faults` | `RepliesInOrder`, `ResultsAreOwn`, `ArenaOutlivesCalls`, `ClientReturns`, `ArenaReleased` | 3 tickets, 2 slots, pipes of 1 message |
| `link_oversized` (violation) | `ResultsAreOwn` | the same, over-large calls submitted with others in flight |
| `serve_stays` | `ShutdownStops`, `ClientServed` | 3 peers, one may be killed before it speaks |
| `session_programs` | `ResultOwnIfPushed`, `InputStable`, `CloseDrained` | 4 requests, 2 slots, 2 dispatches or 3 stages |
| `session_timeout` (violation) | `ResultIsOwn` | 4 requests, 2 slots |
| `splicer_faults` | `HostKeptOut`, `OutputComplete`, `Quarantined`, `LocksReturned` | 2 stages, 2 runners, 2 host threads |
| `assistant_stream` | `SharedIsTarget`, `VerificationSound`, `IdleReturned`, `CancelPrompt`, `ImplementsGreedy`, `StreamEnds` | 14 prompts of up to 4 tokens, 4 new tokens, 3 drafts |
| `draft_packets` | `DispatchFresh`, `ContextsOfHolder`, `ContextBound` | 2 prompts, 3 positions, capacities 0 and 2, 2 contexts, 2 streams |
| `engine_frames` | `NoHazard`, `FreedIsDone`, `TokensSpent`, `CoresInOrder`, `FrameCompletes` | 2 columns, 1 to 4 layers, 11 settings |
| `engine_tight` (violation) | `ServedFirst` | 4 descriptors a shim |

`OneAtATime` of the splicer and the type invariants have no place in a run: the
first is proved, and what would break it in the code breaks `OutputComplete`; the
types are proved of every component that has a proof module.

Why the bounds are enough. *Broker*: eviction needs more xclbins than contexts,
and a victim that must be spared two live ones; two clients give every order of
one client's calls around another's; a streak of 2 with three calls of one
client behind a call of the other passes the head over as often as it may;
four calls fill the queue behind a running and a prepared one. For every other
value of the constants there are the theorems. The bound on all calls together
is the constraint `FewCalls`. *Link*: two slots and three tickets make a slot be
reused while the other is in flight; pipes of one message block both sides at
the earliest moment. *Serve*: each peer dials once, so three give a peer before
and after the one that shuts down. *Session*: with two slots the third request
reuses the first one's, and the fourth follows a recycled handle; benchmark
warms up for two rounds and times three, the first number at which a pipeline
uses a BO again; with it in the program three requests are made. *Splicer*: two stages have
a first, an intermediate and a last buffer; a second host thread and a second
runner are the contention. *Assistant*: the longest prompts fill the context with
the last token that may be emitted, which `VerificationSound` needs; three drafts
and four tokens give rounds in which none, some and all drafts are accepted, and
cut by the limit and by a token that ends the generation. *Draft*:
bodies, heads and controls are three programs against two contexts; capacity 2
gives two templates for three positions, so that a template is left and come back
to; the theorems cover every other value. *Engine*: fifos hold two objects, as a
core's do; a build has 14 descriptors, 4 starts a channel and a token for every
second task, and one setting each has a budget that binds (3) and a cadence
deeper than a start queue (5, which the emitter refuses). The columns of a layer
differ in length, down to nothing. With stream sharing every fourth activation is
on the weight channel, as in the code, and its buffer holds one instead of eight,
so that small frames have a replay that fits, one that does not, a column to be
padded and one that is not; two dispatches of the frame are run.

Deadlock is checked except in `splicer_faults` (a chain that is poisoned, or whose
bounded runs are used up, leaves its threads nothing to do) and `engine_frames` (a
stream that has ended, or is not emitted, is over). Elsewhere,
where a system may stop for good, its last state has a stuttering step of its own
(`Released`, `Done`, `Exited`, `Ended`).

### Fairness

* `Broker`: weak fairness of the device thread and of `close` after its join.
  The steps end because `backend.wait` is given the call's `timeout_ms` and the
  other steps do not block, and `Sleep` is left only by a notification, which is
  what `AcceptedAnswered` tests. The run leaves out exceptions of `backend.wait`
  and `backend.start`: they end the thread, and the code promises nothing then.
* `BrokerLink`: the client inside a method, the reader, the sender and the
  service. Nothing makes the program call a method. The service's fairness is
  what `AcceptedAnswered` establishes of `Broker`.
* `BrokerServe`: the accept thread, the main thread, and accepted peers, which
  say what they came for. That last one is an assumption about other processes:
  `accept` reads one peer's first message at a time, and one that never speaks
  holds up everybody (listed under `hazards`).

* `Assistant`: the generator's steps, since replies are limited by a timer and
  dispatches by a timeout, and a consumer that goes on pulling; nothing makes a
  consumer begin, cancel or close.
* `EngineSequence`: the command processor, the channels and the cores take what
  they may. `WF_vars(Next)` says it for all of them: every step moves a counter
  on, a behaviour is finite, and none of them can be passed over for ever.

`SessionRing`, `KernelSplicer` and `DraftSteps` have safety properties only: waits
return by their timeout, locks are never waited for.

### What the violation runs show

Each is an execution of the code as it stands that contradicts a sentence of its
documentation (quoted under `findings`):

1. `link_oversized`: `submit` takes its ticket before it rejects a call larger
   than its slot; slots are tickets modulo depth but room is made by counting, so
   after a rejected submit two calls in flight share a slot and `wait` returns
   data of the wrong call.
2. `session_timeout`: a monolithic run without timestamps ignores what its waits
   return and reads the output BO of a command that has not completed.
3. `engine_tight`: with a `bd_budget` that binds, the hold of a drain is lowered for
   a fill that is not started yet, and freeing a descriptor for that fill awaits
   the drain. With the default budget this does not happen.

### Known divergences without a run

Five more can be had from the same modules by changing a configuration; they are
described here and have no run of their own.

* `MaxContexts = 1` in `Broker_faults.cfg`: `RoomForContext` fails. A call for another
  xclbin that is prepared while one runs finds no context to evict and is answered
  with an error.
* `LeaveFrom = {"said"}` in `BrokerServe_stays.cfg`: `ShutdownStops` fails. The reply to
  `hello` or `shutdown` is sent outside the `try`, so a peer killed in between ends
  the accept thread while the process waits on.
* `ResultIsOwn` for `ResultOwnIfPushed` in `Session_programs.cfg`: it fails, in
  the programs of two dispatches. `dispatch_kernel` returns the state of the first
  and both callers discard it (`session.py:877` and 1305). If it failed, the second
  still completes and drains what an earlier request pushed, or nothing anybody
  did, and `run` or `RunHandle.wait` returns that as the request's result.
* `Programs <- Busy` in `Session_programs.cfg`: `InputStable` and `ResultOwnIfPushed`
  fail. `benchmark` writes the BOs of a handle not yet waited for.
* `SoundRunsSucceed` as an invariant of `Splicer_faults.cfg`, with one runner and one
  host: it fails. The traffic counters are read before the locks are taken, so an
  access that is over in between is held against the run and poisons the chain.

### Hazards outside the list

The list under `hazards` keeps to one entry a mechanism. Not in it, being met by no
property: a profiler that is enabled on a monolithic run without timestamps
indexes an empty list (`session.py:1059`); constructing a splicer rebinds a
consumer's input and `close` does not undo it (`splice.py:312`); `serve` returns while
replies are still with daemon threads (`broker.py:463`).

## 5. Proofs

`BrokerProof` proves, for any sets of clients, xclbins and streams, any number of
calls, any `MaxContexts` in 1..4, any streak and any choice of faults (the
assumption `BrokerAssumption`):

| theorem | property |
|---|---|
| `Invariance` | `[]IInv` |
| `TypeCorrect` | `TypeOK` |
| `BuffersPrivate` | `LiveBuffersPrivate` |
| `ContextsOpen` | `LiveContextsOpen` |
| `RoomFound` | `RoomForContext`, given `MaxContexts > 1` |
| `OrderKept` | `ClientOrder` |
| `HeadServed` | `HeadNotStarved` |
| `Accounted` | `CallsAccounted` |
| `Drained` | `ExitDrained` |
| `TimedOutLeftAlone` | `UnhealthyLeavesDeviceAlone` |

The inductive invariant `IInv` (module `BrokerInv`) conjoins the type invariant
and three of the properties with what they need to be inductive:

* `ControlInv`: what the thread holds at each step (nothing prepared at the lock,
  health and `waitOk` agreeing). Without it a call could be prepared twice.
* `SentInv`: what is queued or in hand has been sent, so that a new call's number
  is new; with `ClientOrder` it makes identifiers unique.
* `StatusInv`, `HeldInv`: a call's status follows from where it is, both ways;
  together they are `CallsAccounted` and `ExitDrained`.
* `TurnInv`: the set a live call holds is not the one its context gives next.
  This is what makes two BO sets enough, and it is why eviction, which resets
  the turn, must spare live contexts (`LiveContextsOpen`).
* `SkipInv`: calls passed over are fewer than the streak's length, and a call
  taken out of order is of the current context with streak left; `HeadNotStarved`
  follows. It relates a decision made under the lock to a count advanced two
  steps later.

There is one lemma a device step, with one step a conjunct it can disturb.
`SeqLemmas` has the facts about `Append`, `RemoveAt` and `Contains` they use.

`BrokerProof` also proves `Refinement == Spec => ImplementsService`: under the
mapping that reads the service's `status` off the broker's, every step is a step
of `CallService` or changes nothing of it. A submission is a request; an empty
queue after a timeout drops what was in it; a start is the service's start, which
needs that nothing is running and that the client's earlier calls have started
(from `StatusInv` and `ClientOrder`); a wait is a return, in time or not.

`SplicerProof` proves, for any number of stages, runners and host threads (the
assumption `SpliceAssumption`), `Invariance`, `TypeCorrect` and:

| theorem | property |
|---|---|
| `HostsKeptOut` | `HostKeptOut` |
| `StagesOrdered` | `OneAtATime` |
| `ChainComplete` | `OutputComplete` |
| `FailureQuarantined` | `Quarantined` |
| `LocksGivenBack` | `LocksReturned` |

Its invariant (module `SplicerInv`) has four parts beside the types:

* `LockInv`: whose each buffer's lock is. A lock that a runner holds is one that
  the run in progress took, unless the chain has failed, when every lock is a
  runner's for good: this keeps hosts out after a timed-out stage.
* `ControlInv`: what the run has at each of its steps; from the submission on it
  holds every buffer.
* `CommandInv`: a command on the device is the one being waited for, or the run
  is failing. With `ControlInv` it gives `HostKeptOut` and `OneAtATime`.
* `FlowInv`: the buffers behind the current stage hold this run's upload, passed
  through as many stages as precede them; at the last it is `OutputComplete`. It
  needs `LockInv`, for no host may write behind the run's back.

`DraftProof` proves, for any programs and their sharing of contexts, any prompts,
tokens, positions and capacities, any limits of contexts and streams and with a
failure at any step (`SessionAssumption`, `DraftAssumption`, and `NoneAssumption`,
that None is not one of the values compared with it), `Invariance`, `TypeCorrect`
and:

| theorem | property |
|---|---|
| `FreshDispatches` | `DispatchFresh` |
| `ContextsHeld` | `ContextsOfHolder` |
| `ContextsBounded` | `ContextBound` |

Its invariant (module `DraftInv`) follows a packet from where its data is kept to
the device:

* `PrefixInv`: whichever of the bound buffer, the patches or the template's base the
  next step of a chain will use has the accepted prefix, unless `bodyPosition`
  says that it has changed. Positions alone do not tell two prompts of one length
  apart; that `InvalidatePrefix` clears the position with every request is what
  makes this inductive.
* `ArenaInv`: a materialized template holds the prefix it is filed under. It needs
  `CallInv`'s clause that a call which filed one is not of a bound chain, so that
  `Forget` clears the right one when the call fails.
* `CallInv`: what a call sends is what a fresh build would.
* `SnapshotTrue`: a snapshot is what its buffer holds, in every stream of every
  context; so pages that are skipped are right. Only the stream being dispatched
  is exempt, and a failure there closes the session and drops it.
* `CacheInv`: between `bind` and `run` the newest stream of the newest context is the
  call's.
* `LeaseInv`, `RoomInv`: contexts open on the device are those cached by the session
  that has the lease, and there is room before one is loaded.

`LinkProof` proves, for any number of slots, messages a pipe buffers and calls,
with a service that does with the calls whatever `CallService` allows and a client
that may be killed at any step (the assumption `LinkAssumption`), `LinkInvariant`,
`LinkTypes` and:

| theorem | property |
|---|---|
| `ArenaSafe` | `ArenaOutlivesCalls` |
| `RepliesOrdered` | `RepliesInOrder` |
| `SlotsOwn` | `[]SInv`, given `OversizedAssumption` |
| `LinkResultsOwn` | `ResultsAreOwn`, given `OversizedAssumption` |

`OversizedAssumption` is that a program submits a call too large for its slot, if
it does, with no call in flight. Without it the last two are false: that is the
finding of `link_oversized`. The invariant (module `LinkInv`) is in two parts.
`IInv` follows the calls and holds whatever is submitted:

* `PathInv`: cut into what the sender has sent, what is in its hands, what is queued
  for it, what is in the reader's hands and what it has not read, the calls on
  their way are the tickets in flight, one after the other. The counts `Replied`,
  `Taken`, `Held`, `Submitted` and `Read` are the cuts. `RepliesInOrder` follows.
* `AskInv`: the same while the client waits for statistics or for the answer to its
  goodbye, when no call may be anywhere.
* `TicketInv`, `CallInv`: the reader's calls are in the order of their tickets, each
  ticket once. The sender finds a reply by its ticket (`NumberOf`), so it is this
  that makes it report the right call; that the tickets grow is enough, they may
  have gaps.
* `ServiceInv`: a call the service has not finished is on the reader's list `mine`,
  or the one it has just submitted; with `StopSender`'s wait it gives
  `ArenaOutlivesCalls`.

`SInv` follows the slots, and needs `IInv`:

* `WindowInv`: the tickets in flight are consecutive and no more than the slots, so
  that their remainders differ. It is what a rejected submit with calls in flight
  breaks.
* `SlotInv`: a slot in flight holds its call's input until the device has copied it
  (`loaded` has it from then on), and the output computed from that copy when the
  service has answered "ok".

`SessionProof` proves, for any depth of the ring, number of stages and of requests
(the assumption `RingAssumption`), `RingInvariant`, `RingTypes` and:

| theorem | property |
|---|---|
| `ResultsOwn` | `ResultOwnIfPushed` |
| `InputsStable` | `InputStable` |
| `ClosedDrained` | `CloseDrained` |

each for programs whose last waits are looked at (`WaitsChecked`): no `benchmark`
with a handle unread, and no monolithic `run` without timestamps where a wait can
time out or a command fail. There `ResultOwnIfPushed` is false: the second is the
finding of `session_timeout`, the first a divergence described above. Every other
program of `MCSession` is covered, faults included. That the state of a first
dispatch is never looked at is part of what is proved about: a late one does no
harm, since the device takes commands in order, and one that failed is the
property's one exception (`Unpushed`), which does not spread to the requests
after it. The invariant (module `SessionInv`):

* `OwnedInv`: a command on the device is of a request that was given up, of the
  handle that keeps its slot, or of the method in progress. It bounds who may read
  a BO, and with it `InputStable` follows.
* `HandleInv`, `CallInv`: what a slot keeps until it is read. `Under` says how far the
  command waited for has got, by whether it is the last of its slot in the queue,
  has failed, or has written the BO last. A wait returns for a command that may
  have been passed by a late one of an older request: the device takes commands in
  order, so a later command of the same slot is still behind it, and this is what
  `Behind` says.
* `LastInv`, `StageInv`: the newest command is the one being waited for; between two
  stages nothing is on the device and the MemTile has the first one's data.
* `PushInv`: nothing gets to the ping-pong stage between the two dispatches of a
  request, late commands of older requests included: the first is directly before
  the second in the queue, or its input is what the MemTile holds, or it has
  failed. So the second leaves its own request's data in the BO unless the first
  failed (`Drawn`).
* `CloseInv`: handles that `close` has passed are free.

`AssistantProof` proves, for any tokens, prompts and target and any limits,
whatever raises, is cancelled, closed or dies (the assumption
`AssistantAssumption`), `AssistantInvariant`, `AssistantTypes` and:

| theorem | property |
|---|---|
| `RowsShared` | `SharedIsTarget` |
| `VerificationsSound` | `VerificationSound` |
| `NpuReturned` | `IdleReturned` |
| `CancelIsPrompt` | `CancelPrompt` |
| `StreamIsGreedy` | `ImplementsGreedy` |

The invariant (module `AssistantInv`):

* `TextInv`: the rows are those of the prompt and of what has been emitted, all of it
  or all but the last token, and the pending token is what the target predicts
  after them. It is the heart of the refinement: what is emitted next is what a
  target asked token by token would have said.
* `VerdictInv`: the verdict of a batch is the target's choice behind each of its
  tokens; the first that differs from the draft is the next pending token.
* `TargetInv`: the worker's memory is those rows, and nothing is rolled back behind
  the prompt.
* `ProposalsInv`: a draft is no longer than what may be emitted, so that the batch
  fits in the context.
* `OutputInv`, `LateInv`, `LeaseInv`, `WindowInv`, `RequestInv`, `CloseInv`, `ProcessInv`: what
  each of the four yields and the way out has given, leased and closed.

In `StreamIsGreedy` a chunk, of one token or of all that a verification accepted, is
an `Emit` of `Greedy`; `Generate` is its `Open`, the way out its `Stop`, and every other
step changes nothing of it.

`EngineProof` proves, for any number of columns, any frames of items of the four
kinds, any cadence of tokens, budget of descriptors and depth of queues, and
fifos of any depth (`ColsAssumption` and `SettingsAssumption`, which TLC evaluates for
the frames of `MCEngine`), `EngineInvariant`, `EngineTypes` and:

| theorem | property |
|---|---|
| `WorkspaceOrdered` | `NoHazard` |
| `DescriptorsDone` | `FreedIsDone` |
| `NoTokenLeft` | `TokensSpent` |
| `CoresOrdered` | `CoresInOrder`, given `LaidOut` |
| `BarrierDrains` | `BarrierClear`: no barrier meets a channel that cannot be retired |
| `ConflictsDrain` | `ConflictClear`: nor does a conflict of the tracker |

The last two say that three of the emitter's `RuntimeError`s are never raised
(`engine_sequence.py:1027`, 1146 and 1159); those of `ensure` can be, and the run
`engine_tight` shows the state before one. `BarrierClear` and `ConflictClear` are in
no run: TLC was used to check them, and every part of the invariants, on
`engine_frames` before they were proved.

`SettingsAssumption` types what a schedule may contain; the one thing it says beyond
that is that weight tasks of a build with overlap touch no cells of the workspace,
which the emitter enforces by refusing stream sharing there. The invariant
(module `EngineInv`):

* `TokenInv`: of every channel as many tokens have been taken as tasks with a token
  have left the queue. The token an await consumes may be that of another task,
  so this says nothing yet of the one that is freed.
* `UnitsInv`: a channel's tasks end in the order they were pushed. With `TokenInv` it
  gives `FreedIsDone`: were the first queued task with a token not complete, no
  later one would be either, the tokens put out would all belong to tasks that
  have left, and an await would find none to take.
* `FreedIsDone`, `LayerInv`: what is not complete is queued, and without overlap of the
  running layer; that is `NoHazard` for a build with barriers.
* For one with overlap, `HazardPushed` is the argument of the tracker: a task of an
  earlier layer that touches the cells is no newer than the newest one that does,
  and if that one is of the running layer, no newer than `Before`; no task up to the
  one named is queued when the next is started. `WeightsInv` excludes the weight
  channel, of which the tracker keeps no cells.
* `PartInv`: the emitter is at a task of an item, or at none.
* `EmptyInv`: queues are empty behind a barrier; with `TokenInv`, `TokensSpent`.

These theorems need of the device only that what a channel has moved never
decreases.

`CoresOrdered` needs the fifos, in that a core takes no activation that has not
arrived. `LaidOut` is its hypothesis: an item that carries activations carries the
next ones whose turn it is on its channel, in their order, and the count goes on
from one dispatch to the next. It says nothing of the device, of overlap or of the
order of the two channels, which is what the theorem is about. It follows
from what every build asserts (`check_stream_share` at `engine_compile.py:685`): a
position per quad, in increasing order on the stream its remainder says, each
position once, and whole periods of them. It is a hypothesis and not
proved of `StreamShare` since what `share_layer` computes would need induction over
the programs; TLC evaluates it for the frames of `MCEngine`. `OrderInv` needs `IInv`:

* `GivenInv`: the positions a channel has been started with are those of the items
  issued so far (`Placed`), so that the m-th of them is `Activation(ch, m)`: every
  `Period`-th activation is the m-th on the weight channel, the others fill the
  rest.
* `MarksInv`: a weight channel's units marked 0 are as many as the positions it was
  given, and the marks of the activation channel count the others; without it
  the device's count of arrivals would not be one of positions.
* `ConsumedInv`: what the cores have consumed has arrived on either channel. The k-th
  activation is then position `Shared(k)` of one or `Direct(k)` of the other, and by
  `GivenInv` it is activation k of the schedule.
* `BehindInv`: no item is left behind a barrier, which ties the layer's count to the
  programs'.

`CloseInv`, for the two theorems about the emitter's errors, also needs `IInv`:

* `IssuedInv`: the counter `issued` of a channel is the number of its parts that are
  behind the emitter's place. The token of a layer's last task is decided by
  comparing it with the total, and a comparison that is missed once would never
  be made again.
* `LayersInv`, `TailInv`: tasks are in the order of their layers, and a queue has the
  newest tasks of every channel, so the newest one is live if any is.
* `LastToken`, `EarlierToken`: the last task of a channel in a layer has a token, in
  this layer once all are pushed and in every earlier one.
* `HoldsInv`: nothing of an earlier layer is held, and nothing is at a barrier.

Only model-checked: the liveness properties (fairness and `ENABLED` are outside
the prover), among them that streams end (`FrameCompletes`), and everything about
`BrokerServe`, whose two properties are of that kind. `StreamShare` computes
with folds over finite data, and what it returns for every input would need
induction over it.

## 6. Not modelled

Inside the modelled components: statistics and timings; the bytes of a message
and the check that a call's BO shapes match those its xclbin was first used with
(all calls of one xclbin have one shape here); `serve`'s printing and ready
event; of the session, loading, stationary parameters, CPU partitions between
NPU calls, head decoding and profiling records; of the splicer, construction.
Exceptions of `backend.wait` and `backend.start` are modelled, as the death of the
device thread, and every safety property holds with them; what a client can
still expect afterwards is nothing, which the hazards list records.

Of the assistant: the agent's turn loop and its tools, rendering of text, the
worker's operations that change nothing, frames and tensors of its protocol, the
workers that keep a prefix (`worker_prefix.cpp`, `worker_blocks.cpp`: no frontend
selects them, and whether a kept prefix is worth a cold prefill is measured, and
for prompts of 511 tokens refuted, in `src/tools/ggml_gpu_target/README.md:93-105`),
`close()` from another thread while a stream is suspended. Of the packet session:
compilation, identities of files, evidence records, the comparison's arithmetic.
Of the engine: the choice of schedules and tilings, of patterns and box fills
(only their item counts are there), the activation ring, the resident weight
buffer and what belongs to them (items `R`, `B`, `T`, `S`), core-depth variants.
Quads are cut from a fill by count, and quads of the same cells stand for
patterns that merge. A weight object or activation is given back to its channel
when the cores have consumed it, later than the hardware may.

The map covers a small share of the repository, because most of it is outside
what this method says anything about: numerical kernels and their emulators,
quantization, code generation, and several hundred measurement scripts under
`src/tools` and `src/benchmarks`, each sequential and run by hand.
