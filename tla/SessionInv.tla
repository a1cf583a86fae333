----------------------------- MODULE SessionInv -----------------------------
(***************************************************************************)
(* The inductive invariant behind the safety properties of SessionRing:    *)
(* whose the commands on the device are, what the BOs of a slot hold until *)
(* its request has been read, and how far the command that a wait is for   *)
(* can have got.                                                           *)
(***************************************************************************)
EXTENDS SessionRing

\* What programs may not do: use benchmark while a handle is unread, and call
\* a monolithic session's run without timestamps where waits can time out or
\* commands fail.  The code ignores the outcome of that wait.
WaitsChecked ==
  \A p \in Programs :
    /\ p.benchmark # "anytime"
    /\ p.monolithic /\ p.faults => "run" \notin p.methods

\* What a BO holds that command n of request r wrote, or, for 0, its input.
Wrote(r, n) == [of |-> r, cmd |-> n]

Content == [of : Int, cmd : Nat]
Command == [of : Nat, cmd : Nat, slot : Slots]

\* The places of the host thread.
Dispatching == {"dispatch", "wait", "read"}
Preparing   == {"recycle", "fill"}
Calling     == Preparing \cup Dispatching
Timing      == {"round", "roundwait", "rounddrain"}

TypeOK ==
  /\ program \in Programs
  /\ hpc \in {"idle", "closing"} \cup Calling \cup Timing
  /\ op \in {"run", "async", "maps", "bench"}
  /\ req \in Nat /\ k \in Nat /\ issued \in 0 .. MaxReqs
  /\ cur \in Slots
  /\ handle \in [Slots -> Reqs \cup {Free}]
  /\ place \in [Reqs -> Slots]
  /\ bin \in [Slots -> Content] /\ bout \in [Slots -> Content]
  /\ queue \in Seq(Command) /\ failed \subseteq Command
  /\ mem \in Content
  /\ result \in [Reqs -> Content]
  /\ lost \subseteq Reqs /\ closed \in BOOLEAN

\* A method belongs to the session's kind, and works for the newest request.
ControlInv ==
  /\ hpc \in Calling => op \in program.methods
  /\ hpc \in Timing => ~ Monolithic /\ k # 0
  /\ hpc \in Calling \cup Timing => req = issued /\ req \in Reqs
  /\ hpc \in Preparing => k = 1
  /\ hpc \in {"dispatch", "wait"} => k \in 1 .. Commands
  /\ hpc = "wait" => op # "async" \/ k < Commands
  /\ hpc = "read" => k = Commands /\ op # "async"
  /\ hpc = "closing" => k <= Depth
  /\ closed => hpc = "idle"
  /\ lost # {} => hpc = "closing" \/ closed
  /\ ~ Faults => failed = {}

\* A request that was never made, or is still being dispatched, has no result.
NothingYet ==
  /\ \A r \in Reqs : r > issued => result[r] = Nothing
  /\ hpc \in Calling => result[req] = Nothing

\* A command on the device is of a request that was given up, or of the handle
\* that keeps its slot, or of the method in progress.
Abandoned(r) == result[r] = Raised \/ r \in lost
Unread(s) == handle[s] # Free /\ ~ Cached(handle[s])
OwnedInv ==
  \A i \in 1 .. Len(queue) :
    LET c == queue[i]
    IN  /\ c.of \in 1 .. issued
        /\ \/ Abandoned(c.of)
           \/ handle[c.slot] = c.of /\ Unread(c.slot)
           \/ c.of = req /\ hpc \in {"dispatch", "wait"} /\ c.slot = cur
           \/ /\ c.of = req /\ hpc \in Timing
              /\ bin[c.slot] = Wrote(req, 0)

\* The last command on the device is the one the host dispatched last.
LastInv ==
  queue # <<>> =>
    /\ hpc = "wait" => queue[Len(queue)] = Cmd(req, k, cur)
    /\ hpc \in {"roundwait", "rounddrain"} => queue[Len(queue)] = BenchCmd(k)
    /\ hpc # "read"

\* What c leaves in the output BO b, f being what failed in program p: of two
\* dispatches the first drains an earlier request's data, and so does the
\* second if the first pushed nothing.
Drawn(p, f, b, c) ==
  /\ b.cmd = c.cmd
  /\ b.of # c.of => ~p.monolithic /\ (c.cmd # 2 \/ Cmd(c.of, 1, c.slot) \in f)

\* How far a command has got, q being what is on the device: it is there with
\* none behind it in its slot, or it has failed, or it was the last that wrote
\* the BO.
Behind(q, s, i) == \A j \in i + 1 .. Len(q) : q[j].slot # s
Under(p, q, f, b, c) ==
  \/ \E i \in 1 .. Len(q) : q[i] = c /\ Behind(q, c.slot, i)
  \/ Behind(q, c.slot, 0) /\ c \in f
  \/ Behind(q, c.slot, 0) /\ Drawn(p, f, b, c)

\* A handle that has not been read keeps both BOs of its slot.
HandleInv ==
  \A s \in Slots :
    LET r == handle[s]
    IN  r # Free =>
          /\ ~ Monolithic /\ r \in 1 .. issued /\ place[r] = s
          /\ hpc \in Calling \cup Timing => r # req
          /\ result[r] # Raised
          /\ ~ Cached(r) =>
               /\ hpc \notin Timing
               /\ bin[s] = Wrote(r, 0)
               /\ Under(program, queue, failed, bout[s], Cmd(r, Commands, s))

\* So does the method in progress.
CallInv ==
  /\ hpc \in Dispatching \cup {"fill"} => handle[cur] = Free
  /\ hpc \in Dispatching =>
       place[req] = cur /\ bin[cur] = Wrote(req, 0)
  /\ hpc = "wait" =>
       Under(program, queue, failed, bout[cur], Cmd(req, k, cur))
  /\ hpc = "read" =>
       Drawn(program, failed, bout[cur], Cmd(req, Commands, cur))

\* Between two stages the MemTile has what the first left: each stage was
\* waited for before the next one was dispatched.
StageInv ==
  Monolithic =>
    /\ hpc = "dispatch" /\ k > 1 => queue = <<>> /\ mem.of = req
    /\ hpc = "wait" /\ k > 1 =>
         /\ queue # <<>> => Len(queue) = 1
         /\ mem.of = req
    /\ hpc = "wait" /\ queue = <<>> /\ Cmd(req, k, cur) \notin failed =>
         mem.of = req

\* Between the two dispatches of request r, with input BO s, nothing else gets
\* to the ping-pong stage: the first is right before the second, which is at i,
\* or it has pushed, or it has failed.
Pushed(r, s) == mem.of = r \/ Cmd(r, 1, s) \in failed
Fed(i, r, s) ==
  queue[i] = Cmd(r, 2, s) =>
    IF i = 1 THEN Pushed(r, s) ELSE queue[i - 1] = Cmd(r, 1, s)
PushInv ==
  ~Monolithic =>
    /\ \A s \in Slots, i \in 1 .. Len(queue) :
         Unread(s) => Fed(i, handle[s], s)
    /\ hpc \in {"dispatch", "wait"} =>
         \A i \in 1 .. Len(queue) : Fed(i, req, cur)
    /\ hpc = "wait" /\ k = 1 /\ queue = <<>> => Pushed(req, cur)
    /\ hpc = "dispatch" /\ k = 2 =>
         IF queue = <<>> THEN Pushed(req, cur)
                         ELSE queue[Len(queue)] = Cmd(req, 1, cur)

\* close has let go of the handles it has passed.
CloseInv ==
  /\ hpc = "closing" => \A s \in Slots : s < k => handle[s] = Free
  /\ closed => \A s \in Slots : handle[s] = Free

IInv ==
  /\ TypeOK /\ ControlInv /\ NothingYet /\ OwnedInv /\ LastInv /\ HandleInv
  /\ CallInv /\ StageInv /\ PushInv /\ CloseInv /\ ResultOwnIfPushed
=============================================================================
