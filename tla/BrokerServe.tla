---------------------------- MODULE BrokerServe ----------------------------
(***************************************************************************)
(* The broker process of runtime/broker.py: serve() with its accept thread *)
(* and the main thread that waits for the stop event, and the processes    *)
(* that dial in: clients, shutdown(), and holders of a wrong key.  What is *)
(* done for a served client is module BrokerLink; broker.close() returns   *)
(* (CloseReturns of module Broker).                                        *)
(***************************************************************************)
EXTENDS FiniteSets, Integers

CONSTANTS
  Peers,     \* processes that dial in, each once
  Leavers,   \* those that may be killed before they are served
  LeaveFrom  \* and where: in the backlog, before or after they said something

ASSUME ServeAssumption ==
  /\ Leavers \subseteq Peers
  /\ LeaveFrom \subseteq {"dialled", "accepted", "said"}

VARIABLES
  peer,      \* how far each peer is
  says,      \* what it has come to say
  backlog,   \* peers the listener has not accepted
  acc,       \* the accept thread
  conn,      \* the peer it has accepted
  stop,      \* the stop event
  main       \* the main thread

vars == <<peer, says, backlog, acc, conn, stop, main>>

Ops == {"hello", "shutdown", "badkey"}

Init ==
  /\ peer = [p \in Peers |-> "out"]
  /\ says \in [Peers -> Ops]
  /\ backlog = {} /\ conn \in Peers
  /\ acc = "test" /\ stop = FALSE /\ main = "wait"

Alive == main # "exited"
Gone(p) == peer[p] = "gone"
Become(p, s) == peer' = [peer EXCEPT ![p] = s]

-----------------------------------------------------------------------------
(* The other processes.                                                    *)

Dial(p) ==
  /\ Alive /\ peer[p] = "out"
  /\ Become(p, "dialled")
  /\ backlog' = backlog \cup {p}
  /\ UNCHANGED <<says, acc, conn, stop, main>>

\* After the handshake of the key.
Say(p) ==
  /\ Alive /\ peer[p] = "accepted"
  /\ Become(p, "said")
  /\ UNCHANGED <<says, backlog, acc, conn, stop, main>>

Leave(p) ==
  /\ p \in Leavers /\ peer[p] \in LeaveFrom
  /\ Become(p, "gone")
  /\ UNCHANGED <<says, backlog, acc, conn, stop, main>>

-----------------------------------------------------------------------------
(* The accept thread.                                                      *)

\* Fault: the wrong key ends the thread.
AcceptOrDie(p) ==
  /\ Alive /\ acc = "accept" /\ p \in backlog
  /\ backlog' = backlog \ {p}
  /\ IF Gone(p) \/ says[p] = "badkey"
     THEN acc' = "dead" /\ UNCHANGED <<conn, peer>>
     ELSE acc' = "recv" /\ conn' = p /\ Become(p, "accepted")
  /\ UNCHANGED <<says, stop, main>>

Test ==
  /\ Alive /\ acc = "test"
  /\ acc' = IF stop THEN "ended" ELSE "accept"
  /\ UNCHANGED <<peer, says, backlog, conn, stop, main>>

\* listener.accept(): the key is checked; what fails is skipped.
Accept(p) ==
  /\ Alive /\ acc = "accept" /\ p \in backlog
  /\ backlog' = backlog \ {p}
  /\ IF Gone(p) \/ says[p] = "badkey"
     THEN acc' = "test" /\ UNCHANGED <<conn, peer>>
     ELSE acc' = "recv" /\ conn' = p /\ Become(p, "accepted")
  /\ UNCHANGED <<says, stop, main>>

\* conn.recv(): what the peer says, or EOFError.
Recv ==
  /\ Alive /\ acc = "recv" /\ peer[conn] \in {"said", "gone"}
  /\ acc' = IF Gone(conn) THEN "test" ELSE says[conn]
  /\ UNCHANGED <<peer, says, backlog, conn, stop, main>>

\* Fault: the answer goes out, the event is not set.
AnswerShutdownOnly ==
  /\ Alive /\ acc = "shutdown"
  /\ acc' = "ended" /\ Become(conn, "told")
  /\ UNCHANGED <<says, backlog, conn, stop, main>>
\* conn.send, and only then stop.set(): a peer that did not wait for the
\* answer makes the send raise, and nothing catches it.
AnswerShutdown ==
  /\ Alive /\ acc = "shutdown"
  /\ IF Gone(conn)
     THEN acc' = "dead" /\ UNCHANGED <<peer, stop>>
     ELSE acc' = "ended" /\ Become(conn, "told") /\ stop' = TRUE
  /\ UNCHANGED <<says, backlog, conn, main>>

\* The same send, then a thread of its own for the client.
AnswerHello ==
  /\ Alive /\ acc = "hello"
  /\ IF Gone(conn)
     THEN acc' = "dead" /\ UNCHANGED peer
     ELSE acc' = "test" /\ Become(conn, "served")
  /\ UNCHANGED <<says, backlog, conn, stop, main>>

AcceptThread ==
  Test \/ (\E p \in Peers : Accept(p)) \/ Recv \/ AnswerShutdown \/ AnswerHello

-----------------------------------------------------------------------------
(* The main thread.                                                        *)

\* Ctrl+C, Ctrl+Break, SIGTERM.
Signal ==
  /\ Alive /\ ~stop
  /\ stop' = TRUE
  /\ UNCHANGED <<peer, says, backlog, acc, conn, main>>

\* broker.close(), listener.close(), return; the daemon threads end with it.
Main ==
  /\ \/ main = "wait" /\ stop /\ main' = "closing"
     \/ main = "closing" /\ main' = "exited"
  /\ UNCHANGED <<peer, says, backlog, acc, conn, stop>>

-----------------------------------------------------------------------------

Exited == ~Alive /\ UNCHANGED vars

Next ==
  \/ \E p \in Peers : Dial(p) \/ Say(p) \/ Leave(p)
  \/ AcceptThread \/ Signal \/ Main \/ Exited

Spec == Init /\ [][Next]_vars

\* Both threads run, and a peer that was accepted says what it came for.
FairSpec ==
  /\ Spec /\ WF_vars(AcceptThread) /\ WF_vars(Main)
  /\ \A p \in Peers : WF_vars(Say(p))
-----------------------------------------------------------------------------
(* Properties.                                                             *)

\* "Stopping: the shutdown command, Ctrl+C or Ctrl+Break.  Each lets the
\* running call finish, then releases every BO and context and exits 0": a
\* peer that dials in to shut the broker down, and stays, sees it exit.
ShutdownStops ==
  \A p \in Peers \ Leavers :
    peer[p] # "out" /\ says[p] = "shutdown" ~> main = "exited"

\* A client that dials in with the right key, and stays, is served unless
\* the broker stops, whoever dials in before it.
ClientServed ==
  \A p \in Peers \ Leavers :
    peer[p] # "out" /\ says[p] = "hello" ~> peer[p] = "served" \/ stop
=============================================================================
