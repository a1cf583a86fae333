------------------------------ MODULE MCBroker ------------------------------
(* Instances of Broker for TLC. *)
EXTENDS BrokerInv

CONSTANT MaxTotal   \* bound on the calls of all clients together

\* Clients, xclbins and streams are only ever compared with each other.
Symmetry ==
  Permutations(Clients) \cup Permutations(Xclbins) \cup Permutations(Streams)

FewCalls == MapThenSumSet(LAMBDA c : sent[c], Clients) <= MaxTotal
=============================================================================
