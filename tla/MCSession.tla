----------------------------- MODULE MCSession -----------------------------
(* Programs that use a session, for TLC. *)
EXTENDS SessionRing

Dual(methods, benchmark, faults, n) ==
  [monolithic |-> FALSE, methods |-> methods, benchmark |-> benchmark,
   faults |-> faults, requests |-> n]
Staged(methods, faults) ==
  [monolithic |-> TRUE, methods |-> methods, benchmark |-> "never",
   faults |-> faults, requests |-> MaxReqs]

\* What the documentation shows and the tests do.
Usual ==
  {Dual({"run", "async"}, "never", TRUE, MaxReqs),
   Dual({"run", "async"}, "idle", TRUE, MaxReqs - 1),
   Staged({"maps"}, TRUE), Staged({"run", "maps"}, FALSE)}
\* A wait that times out in a run without timestamps.
Untimed == {Staged({"run"}, TRUE)}
\* benchmark while a handle is unread.
Busy == {Dual({"async"}, "anytime", FALSE, MaxReqs)}
=============================================================================
