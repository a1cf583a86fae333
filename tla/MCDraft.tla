------------------------------ MODULE MCDraft ------------------------------
(* An instance of DraftSteps for TLC: bodies, heads and controls are three  *)
(* programs, one more than the session may cache.                           *)
EXTENDS DraftSteps, TLC

CONSTANTS p1, p2, t1, t2
Renamings == Permutations({p1, p2}) \cup Permutations({t1, t2})

MCProgram(f) == CASE f[1] = "body" -> "body" [] f[1] = "head" -> "head"
                  [] OTHER -> "control"
=============================================================================
