----------------------------- MODULE MCToolGate -----------------------------
(* ToolGate alone, for the runs that end in a violation.                   *)
EXTENDS ToolGate, TLC

\* Calls in flight are interchangeable.
Interchangeable == Permutations(Calls)
=============================================================================
