----------------------------- MODULE MCSqlAgent -----------------------------
(***************************************************************************)
(* A small instance of SqlAgent: answers a and b whose statements the      *)
(* validator extracts as "A" and "B", and an answer x that it rejects.     *)
(***************************************************************************)
EXTENDS SqlAgent, TLC

CONSTANTS a, b, x

MCOutput == {a, b, x}
MCStatement == {"A", "B"}
MCExtract == (a :> "A") @@ (b :> "B") @@ (x :> None)

\* One statement is enough where overlapping calls are in focus.
MCOneOutput == {a, x}
MCOneStatement == {"A"}
MCOneExtract == (a :> "A") @@ (x :> None)

MCSymmetry == Permutations(Call) \cup Permutations(Thread)
=============================================================================
