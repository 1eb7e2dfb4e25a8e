----------------------------- MODULE MCTracing -----------------------------
(* Instance of Tracing for TLC. *)
EXTENDS Tracing, TLC

\* LangFuse takes a call or fails it.
MCBestEffort == BOOLEAN

MCSymmetry == Permutations(Run)

=============================================================================
