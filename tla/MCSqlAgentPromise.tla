-------------------------- MODULE MCSqlAgentPromise --------------------------
(***************************************************************************)
(* Instances of SqlAgentPromise, with the LLM and the validator of         *)
(* MCSqlAgent.                                                             *)
(***************************************************************************)
EXTENDS SqlAgentPromise, TLC

CONSTANTS a, b, x

MCOutput == {a, b, x}
MCStatement == {"A", "B"}
MCExtract == (a :> "A") @@ (b :> "B") @@ (x :> None)
=============================================================================
