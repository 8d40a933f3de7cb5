--------------------------- MODULE MCEngineWorker ---------------------------
(***************************************************************************)
(* Small instances of EngineWorker: requests of two tokens of prompt, and  *)
(* two or three to generate.                                               *)
(***************************************************************************)
EXTENDS EngineWorker

CONSTANTS a, e, b1, b2, s1, s2, r1, r2, r3

\* Whatever a prompt can have become after preemptions.
MCPrompts == UNION {[1..n -> Token] : n \in 1..5}

MCPrompt == [r \in Requests |-> IF r = r3 THEN <<e, a>> ELSE <<a, a>>]

MCMaxTokens == [r \in Requests |-> IF r = r1 THEN 3 ELSE 2]
=============================================================================
