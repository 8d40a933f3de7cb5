------------------------------ MODULE MCPipeline ------------------------------
(***************************************************************************)
(* A small instance of Pipeline: three requests with prompts of two or     *)
(* three tokens, two of which begin alike; micro-batches of two.           *)
(***************************************************************************)
EXTENDS Pipeline, TLC

CONSTANTS a, e, b1, b2, b3, b4, s1, s2, s3, r1, r2, r3

\* Whatever a prompt can have become after preemptions.
MCPrompts == UNION {[1..n -> Token] : n \in 1..8}

MCPrompt == [r \in Requests |-> IF r = r3 THEN <<a, a, e>> ELSE <<a, a>>]
MCMaxTokens == [r \in Requests |-> IF r = r1 THEN 3 ELSE 2]

MCSymmetry == Permutations({b1, b2, b3, b4}) \cup Permutations({s1, s2, s3})
=============================================================================
