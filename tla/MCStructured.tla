----------------------------- MODULE MCStructured -----------------------------
(***************************************************************************)
(* A small instance of Structured: three requests on two blocks; while one  *)
(* is queued a running one is preempted.                                   *)
(***************************************************************************)
EXTENDS Structured, TLC

CONSTANTS a, e, b1, b2, s1, s2, s3, r1, r2, r3

\* Whatever a prompt can have become after preemptions.
MCPrompts == UNION {[1..n -> Token] : n \in 1..7}

MCPrompt == [r \in Requests |-> IF r = r3 THEN <<e, a>> ELSE <<a, a>>]
MCMaxTokens == [r \in Requests |-> IF r = r1 THEN 4 ELSE 3]

MCSymmetry == Permutations({b1, b2}) \cup Permutations({s1, s2, s3})
=============================================================================
