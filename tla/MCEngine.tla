------------------------------ MODULE MCEngine ------------------------------
(***************************************************************************)
(* Small instances of Engine: requests with a prompt of two tokens, of     *)
(* which two are alike or none.                                            *)
(***************************************************************************)
EXTENDS Engine, TLC

CONSTANTS a, e, b1, b2, b3, s1, s2, s3, r1, r2, r3

\* Whatever a prompt can have become after preemptions.
MCPrompts == UNION {[1..n -> Token] : n \in 1..7}

MCMaxTokensTwo == [r \in Requests |-> 2]

MCPromptAlike == [r \in Requests |-> IF r = r3 THEN <<e, a>> ELSE <<a, a>>]
MCPromptDistinct == [r \in Requests |->
    CASE r = r1 -> <<a, a>> [] r = r2 -> <<a, e>> [] r = r3 -> <<e, a>>]
MCMaxTokensEven == [r \in Requests |-> IF r = r1 THEN 4 ELSE 3]

MCSymmetry == Permutations({b1, b2, b3}) \cup Permutations({s1, s2, s3})
=============================================================================
