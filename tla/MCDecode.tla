------------------------------ MODULE MCDecode ------------------------------
(***************************************************************************)
(* Small instances of Decode: three requests for two slots, of which two   *)
(* run at a time.                                                          *)
(***************************************************************************)
EXTENDS Decode

CONSTANTS a, e, s1, s2, s3, r1, r2, r3

MCPrompt == [r \in Requests |-> CASE r = r1 -> <<a>> [] r = r2 -> <<e, a>> [] r = r3 -> <<a, a>>]
MCMaxTokens == [r \in Requests |-> IF r = r3 THEN 3 ELSE 4]
MCFourTokens == [r \in Requests |-> 4]

\* A model whose next token depends on all of the context.
MCContexts == UNION {[1..n -> Token] : n \in 1..9}
MCArgmax == [w \in MCContexts |->
    IF Cardinality({i \in DOMAIN w : w[i] = a}) % 3 = 1 THEN e ELSE a]

MCModel(d, r, s) == [depths |-> d, recurrent |-> r, static |-> s]
MCModels == {MCModel(2, FALSE, TRUE), MCModel(0, TRUE, TRUE), MCModel(0, TRUE, FALSE)}
MCDrafting == {MCModel(2, FALSE, TRUE)}
=============================================================================
