-------------------------------- MODULE MCParts --------------------------------
(***************************************************************************)
(* Small instances of the parts.                                           *)
(***************************************************************************)
EXTENDS Parts

-----------------------------------------------------------------------------
MCLengths == {3, 5}
MCBudgets == {1, 3}
MCGpus == {1, 2, 4, 6, 7, 8, 12}
MCLayers == {1, 2, 3, 5, 8}
MCExperts == {0, 1, 2, 4, 8}
MCMaxTokens == [a |-> 2, b |-> 1]
MCPrompts == {1, 3, 4, 5}
MCAnswerLens == {0, 1, 5}
MCSteps == {0, 1, 2, 3, 7}
MCSides == 1..16
MCDisks == {32, 44, 60}

\* Two checkpoints: one of two shards, with an fp8 weight
\* whose scale is in the other shard and a fused projection; and a DiT.
Tensor(n, f, p) == [name |-> n, form |-> f, fp8 |-> p]
MCCheckpoint ==
    [llm |-> <<{Tensor("q", "linear", TRUE), Tensor("norm", "raw", FALSE)},
               {Tensor("q", "scale", FALSE), Tensor("qkvz", "fused", FALSE),
                Tensor("up", "narrow", FALSE)}>>,
     dit |-> <<{Tensor("mlp", "linear", FALSE), Tensor("embed", "raw", FALSE)}>>]
MCJobs == <<[repo |-> "llm", kind |-> "llm", bits |-> 8],
            [repo |-> "llm", kind |-> "llm", bits |-> 4],
            [repo |-> "dit", kind |-> "dit", bits |-> 8]>>

\* The layer patterns of the registered models, two layers of each, under the
\* engine and under ModelRunner; latent models under the engine are
\* MCAttention's.
MCModels == {<<"full", "window">>, <<"full", "full">>, <<"latent", "latent">>,
             <<"linear", "full">>, <<"conv", "full">>}
MCServed == (MCModels \X {"engine", "runner"}) \ {<<<<"latent", "latent">>, "engine">>}

\* Over an alphabet of four bytes: every payload of up to four one-byte or
\* two two-byte elements, and the sorted ones of six, more than the mass of the table.
MCPayloads ==
    [width : {1}, elements : UNION {[1..n -> [1..1 -> 0..3]] : n \in 1..4}]
    \cup [width : {2}, elements : UNION {[1..n -> [1..2 -> 0..3]] : n \in 1..2}]
    \cup [width : {1}, elements : {f \in [1..6 -> [1..1 -> 0..3]] : \A i \in 1..5 : f[i][1] <= f[i + 1][1]}]

=============================================================================
