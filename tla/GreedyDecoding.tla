--------------------------- MODULE GreedyDecoding ---------------------------
(***************************************************************************)
(* What decoding promises of a request at temperature 0, however its       *)
(* tokens are computed: "greedy spec-decode must return the SAME token     *)
(* stream as non-spec greedy" (EngineRunner._spec_decode_eager).           *)
(***************************************************************************)
EXTENDS Integers, Sequences, SequencesExt

CONSTANTS Requests, Prompt, MaxTokens, IgnoreEos, Eos, Sampled, Argmax

VARIABLE output_ids

\* The tokens of plain greedy decoding: each the most likely one after the
\* prompt and the tokens before it.
IsGreedy(r, out) ==
    \A i \in DOMAIN out : out[i] = Argmax[Prompt[r] \o SubSeq(out, 1, i - 1)]

\* Nothing comes after max_tokens or after eos_id.
StopsInTime(r, out) ==
    /\ Len(out) <= MaxTokens[r]
    /\ \A i \in 1..Len(out) - 1 : out[i] = Eos => r \in IgnoreEos

Init == output_ids = [r \in Requests |-> <<>>]

\* Outputs grow, by any number of tokens.
Next ==
    \A r \in Requests :
        /\ IsPrefix(output_ids[r], output_ids'[r])
        /\ r \notin Sampled => IsGreedy(r, output_ids'[r])
        /\ StopsInTime(r, output_ids'[r])

Spec == Init /\ [][Next]_output_ids
=============================================================================
