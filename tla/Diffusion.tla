------------------------------ MODULE Diffusion ------------------------------
(***************************************************************************)
(* engine/decode_strategy.py and the diffusion branch of LLMEngine.step:   *)
(* the sequences of a prefill batch are generated one after the other,     *)
(* each by a number of denoising rounds over a canvas of prompt and masks. *)
(*                                                                         *)
(* The layers attend in both directions (models/diffusion_gemma.py), so a  *)
(* position is decided from everything that was decided before the forward *)
(* its logits come from.  Which tokens, and which positions the model is   *)
(* most confident about, is free.                                          *)
(***************************************************************************)
EXTENDS Integers, Sequences, FiniteSets

CONSTANTS
    PromptLens,  \* lengths of the prompts of a batch
    MaxTokens,   \* values of params.max_tokens
    Steps,       \* values of num_steps
    BlockSize,   \* cache.block_size
    NBlocks      \* blocks of the pool

\* What the parameters of a request and the size of a cache are.
DiffusionConstants ==
    /\ PromptLens \subseteq Nat /\ MaxTokens \subseteq Nat /\ Steps \subseteq Nat
    /\ BlockSize \in Nat \ {0} /\ NBlocks \in Nat

VARIABLE diff

Members == 1..2

\* A batch as the scheduler admits it, each prompt in its blocks.
Init ==
    \E n \in [Members -> PromptLens], m \in [Members -> MaxTokens], s \in Steps :
        diff = [pc |-> "reserve", prompt |-> n, max |-> m, steps |-> s, at |-> 1,
                free |-> NBlocks, blocks |-> [i \in Members |-> 0],
                length |-> [i \in Members |-> 0], stored |-> {}, finished |-> {},
                masked |-> {}, step |-> 0, forwards |-> 0, before |-> {},
                decided |-> [i \in Members |-> <<>>], rounds |-> <<>>,
                output |-> [i \in Members |-> <<>>]]

At == diff.at
Total == diff.prompt[At] + diff.max[At]
Canvas == 0..Total - 1
Generated == diff.prompt[At]..Total - 1
BlocksFor(n) == (n + BlockSize - 1) \div BlockSize

\* ensure_capacity for prompt and answer, or its exception; length; the
\* masked canvas.
Reserve ==
    LET need == BlocksFor(Total) - diff.blocks[At] IN
    /\ diff.pc = "reserve"
    /\ diff' = IF need > diff.free THEN [diff EXCEPT !.pc = "dead"]
               ELSE [diff EXCEPT
                    !.pc = "forward", !.free = @ - need, !.blocks[At] = @ + need,
                    !.length[At] = Total, !.masked = Generated, !.step = 0,
                    !.forwards = 0, !.rounds = <<>>,
                    !.decided[At] = [p \in Canvas |-> {}]]

\* _forward_for_logits over the canvas as it is.
Forward ==
    /\ diff.pc = "forward"
    /\ diff' = [diff EXCEPT !.pc = "round", !.forwards = @ + 1, !.before = diff.masked]

\* Counts one round too many to come.
FaultyShare(remaining, left) ==
    LET n == IF remaining \div (left + 1) > 1 THEN remaining \div (left + 1) ELSE 1 IN
    IF n < remaining THEN n ELSE remaining

\* n_unmask
Share(remaining, left) ==
    LET n == IF remaining \div left > 1 THEN remaining \div left ELSE 1 IN
    IF n < remaining THEN n ELSE remaining

\* Writes the positions of S, from the last forward.
Decide(S) == [p \in Canvas |-> IF p \in S
                               THEN diff.decided[At][p] \cup {<<diff.forwards, diff.before>>}
                               ELSE diff.decided[At][p]]

\* A round: the most confident positions get their token.
Unmask(S) ==
    /\ diff.pc = "round"
    /\ diff.masked # {}
    /\ diff.step < diff.steps
    /\ Cardinality(S) = Share(Cardinality(diff.masked), diff.steps - diff.step)
    /\ diff' = [diff EXCEPT
            !.pc = IF S = diff.masked THEN "emit" ELSE "forward",
            !.masked = @ \ S, !.step = @ + 1, !.decided[At] = Decide(S),
            !.rounds = Append(@, Cardinality(S))]

\* After the rounds: what is still masked is drawn at once.
Leftover ==
    /\ diff.pc = "round"
    /\ diff.masked = {} \/ diff.step = diff.steps
    /\ diff' = [diff EXCEPT !.pc = "emit", !.masked = {}, !.decided[At] = Decide(diff.masked)]

\* output_ids.extend, store_prefix; then the next member or postprocess.
Emit ==
    /\ diff.pc = "emit"
    /\ diff' = [diff EXCEPT
            !.output[At] = [i \in 1..diff.max[At] |-> diff.prompt[At] + i - 1],
            !.stored = @ \cup {At},
            !.at = IF At = Cardinality(Members) THEN At ELSE At + 1,
            !.pc = IF At = Cardinality(Members) THEN "post" ELSE "reserve"]

\* postprocess: each has reached max_tokens, so all are finished and freed.
Postprocess ==
    /\ diff.pc = "post"
    /\ diff.finished # Members
    /\ \E i \in Members \ diff.finished :
        /\ Len(diff.output[i]) >= diff.max[i]
        /\ \A j \in Members \ diff.finished : i <= j
        /\ diff' = [diff EXCEPT !.finished = @ \cup {i},
                                !.free = @ + diff.blocks[i], !.blocks[i] = 0]

Done ==
    /\ diff.pc = "dead" \/ diff.finished = Members
    /\ UNCHANGED diff

Next ==
    \/ Reserve
    \/ Forward
    \/ \E S \in SUBSET diff.masked : Unmask(S)
    \/ Leftover
    \/ Emit
    \/ Postprocess
    \/ Done

-----------------------------------------------------------------------------
\* When a canvas is emitted every generated position was decided exactly
\* once, no prompt position was, and each from a forward that saw every
\* earlier decision; there were no more forwards than steps (one, if there
\* are none), and no round decided more than its fair share; at the end the
\* pool has all its blocks back.
CanvasIsDecided ==
    /\ diff.pc = "emit" =>
        /\ diff.masked = {}
        /\ \A p \in Canvas : Cardinality(diff.decided[At][p]) = IF p \in Generated THEN 1 ELSE 0
        /\ \A p, q \in Generated : \A x \in diff.decided[At][p], y \in diff.decided[At][q] :
            x[1] < y[1] => q \in x[2] /\ p \notin y[2]
        /\ diff.forwards <= IF diff.steps > 1 THEN diff.steps ELSE 1
        /\ \A i \in DOMAIN diff.rounds :
            diff.rounds[i] <= (diff.max[At] + diff.steps - 1) \div diff.steps
        /\ diff.length[At] = Total /\ diff.blocks[At] = BlocksFor(diff.length[At])
    /\ diff.finished = Members => diff.free = NBlocks
=============================================================================
