----------------------------- MODULE Attention -----------------------------
(***************************************************************************)
(* layers/*_attn*.py, models/cache.py, models/runner.py and the readers of *)
(* engine/kv_cache.py: which tokens the output of a layer at a position is *)
(* computed from, on every path a forward pass can take.                   *)
(*                                                                         *)
(* One sequence runs through the layers of a model, one action a layer.    *)
(* Token p is the input at position p; a draft that will be rejected is    *)
(* -p - 1.  Projections, norms, RoPE, gates and softmax act on each token  *)
(* or over what is seen; the kernels of fni8 are causal over the keys they *)
(* are given and honour a window they are given.                           *)
(***************************************************************************)
EXTENDS Integers, Sequences, FiniteSets

CONSTANTS
    Served,    \* pairs of a model, a tuple of layer Kinds, and the path that runs it
    Prompts,   \* prompt lengths
    MaxLen,    \* length at which generation ends
    Chunk,     \* EngineRunner._chunk_size
    Window,    \* window_left of a sliding-window layer, its own key included
    Kernel,    \* conv_kernel
    Drafts     \* speculative tokens of a verify forward

Kinds == {"full", "window", "latent", "linear", "conv"}

VARIABLE att

Recurrent(model) == \E l \in DOMAIN model : model[l] \in {"linear", "conv"}
Latent(model) == \E l \in DOMAIN model : model[l] = "latent"

\* What these parameters are.  A model with latent layers runs under
\* ModelRunner only: under LLMEngine its history is lost (MCAttention).
AttentionConstants ==
    /\ Served \subseteq Seq(Kinds) \X {"engine", "runner"}
    /\ \A served \in Served : Latent(served[1]) => served[2] = "runner"
    /\ MaxLen \in Nat /\ Prompts \subseteq 1..MaxLen
    /\ Chunk \in Nat \ {0} /\ Window \in Nat \ {0} /\ Kernel \in Nat \ {0} /\ Drafts \in Nat

Span(a, b) == [i \in 1..(IF b > a THEN b - a ELSE 0) |-> a + i - 1]

\* The engine may find a prefix in the cache: its K/V is there before the
\* prefill and is not written again.  `length` is the position of the sequence,
\* `rows` the length that KVCache and MLALatentCache keep themselves.
Init ==
    \E served \in Served, n \in Prompts, start \in {0, Chunk} :
        LET model == served[1] path == served[2] IN
        /\ path = "runner" \/ Recurrent(model) \/ Latent(model) => start = 0
        /\ start < n
        /\ att = [model |-> model, path |-> path, prompt |-> n, start |-> start,
                  mode |-> "none", layer |-> 0, from |-> 0, to |-> 0, right |-> 0, off |-> 0,
                  length |-> 0, rows |-> 0,
                  store |-> [l \in DOMAIN model |->
                        [p \in 0..MaxLen - 1 |-> IF p < start THEN p ELSE MaxLen]],
                  acc |-> [l \in DOMAIN model |-> <<>>],
                  state |-> [l \in DOMAIN model |-> <<>>],
                  saw |-> [l \in DOMAIN model |-> [p \in 0..MaxLen - 1 |-> {}]]]

-----------------------------------------------------------------------------
(* Forward passes *)

Forward(mode, from, to) == [att EXCEPT !.mode = mode, !.layer = 1, !.from = from, !.to = to,
                                       !.right = to]

\* The prompt in one pass; with others in one packed pass, `off` tokens of
\* theirs before it; or its next chunk.
Whole == att.length = 0 /\ att' = Forward("whole", 0, att.prompt)

Packed ==
    /\ att.path = "engine" /\ ~Recurrent(att.model) /\ ~Latent(att.model) /\ att.length = 0
    /\ "window" \notin {att.model[l] : l \in DOMAIN att.model}
    /\ \E off \in {0, 2} : att' = [Forward("packed", 0, att.prompt) EXCEPT !.off = off]

Chunked ==
    /\ att.path = "engine" /\ att.prompt > Chunk
    /\ att.length < att.prompt /\ att.length % Chunk = 0
    /\ att' = Forward("chunk", att.length,
                      IF att.length + Chunk < att.prompt THEN att.length + Chunk ELSE att.prompt)

\* One token; `simple` is ModelRunner.decode.
DecodeOne ==
    /\ att.length >= att.prompt /\ att.length < MaxLen
    /\ att' = Forward(IF att.path = "engine" THEN "batched" ELSE "simple",
                      att.length, att.length + 1)

\* A base token and its drafts, of which the first ones may be right.
Verify ==
    /\ att.path = "engine" /\ ~Recurrent(att.model) /\ ~Latent(att.model)
    /\ "window" \notin {att.model[l] : l \in DOMAIN att.model}
    /\ att.length >= att.prompt /\ att.length + Drafts < MaxLen
    /\ \E ok \in 0..Drafts :
        att' = [Forward("verify", att.length, att.length + 1 + Drafts)
                    EXCEPT !.right = att.length + 1 + ok]

Start == att.layer = 0 /\ (Whole \/ Packed \/ Chunked \/ DecodeOne \/ Verify)

-----------------------------------------------------------------------------
(* One layer *)

Kind == att.model[att.layer]
Token(p) == IF p < att.right THEN p ELSE -p - 1
Inputs == Span(att.from, att.to)

\* Causal attention of the last queries over `keys`, windowed.
Causal(keys, back, window) ==
    LET at == Len(keys) - back IN
    {keys[i] : i \in {i \in 1..at : window => i > at - Window}}

\* read_dense(length, window): the committed rows at the end.
ReadDense(store, length, window) ==
    {store[p] : p \in {p \in 0..length - 1 : window => p >= length - Window}}

\* attn_int8_varlen: the query's own segment of cu_seqlens.
Segment(p) ==
    LET packed == [i \in 1..att.off |-> -1] \o Span(0, att.prompt)
        first  == att.off + 1 IN
    {packed[i] : i \in first..att.off + p + 1}

\* K/V after the layer's write: all inputs, but none of a shared prefix; the
\* packed write does not skip it.
Written(store) ==
    [p \in 0..MaxLen - 1 |->
        IF p \in att.from..att.to - 1 /\ (p >= att.start \/ att.mode = "packed")
        THEN Token(p) ELSE store[p]]

\* GQAAttention.forward, GatedGQAAttention.forward.
GqaSees(p, store, acc) ==
    LET window == Kind = "window" IN
    CASE att.mode = "whole"   -> Causal(Inputs, att.to - 1 - p, window)
      [] att.mode = "chunk"   -> Causal(acc \o Inputs, att.to - 1 - p, window)
      [] att.mode = "packed"  -> Segment(p)
      [] att.mode = "batched" -> ReadDense(store, att.from + 1, window)
      [] att.mode = "simple"  -> ReadDense(store, att.rows + 1, window)
      [] att.mode = "verify"  -> \* build_verify_cache: prefix, then the tokens of this pass
            ReadDense(store, att.from, FALSE) \cup {Token(q) : q \in att.from..p}

\* MLALatentCache: a prefill writes from the first row on, a decode at `rows`.
LatentWritten(store) ==
    LET first == IF att.mode \in {"batched", "simple"} THEN att.rows ELSE 0 IN
    [p \in 0..MaxLen - 1 |->
        IF p - first + 1 \in DOMAIN Inputs THEN Inputs[p - first + 1] ELSE store[p]]

\* MLAAttention.forward
MlaSees(p, store) ==
    IF att.mode \in {"batched", "simple"} THEN ReadDense(store, att.rows + 1, FALSE)
    ELSE Causal(Inputs, att.to - 1 - p, FALSE)

\* Prefill drops the state of the slot, and nothing else does.
StateBefore == IF att.from = 0 THEN <<>> ELSE att.state[att.layer]

\* GatedDeltaNetAttention, lightning_attention: the recurrence is over all it
\* was ever fed.  The convolution sees the tail of the last call and its own
\* input, whose end is the next tail.
Fed(p) == StateBefore \o Span(att.from, p + 1)
LastOf(s, k) == SubSeq(s, IF Len(s) > k THEN Len(s) - k + 1 ELSE 1, Len(s))
RangeOf(s) == {s[i] : i \in DOMAIN s}
RecurrentSees(p) ==
    IF Kind = "linear" THEN RangeOf(Fed(p)) ELSE RangeOf(LastOf(Fed(p), Kernel))

\* The tail is one short.
FaultyNextState ==
    IF Kind = "linear" THEN Fed(att.to - 1) ELSE LastOf(Fed(att.to - 1), Kernel - 2)

\* set_state, set_conv_tail
NextState ==
    IF Kind = "linear" THEN Fed(att.to - 1) ELSE LastOf(Fed(att.to - 1), Kernel - 1)

Layer ==
    LET l     == att.layer
        store == IF Kind = "latent" THEN LatentWritten(att.store[l]) ELSE Written(att.store[l])
        sees  == [p \in att.from..att.right - 1 |->
                    CASE Kind \in {"full", "window"} -> GqaSees(p, store, att.acc[l])
                      [] Kind = "latent"             -> MlaSees(p, store)
                      [] OTHER                       -> RecurrentSees(p)] IN
    /\ l \in DOMAIN att.model
    /\ att' = [att EXCEPT
            !.layer = l + 1,
            !.saw[l] = [p \in 0..MaxLen - 1 |-> IF p \in DOMAIN sees THEN sees[p] ELSE @[p]],
            !.store[l] = IF Kind \in {"linear", "conv"} THEN @ ELSE store,
            !.acc[l] = IF att.mode = "chunk" THEN @ \o Inputs ELSE @,
            !.state[l] = IF Kind \in {"linear", "conv"} THEN NextState ELSE @]

\* All layers have written: advance, once, by what is kept.  Only ModelRunner
\* tells the cache; the engine counts in the sequence.
Advance ==
    /\ att.layer = Len(att.model) + 1
    /\ att' = [att EXCEPT !.layer = 0, !.mode = "none", !.length = att.right,
                          !.rows = IF att.path = "runner" THEN att.right ELSE @,
                          !.acc = IF att.right >= att.prompt
                                  THEN [l \in DOMAIN att.model |-> <<>>] ELSE @]

Done == att.layer = 0 /\ att.length = MaxLen /\ UNCHANGED att

Next == Start \/ Layer \/ Advance \/ Done

-----------------------------------------------------------------------------
\* Whatever the mixture of prefill, chunks, packing, decode and verify, every
\* committed position of every layer was computed from exactly the tokens
\* that the model's causal definition names, none of them a rejected draft
\* or another sequence's; and the K/V kept for it is its own.
SeesItsPast ==
    att.layer = 0 => \A l \in DOMAIN att.model : \A p \in 0..att.length - 1 :
        /\ att.saw[l][p] =
            {q \in 0..p : CASE att.model[l] = "window" -> q > p - Window
                            [] att.model[l] = "conv"   -> q > p - Kernel
                            [] OTHER                   -> TRUE}
        /\ att.model[l] \in {"full", "window", "latent"} => att.store[l][p] = p
=============================================================================
