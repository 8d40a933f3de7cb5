------------------------------ MODULE MCAttention ------------------------------
(***************************************************************************)
(* A DeepSeek model of two latent layers under LLMEngine, which builds an  *)
(* MLALatentCache for it (engine/llm_engine.py:60), prompts prefilled      *)
(* whole.                                                                  *)
(***************************************************************************)
EXTENDS Attention

MCServed == {<<<<"latent", "latent">>, "engine">>}

LatentSpec == Init /\ [][Next]_att

\* A batched decode through MLALatentCache "returns the per-slot cached
\* history" (models/cache.py:267): each position of each layer is computed from
\* the whole sequence before it.
LatentSeesHistory == SeesItsPast
=============================================================================
